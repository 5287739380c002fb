------------------------------ MODULE Mailing ------------------------------
(***************************************************************************)
(* What the invitation mails of a Manager are made of: SMTPEmailSender     *)
(* (internal/email/smtp.go) and the settings of a Config, which the        *)
(* constructors of Manager apply to the sender (applyEmailTemplateConfig,  *)
(* in manager.go).                                                         *)
(*                                                                         *)
(* A sender keeps the paths of a subject and a body template, what was     *)
(* loaded from them, and a From address.  It falls back to its defaults    *)
(* for a file that cannot be read or parsed at that moment.  Several       *)
(* Configs may name one sender, and nothing locks it: a constructor writes *)
(* its fields one by one, and a mail reads them one by one.                *)
(***************************************************************************)
EXTENDS Naturals

CONSTANTS Managers, Configs, Senders,  \* the objects built
          Path,     \* template files
          From,     \* From addresses
          Settings, \* what applications ask for
          Default,  \* a default template; the From of the environment
          Nil       \* not set: "" for a path or an address

ASSUME DefaultIsNoSetting == Default # Nil /\ {Default, Nil} \cap (Path \cup From) = {}

\* What an application sets: of a Config, or when it makes a sender.
AllSettings == [subject : Path \cup {Nil}, body : Path \cup {Nil}, from : From \cup {Nil}]

NoSettings == [subject |-> Nil, body |-> Nil, from |-> Nil]

ASSUME SettingsAssumption == Settings \subseteq AllSettings

Template == Path \cup {Default}

Sender == [subjectPath : Path \cup {Nil}, bodyPath : Path \cup {Nil},
           subject : Template, body : Template, from : From \cup {Default}]

\* Where a constructor is: what it does next to its sender.
Steps == {"subjectPath", "bodyPath", "readSubject", "storeSubject", "readBody", "storeBody",
          "from", "built"}

\* What a mail has read of its sender.  steady: no constructor was there since
\* the mail was begun.
Mail == [by : Managers, steady : BOOLEAN, subject : Template, body : Template \cup {Nil},
         header : From \cup {Default, Nil}, envelope : From \cup {Default, Nil}]

ASSUME NilIsNoObject ==
    Nil \notin Managers \cup Configs \cup Senders \cup AllSettings \cup Sender \cup Mail
             \cup Steps

VARIABLES config,    \* Manager.config, from the call of its constructor on
          step,      \* where the constructor of each Manager is, or Nil
          template,  \* the template it has read and not stored yet, or Nil
          sender,    \* Config.EmailSender
          settings,  \* Config.InvitationEmail...: two paths, and From
          made,      \* the arguments each sender was made with, or Nil
          smtp,      \* the fields of each sender, or Nil
          readable,  \* the files that can be read and parsed now
          mail,      \* any one mail: what it has read of its sender, or Nil
          missed,    \* history: the files that could not be read at some time
          latest     \* history: the settings in force at each sender

vars == <<config, step, template, sender, settings, made, smtp, readable, mail, missed, latest>>

TypeOK == /\ config \in [Managers -> Configs \cup {Nil}]
          /\ step \in [Managers -> Steps \cup {Nil}]
          /\ template \in [Managers -> Template \cup {Nil}]
          /\ sender \in [Configs -> Senders \cup {Nil}]
          /\ settings \in [Configs -> AllSettings]
          /\ made \in [Senders -> AllSettings \cup {Nil}]
          /\ smtp \in [Senders -> Sender \cup {Nil}]
          /\ readable \subseteq Path /\ missed \subseteq Path
          /\ mail \in Mail \cup {Nil}
          /\ latest \in [Senders -> AllSettings \cup {Nil}]
          /\ \A s \in Senders : made[s] = Nil <=> smtp[s] = Nil
          /\ \A c \in Configs : sender[c] # Nil => smtp[sender[c]] # Nil

Init == /\ config = [m \in Managers |-> Nil]
        /\ step = [m \in Managers |-> Nil]
        /\ template = [m \in Managers |-> Nil]
        /\ sender = [c \in Configs |-> Nil]
        /\ settings = [c \in Configs |-> NoSettings]
        /\ made = [s \in Senders |-> Nil]
        /\ smtp = [s \in Senders |-> Nil]
        /\ readable \in SUBSET Path
        /\ mail = Nil
        /\ missed = Path \ readable
        /\ latest = [s \in Senders |-> Nil]

-----------------------------------------------------------------------------
SenderOf(m) == sender[config[m]]

SettingsOf(m) == settings[config[m]]

Built(m) == step[m] = "built"

\* A constructor is at sender s.
Busy(s) == \E m \in Managers : step[m] \in Steps \ {"built"} /\ SenderOf(m) = s

\* Mistake: no default stands in for a file that is missing.
LoadedOrNone(path) == IF path \in readable THEN path ELSE Nil

\* loadTemplates, for one of the two templates.
Loaded(path) == IF path \in readable THEN path ELSE Default

\* NewSMTPEmailSender, which loads the defaults, and ...WithTemplates.  Nobody
\* else has the sender before it is returned.
NewSMTPEmailSender(s) ==
    /\ smtp[s] = Nil
    /\ \E set \in Settings :
          /\ made' = [made EXCEPT ![s] = set]
          /\ latest' = [latest EXCEPT ![s] = set]
          /\ smtp' = [smtp EXCEPT ![s] =
                        [subjectPath |-> set.subject, bodyPath |-> set.body,
                         subject |-> Loaded(set.subject), body |-> Loaded(set.body),
                         from |-> IF set.from = Nil THEN Default ELSE set.from]]
    /\ UNCHANGED <<config, step, template, sender, settings, readable, mail, missed>>

\* The application fills in a Config before it builds a Manager from it.
Configure(c) ==
    /\ sender[c] = Nil
    /\ \A m \in Managers : config[m] # c
    /\ \E s \in Senders, set \in Settings :
          /\ smtp[s] # Nil
          /\ sender' = [sender EXCEPT ![c] = s]
          /\ settings' = [settings EXCEPT ![c] = set]
    /\ UNCHANGED <<config, step, template, made, smtp, readable, mail, missed, latest>>

-----------------------------------------------------------------------------
\* Mistake: templates are applied only when both are set.
SetsBothTemplates(set) == set.subject # Nil /\ set.body # Nil

\* applyEmailTemplateConfig calls SetTemplatePaths, with both paths.
SetsTemplates(set) == set.subject # Nil \/ set.body # Nil

\* It calls SetFrom, after that.
FromOrBuilt(set) == IF set.from # Nil THEN "from" ELSE "built"

FirstStep(set) == IF SetsTemplates(set) THEN "subjectPath" ELSE FromOrBuilt(set)

NoTemplates(set) == set.subject = Nil /\ set.body = Nil

\* The settings in force once set is applied to a sender where old is: both
\* templates or none are replaced.  Nil is not known, after an overlap.
Combined(old, set) ==
    IF ~NoTemplates(set) /\ set.from # Nil THEN set
    ELSE IF old = Nil THEN Nil
    ELSE IF NoTemplates(set) THEN [old EXCEPT !.from = IF set.from = Nil THEN old.from ELSE set.from]
    ELSE [set EXCEPT !.from = old.from]

\* A constructor comes to the sender.
Arrive(s, set) ==
    /\ latest' = [latest EXCEPT ![s] = IF Busy(s) THEN Nil ELSE Combined(@, set)]
    /\ mail' = IF mail # Nil /\ SenderOf(mail.by) = s THEN [mail EXCEPT !.steady = FALSE] ELSE mail

\* NewManager and NewManagerWithStorage are called with a Config.
NewManager(m) ==
    /\ step[m] = Nil
    /\ \E c \in Configs :
          /\ config' = [config EXCEPT ![m] = c]
          /\ \/ /\ sender[c] # Nil
                /\ step' = [step EXCEPT ![m] = FirstStep(settings[c])]
                /\ \/ FirstStep(settings[c]) # "built" /\ Arrive(sender[c], settings[c])
                   \/ FirstStep(settings[c]) = "built" /\ UNCHANGED <<latest, mail>>
             \/ /\ sender[c] = Nil
                /\ step' = [step EXCEPT ![m] = "built"]
                /\ UNCHANGED <<latest, mail>>
    /\ UNCHANGED <<template, sender, settings, made, smtp, readable, missed>>

\* One write of m's constructor to its sender.
Write(m, fields, next) ==
    /\ smtp' = [smtp EXCEPT ![SenderOf(m)] = fields]
    /\ step' = [step EXCEPT ![m] = next]
    /\ UNCHANGED <<config, sender, settings, made, readable, mail, missed, latest>>

SetSubjectPath(m) ==
    /\ step[m] = "subjectPath"
    /\ Write(m, [smtp[SenderOf(m)] EXCEPT !.subjectPath = SettingsOf(m).subject], "bodyPath")
    /\ UNCHANGED template

\* Mistake: a path that is not set leaves the old one.
SetBodyPathGiven(m) ==
    /\ step[m] = "bodyPath"
    /\ Write(m, [smtp[SenderOf(m)] EXCEPT !.bodyPath = IF SettingsOf(m).body = Nil THEN @
                                                      ELSE SettingsOf(m).body], "readSubject")
    /\ UNCHANGED template

SetBodyPath(m) ==
    /\ step[m] = "bodyPath"
    /\ Write(m, [smtp[SenderOf(m)] EXCEPT !.bodyPath = SettingsOf(m).body], "readSubject")
    /\ UNCHANGED template

\* loadTemplates goes by the path in the sender, whoever has put it there.
ReadFile(m, path, next) ==
    /\ template' = [template EXCEPT ![m] = Loaded(path)]
    /\ step' = [step EXCEPT ![m] = next]
    /\ UNCHANGED <<config, sender, settings, made, smtp, readable, mail, missed, latest>>

ReadSubject(m) ==
    /\ step[m] = "readSubject"
    /\ ReadFile(m, smtp[SenderOf(m)].subjectPath, "storeSubject")

ReadBody(m) ==
    /\ step[m] = "readBody"
    /\ ReadFile(m, smtp[SenderOf(m)].bodyPath, "storeBody")

StoreSubject(m) ==
    /\ step[m] = "storeSubject"
    /\ Write(m, [smtp[SenderOf(m)] EXCEPT !.subject = template[m]], "readBody")
    /\ template' = [template EXCEPT ![m] = Nil]

StoreBody(m) ==
    /\ step[m] = "storeBody"
    /\ Write(m, [smtp[SenderOf(m)] EXCEPT !.body = template[m]], FromOrBuilt(SettingsOf(m)))
    /\ template' = [template EXCEPT ![m] = Nil]

SetFrom(m) ==
    /\ step[m] = "from"
    /\ Write(m, [smtp[SenderOf(m)] EXCEPT !.from = SettingsOf(m).from], "built")
    /\ UNCHANGED template

-----------------------------------------------------------------------------
\* SendInvitation begins with the subject.  It may give up after any read.
SendInvitation(m) ==
    /\ Built(m) /\ SenderOf(m) # Nil
    /\ mail' = [by |-> m, steady |-> ~Busy(SenderOf(m)), subject |-> smtp[SenderOf(m)].subject,
                body |-> Nil, header |-> Nil, envelope |-> Nil]
    /\ UNCHANGED <<config, step, template, sender, settings, made, smtp, readable, missed, latest>>

\* executeBodyTemplate, buildEmailMessage and the call of smtp.SendMail.
ReadOn ==
    /\ mail # Nil
    /\ LET fields == smtp[SenderOf(mail.by)]
       IN  \/ /\ mail.body = Nil
              /\ mail' = [mail EXCEPT !.body = fields.body]
           \/ /\ mail.body # Nil /\ mail.header = Nil
              /\ mail' = [mail EXCEPT !.header = fields.from]
           \/ /\ mail.header # Nil /\ mail.envelope = Nil
              /\ mail' = [mail EXCEPT !.envelope = fields.from]
    /\ UNCHANGED <<config, step, template, sender, settings, made, smtp, readable, missed, latest>>

\* A template file is edited, removed or put back.
ChangeFile(p) ==
    /\ readable' = IF p \in readable THEN readable \ {p} ELSE readable \cup {p}
    /\ missed' = missed \cup (Path \ readable')
    /\ UNCHANGED <<config, step, template, sender, settings, made, smtp, mail, latest>>

Construct(m) == \/ SetSubjectPath(m) \/ SetBodyPath(m)
                \/ ReadSubject(m) \/ StoreSubject(m) \/ ReadBody(m) \/ StoreBody(m)
                \/ SetFrom(m)

Next == \/ \E s \in Senders : NewSMTPEmailSender(s)
        \/ \E c \in Configs : Configure(c)
        \/ \E m \in Managers : NewManager(m) \/ Construct(m) \/ SendInvitation(m)
        \/ ReadOn
        \/ \E p \in Path : ChangeFile(p)

Spec == Init /\ [][Next]_vars

-----------------------------------------------------------------------------
\* The template is the one asked for; the default stands in for no path, and
\* for a file that was missing.
Fits(t, path) == t = path \/ (t = Default /\ path \in missed \cup {Nil})

OrDefault(from) == IF from = Nil THEN Default ELSE from

\* What the mail has read so far is as set asks.
MailFits(set) ==
    /\ Fits(mail.subject, set.subject)
    /\ mail.body # Nil => Fits(mail.body, set.body)
    /\ mail.header # Nil => mail.header = OrDefault(set.from)
    /\ mail.envelope # Nil => mail.envelope = OrDefault(set.from)

\* The templates and the From that c asks for when it alone is applied to s.
Effective(c, s) ==
    [subject |-> IF NoTemplates(settings[c]) THEN made[s].subject ELSE settings[c].subject,
     body    |-> IF NoTemplates(settings[c]) THEN made[s].body ELSE settings[c].body,
     from    |-> IF settings[c].from = Nil THEN made[s].from ELSE settings[c].from]

\* No Manager of another Config is, or is being, built on this sender.
Alone(c, s) == \A m \in Managers : step[m] # Nil /\ SenderOf(m) = s => config[m] = c

\* If its Config has the sender to itself, a Manager mails what the Config asks
\* for, subject, body and both From addresses; what the Config does not ask for
\* stays as the sender was made.  So it is while other constructors apply the
\* same Config in the middle of a mail, and while files come and go: no default
\* appears for a file that was always there.
MailFollowsConfig ==
    mail # Nil /\ Alone(config[mail.by], SenderOf(mail.by)) =>
        MailFits(Effective(config[mail.by], SenderOf(mail.by)))

\* A mail that meets no constructor is all of one configuration, the one in
\* force, whoever applied it: after any number of Configs no template and no
\* From address is left over from an earlier one.  Only constructors that were
\* at the sender together leave a mixture, until a Config that sets templates
\* and From is applied alone.
MailIsOfLatestConfig ==
    mail # Nil /\ mail.steady /\ latest[SenderOf(mail.by)] # Nil =>
        MailFits(latest[SenderOf(mail.by)])
=============================================================================
