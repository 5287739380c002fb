--------------------------- MODULE MailingProofs ---------------------------
(***************************************************************************)
(* Theorems about Mailing, for any number of Managers, Configs, senders    *)
(* and files, and constructors and mails that run at the same time.        *)
(***************************************************************************)
EXTENDS Mailing, TLAPS

Begun(m) == step[m] # Nil

\* Where a constructor has put its paths, its subject and its body into effect.
AfterSubjectPath == Steps \ {"subjectPath"}
AfterBodyPath == AfterSubjectPath \ {"bodyPath"}
AfterSubject == {"readBody", "storeBody", "from", "built"}
AfterBody == {"from", "built"}

\* A constructor is where its settings can bring it, and has a Config.
StepsMakeSense ==
    \A m \in Managers :
       /\ Begun(m) <=> config[m] # Nil
       /\ step[m] \in {"storeSubject", "storeBody"} => template[m] # Nil
       /\ Begun(m) /\ SenderOf(m) = Nil => Built(m)
       /\ step[m] \in Steps \ AfterBody => SetsTemplates(SettingsOf(m))
       /\ step[m] = "from" => SettingsOf(m).from # Nil

\* How far m has made its sender what t asks for.
Progress(m, t) ==
    LET set    == SettingsOf(m)
        fields == smtp[SenderOf(m)]
    IN  /\ SetsTemplates(set) =>
              /\ step[m] \in AfterSubjectPath => fields.subjectPath = set.subject
              /\ step[m] \in AfterBodyPath => fields.bodyPath = set.body
        /\ step[m] = "storeSubject" => Fits(template[m], t.subject)
        /\ step[m] = "storeBody" => Fits(template[m], t.body)
        /\ step[m] \in AfterSubject => Fits(fields.subject, t.subject)
        /\ step[m] \in AfterBody => Fits(fields.body, t.body)
        /\ Built(m) \/ set.from = Nil => fields.from = OrDefault(t.from)

\* The sender is all as t asks.
IsAs(s, t) == /\ Fits(smtp[s].subject, t.subject)
              /\ Fits(smtp[s].body, t.body)
              /\ smtp[s].from = OrDefault(t.from)

Quiet(s) == \A m \in Managers : Begun(m) => SenderOf(m) # s

\* A sender no constructor has come to is as it was made.
AsMade == \A s \in Senders : smtp[s] # Nil /\ Quiet(s) => IsAs(s, made[s])

\* Constructors that share their sender with no other Config.
OwnSender ==
    \A m \in Managers :
       Begun(m) /\ SenderOf(m) # Nil /\ Alone(config[m], SenderOf(m)) =>
          Progress(m, Effective(config[m], SenderOf(m)))

\* Where the settings in force are known, one constructor at most is at the
\* sender, and brings them about; they are in effect when it is done.
AtWork(m, s) == step[m] \in Steps \ {"built"} /\ SenderOf(m) = s

LatestInForce ==
    \A s \in Senders : latest[s] # Nil /\ smtp[s] # Nil =>
       /\ \A m, n \in Managers : AtWork(m, s) /\ AtWork(n, s) => m = n
       /\ ~Busy(s) => IsAs(s, latest[s])
       /\ \A m \in Managers : AtWork(m, s) =>
             /\ SetsTemplates(SettingsOf(m)) =>
                   /\ latest[s].subject = SettingsOf(m).subject
                   /\ latest[s].body = SettingsOf(m).body
             /\ SettingsOf(m).from # Nil => latest[s].from = SettingsOf(m).from
             /\ Progress(m, latest[s])

\* A mail is of a Manager that is built.
MailMakesSense ==
    mail # Nil => /\ Built(mail.by) /\ SenderOf(mail.by) # Nil
                  /\ mail.steady => ~Busy(SenderOf(mail.by))

\* missed is what its name says.
MissedSoFar == Path \ readable \subseteq missed

MailInv == /\ TypeOK /\ MissedSoFar /\ StepsMakeSense /\ AsMade /\ OwnSender /\ LatestInForce
           /\ MailMakesSense /\ MailFollowsConfig /\ MailIsOfLatestConfig

-----------------------------------------------------------------------------
LEMMA MailingInit == Init => MailInv
<1> SUFFICES ASSUME Init PROVE MailInv
  OBVIOUS
<1> USE NilIsNoObject
<1>1. TypeOK
  BY SettingsAssumption DEF Init, TypeOK, AllSettings, NoSettings
<1>2. \A m \in Managers : step[m] = Nil /\ config[m] = Nil
  BY DEF Init
<1>4. StepsMakeSense
  BY <1>2 DEF StepsMakeSense, Begun, Steps, AfterBody
<1>5. AsMade /\ LatestInForce
  BY DEF Init, AsMade, LatestInForce
<1>6. OwnSender
  BY <1>2 DEF OwnSender, Begun
<1> QED
  BY <1>1, <1>4, <1>5, <1>6 DEF Init, MailInv, MailMakesSense, MailFollowsConfig, MailIsOfLatestConfig,
     MissedSoFar

LEMMA LoadedIsTemplate ==
  ASSUME NEW path \in Path \cup {Nil}, TypeOK, MissedSoFar
  PROVE  Loaded(path) \in Template /\ Fits(Loaded(path), path)
BY DEF Loaded, Fits, Template, TypeOK, MissedSoFar

LEMMA SettingsFields ==
  ASSUME NEW set \in AllSettings
  PROVE  /\ set.subject \in Path \cup {Nil} /\ set.body \in Path \cup {Nil}
         /\ set.from \in From \cup {Nil}
BY DEF AllSettings

LEMMA SenderFields ==
  ASSUME NEW fields \in Sender
  PROVE  /\ fields.subjectPath \in Path \cup {Nil} /\ fields.bodyPath \in Path \cup {Nil}
         /\ fields.subject \in Template /\ fields.body \in Template
         /\ fields.from \in From \cup {Default}
BY DEF Sender

-----------------------------------------------------------------------------
\* What a constructor has in hand when it moves, and where.
LEMMA AtItsSender ==
  ASSUME TypeOK, StepsMakeSense, NEW m \in Managers, Construct(m)
  PROVE  /\ step[m] \in Steps \ {"built"} /\ Begun(m) /\ config[m] \in Configs
         /\ SenderOf(m) \in Senders /\ SettingsOf(m) \in AllSettings
         /\ smtp[SenderOf(m)] \in Sender
         /\ UNCHANGED <<config, sender, settings, made, readable, mail, missed, latest>>
<1> USE NilIsNoObject
<1>1. step[m] \in Steps \ {"built"}
  BY DEF Construct, SetSubjectPath, SetBodyPath, ReadSubject, StoreSubject, ReadBody, StoreBody, SetFrom, Steps
<1>2. Begun(m) /\ config[m] \in Configs
  BY <1>1 DEF Begun, StepsMakeSense, TypeOK
<1>3. SenderOf(m) \in Senders
  BY <1>1, <1>2 DEF StepsMakeSense, TypeOK, SenderOf, Built
<1>4. SettingsOf(m) \in AllSettings /\ smtp[SenderOf(m)] \in Sender
  BY <1>2, <1>3 DEF TypeOK, SettingsOf, SenderOf
<1>5. UNCHANGED <<config, sender, settings, made, readable, mail, missed, latest>>
  BY DEF Construct, SetSubjectPath, SetBodyPath, ReadSubject, StoreSubject, ReadBody, StoreBody, SetFrom,
         Write, ReadFile
<1> QED
  BY <1>1, <1>2, <1>3, <1>4, <1>5

\* A constructor that moves brings every constructor of its Config at this
\* sender, and itself, nearer to the same settings.
LEMMA MoveMakesProgress ==
  ASSUME TypeOK, StepsMakeSense, MissedSoFar, NEW m \in Managers, Construct(m),
         NEW k \in Managers, config[k] = config[m],
         NEW t \in AllSettings,
         SetsTemplates(SettingsOf(m)) => /\ t.subject = SettingsOf(m).subject
                                         /\ t.body = SettingsOf(m).body,
         SettingsOf(m).from # Nil => t.from = SettingsOf(m).from,
         Progress(m, t), Progress(k, t)
  PROVE  Progress(k, t)'
<1> USE NilIsNoObject
<1> DEFINE s == SenderOf(m)
           set == SettingsOf(m)
           old == smtp[s]
           new == smtp'[s]
<1>a. /\ step[m] \in Steps \ {"built"} /\ s \in Senders /\ set \in AllSettings /\ old \in Sender
      /\ UNCHANGED <<config, sender, settings, made, readable, mail, missed, latest>>
  BY AtItsSender
<1>f. /\ set.subject \in Path \cup {Nil} /\ set.body \in Path \cup {Nil} /\ set.from \in From \cup {Nil}
      /\ old.subjectPath \in Path \cup {Nil} /\ old.bodyPath \in Path \cup {Nil}
  BY <1>a, SettingsFields, SenderFields
<1>k. SenderOf(k) = s /\ SettingsOf(k) = set /\ SenderOf(k)' = s /\ SettingsOf(k)' = set
  BY <1>a DEF SenderOf, SettingsOf
<1>t. \A x, y : Fits(x, y)' <=> Fits(x, y)
  BY <1>a DEF Fits
<1>p. /\ SetsTemplates(set) =>
            /\ step[k] \in AfterSubjectPath => old.subjectPath = set.subject
            /\ step[k] \in AfterBodyPath => old.bodyPath = set.body
      /\ step[k] = "storeSubject" => Fits(template[k], t.subject)
      /\ step[k] = "storeBody" => Fits(template[k], t.body)
      /\ step[k] \in AfterSubject => Fits(old.subject, t.subject)
      /\ step[k] \in AfterBody => Fits(old.body, t.body)
      /\ step[k] = "built" \/ set.from = Nil => old.from = OrDefault(t.from)
  BY <1>k DEF Progress, Built
<1>m. /\ SetsTemplates(set) =>
            /\ step[m] \in AfterSubjectPath => old.subjectPath = set.subject
            /\ step[m] \in AfterBodyPath => old.bodyPath = set.body
      /\ step[m] = "storeSubject" => Fits(template[m], t.subject)
      /\ step[m] = "storeBody" => Fits(template[m], t.body)
      /\ step[m] \in AfterSubject => Fits(old.subject, t.subject)
      /\ step[m] \in AfterBody => Fits(old.body, t.body)
      /\ step[m] = "built" \/ set.from = Nil => old.from = OrDefault(t.from)
  BY DEF Progress, Built
<1>w. step[m] \in Steps \ AfterBody => SetsTemplates(set)
  BY DEF StepsMakeSense
<1>g. SUFFICES
      /\ SetsTemplates(set) =>
            /\ step'[k] \in AfterSubjectPath => new.subjectPath = set.subject
            /\ step'[k] \in AfterBodyPath => new.bodyPath = set.body
      /\ step'[k] = "storeSubject" => Fits(template'[k], t.subject)
      /\ step'[k] = "storeBody" => Fits(template'[k], t.body)
      /\ step'[k] \in AfterSubject => Fits(new.subject, t.subject)
      /\ step'[k] \in AfterBody => Fits(new.body, t.body)
      /\ step'[k] = "built" \/ set.from = Nil => new.from = OrDefault(t.from)
  BY <1>k, <1>t DEF Progress, Built
<1>h. /\ step \in [Managers -> Steps \cup {Nil}] /\ template \in [Managers -> Template \cup {Nil}]
      /\ smtp \in [Senders -> Sender \cup {Nil}]
  BY DEF TypeOK
<1> HIDE DEF s, set
<1>1. CASE SetSubjectPath(m)
  <2>1. /\ step[m] = "subjectPath" /\ step' = [step EXCEPT ![m] = "bodyPath"] /\ template' = template
        /\ smtp' = [smtp EXCEPT ![s] = [old EXCEPT !.subjectPath = set.subject]]
    BY <1>1 DEF SetSubjectPath, Write, s, set
  <2>2. new = [old EXCEPT !.subjectPath = set.subject]
    BY <1>a, <1>h, <2>1
  <2>3. /\ new.subjectPath = set.subject
        /\ new.bodyPath = old.bodyPath /\ new.subject = old.subject /\ new.body = old.body /\ new.from = old.from
    BY <1>a, <2>2 DEF Sender
  <2>4. /\ k # m => step'[k] = step[k] /\ template'[k] = template[k]
        /\ step'[m] = "bodyPath"
    BY <1>h, <2>1
  <2> QED
    BY <1>p, <1>m, <1>w, <2>1, <2>3, <2>4
       DEF AfterSubjectPath, AfterBodyPath, AfterSubject, AfterBody, Steps
<1>2. CASE SetBodyPath(m)
  <2>1. /\ step[m] = "bodyPath" /\ step' = [step EXCEPT ![m] = "readSubject"] /\ template' = template
        /\ smtp' = [smtp EXCEPT ![s] = [old EXCEPT !.bodyPath = set.body]]
    BY <1>2 DEF SetBodyPath, Write, s, set
  <2>2. new = [old EXCEPT !.bodyPath = set.body]
    BY <1>a, <1>h, <2>1
  <2>3. /\ new.bodyPath = set.body
        /\ new.subjectPath = old.subjectPath /\ new.subject = old.subject /\ new.body = old.body /\ new.from = old.from
    BY <1>a, <2>2 DEF Sender
  <2>4. /\ k # m => step'[k] = step[k] /\ template'[k] = template[k]
        /\ step'[m] = "readSubject"
    BY <1>h, <2>1
  <2> QED
    BY <1>p, <1>m, <1>w, <2>1, <2>3, <2>4
       DEF AfterSubjectPath, AfterBodyPath, AfterSubject, AfterBody, Steps
<1>3. CASE ReadSubject(m)
  <2>1. /\ step[m] = "readSubject" /\ step' = [step EXCEPT ![m] = "storeSubject"]
        /\ template' = [template EXCEPT ![m] = Loaded(old.subjectPath)] /\ new = old
    BY <1>3 DEF ReadSubject, ReadFile, s
  <2>2. old.subjectPath = set.subject /\ SetsTemplates(set)
    BY <1>m, <1>w, <2>1 DEF AfterSubjectPath, AfterBodyPath, AfterBody, Steps
  <2>3. Fits(Loaded(old.subjectPath), t.subject)
    BY <1>f, <2>2, LoadedIsTemplate DEF set
  <2>4. /\ k # m => step'[k] = step[k] /\ template'[k] = template[k]
        /\ step'[m] = "storeSubject" /\ template'[m] = Loaded(old.subjectPath)
    BY <1>h, <2>1
  <2> QED
    BY <1>p, <1>m, <1>w, <2>1, <2>3, <2>4
       DEF AfterSubjectPath, AfterBodyPath, AfterSubject, AfterBody, Steps
<1>4. CASE StoreSubject(m)
  <2>1. /\ step[m] = "storeSubject" /\ step' = [step EXCEPT ![m] = "readBody"] /\ template' = [template EXCEPT ![m] = Nil]
        /\ smtp' = [smtp EXCEPT ![s] = [old EXCEPT !.subject = template[m]]]
    BY <1>4 DEF StoreSubject, Write, s, set
  <2>2. new = [old EXCEPT !.subject = template[m]]
    BY <1>a, <1>h, <2>1
  <2>3. /\ new.subject = template[m]
        /\ new.subjectPath = old.subjectPath /\ new.bodyPath = old.bodyPath /\ new.body = old.body /\ new.from = old.from
    BY <1>a, <2>2 DEF Sender
  <2>4. /\ k # m => step'[k] = step[k] /\ template'[k] = template[k]
        /\ step'[m] = "readBody"
    BY <1>h, <2>1
  <2> QED
    BY <1>p, <1>m, <1>w, <2>1, <2>3, <2>4
       DEF AfterSubjectPath, AfterBodyPath, AfterSubject, AfterBody, Steps
<1>5. CASE ReadBody(m)
  <2>1. /\ step[m] = "readBody" /\ step' = [step EXCEPT ![m] = "storeBody"]
        /\ template' = [template EXCEPT ![m] = Loaded(old.bodyPath)] /\ new = old
    BY <1>5 DEF ReadBody, ReadFile, s
  <2>2. old.bodyPath = set.body /\ SetsTemplates(set)
    BY <1>m, <1>w, <2>1 DEF AfterSubjectPath, AfterBodyPath, AfterBody, Steps
  <2>3. Fits(Loaded(old.bodyPath), t.body)
    BY <1>f, <2>2, LoadedIsTemplate DEF set
  <2>4. /\ k # m => step'[k] = step[k] /\ template'[k] = template[k]
        /\ step'[m] = "storeBody" /\ template'[m] = Loaded(old.bodyPath)
    BY <1>h, <2>1
  <2> QED
    BY <1>p, <1>m, <1>w, <2>1, <2>3, <2>4
       DEF AfterSubjectPath, AfterBodyPath, AfterSubject, AfterBody, Steps
<1>6. CASE StoreBody(m)
  <2>1. /\ step[m] = "storeBody" /\ step' = [step EXCEPT ![m] = FromOrBuilt(set)] /\ template' = [template EXCEPT ![m] = Nil]
        /\ smtp' = [smtp EXCEPT ![s] = [old EXCEPT !.body = template[m]]]
    BY <1>6 DEF StoreBody, Write, s, set
  <2>2. new = [old EXCEPT !.body = template[m]]
    BY <1>a, <1>h, <2>1
  <2>3. /\ new.body = template[m]
        /\ new.subjectPath = old.subjectPath /\ new.bodyPath = old.bodyPath /\ new.subject = old.subject /\ new.from = old.from
    BY <1>a, <2>2 DEF Sender
  <2>4. /\ k # m => step'[k] = step[k] /\ template'[k] = template[k]
        /\ step'[m] = FromOrBuilt(set)
    BY <1>h, <2>1
  <2>5. FromOrBuilt(set) = "from" \/ (FromOrBuilt(set) = "built" /\ set.from = Nil)
    BY DEF FromOrBuilt
  <2> QED
    BY <1>p, <1>m, <1>w, <2>1, <2>3, <2>4, <2>5
       DEF AfterSubjectPath, AfterBodyPath, AfterSubject, AfterBody, Steps
<1>7. CASE SetFrom(m)
  <2>1. /\ step[m] = "from" /\ step' = [step EXCEPT ![m] = "built"] /\ template' = template
        /\ smtp' = [smtp EXCEPT ![s] = [old EXCEPT !.from = set.from]]
    BY <1>7 DEF SetFrom, Write, s, set
  <2>2. new = [old EXCEPT !.from = set.from]
    BY <1>a, <1>h, <2>1
  <2>3. /\ new.from = set.from
        /\ new.subjectPath = old.subjectPath /\ new.bodyPath = old.bodyPath /\ new.subject = old.subject /\ new.body = old.body
    BY <1>a, <2>2 DEF Sender
  <2>4. /\ k # m => step'[k] = step[k] /\ template'[k] = template[k]
        /\ step'[m] = "built"
    BY <1>h, <2>1
  <2>5. set.from # Nil /\ set.from = OrDefault(t.from)
    BY <2>1 DEF StepsMakeSense, OrDefault, set
  <2> QED
    BY <1>p, <1>m, <1>w, <2>1, <2>3, <2>4, <2>5
       DEF AfterSubjectPath, AfterBodyPath, AfterSubject, AfterBody, Steps
<1> QED
  BY <1>1, <1>2, <1>3, <1>4, <1>5, <1>6, <1>7 DEF Construct

\* What a move of a constructor leaves alone, and that the types hold after it.
LEMMA MoveFrame ==
  ASSUME TypeOK, StepsMakeSense, MissedSoFar, NEW m \in Managers, Construct(m)
  PROVE  /\ TypeOK' /\ StepsMakeSense' /\ step'[m] \in Steps
         /\ \A r \in Senders \ {SenderOf(m)} : smtp'[r] = smtp[r]
         /\ \A n \in Managers \ {m} : step'[n] = step[n] /\ template'[n] = template[n]
<1> USE NilIsNoObject
<1> DEFINE s == SenderOf(m)
           set == SettingsOf(m)
           old == smtp[s]
<1>a. /\ step[m] \in Steps \ {"built"} /\ s \in Senders /\ set \in AllSettings /\ old \in Sender
      /\ config[m] \in Configs
      /\ UNCHANGED <<config, sender, settings, made, readable, mail, missed, latest>>
  BY AtItsSender
<1>f. /\ set.subject \in Path \cup {Nil} /\ set.body \in Path \cup {Nil} /\ set.from \in From \cup {Nil}
      /\ old.subjectPath \in Path \cup {Nil} /\ old.bodyPath \in Path \cup {Nil}
  BY <1>a, SettingsFields, SenderFields
<1>h. /\ step \in [Managers -> Steps \cup {Nil}] /\ template \in [Managers -> Template \cup {Nil}]
      /\ smtp \in [Senders -> Sender \cup {Nil}]
  BY DEF TypeOK
<1>w. /\ step[m] \in Steps \ AfterBody => SetsTemplates(set)
      /\ step[m] \in {"storeSubject", "storeBody"} => template[m] \in Template
      /\ step[m] = "from" => set.from # Nil
  BY <1>h DEF StepsMakeSense
<1>l. Loaded(old.subjectPath) \in Template /\ Loaded(old.bodyPath) \in Template
  BY <1>f, LoadedIsTemplate
<1>n. (FromOrBuilt(set) = "from" /\ set.from # Nil) \/ FromOrBuilt(set) = "built"
  BY DEF FromOrBuilt
<1>x. PICK new \in Sender, at \in Steps, t \in Template \cup {Nil} :
         /\ smtp' = [smtp EXCEPT ![s] = new]
         /\ step' = [step EXCEPT ![m] = at]
         /\ template' = [template EXCEPT ![m] = t]
         /\ at \in {"storeSubject", "storeBody"} => t # Nil
         /\ at \in Steps \ AfterBody => SetsTemplates(set)
         /\ at = "from" => set.from # Nil
  <2>0. template = [template EXCEPT ![m] = template[m]] /\ smtp = [smtp EXCEPT ![s] = old]
        /\ template[m] \in Template \cup {Nil}
    BY <1>a, <1>h
  <2> HIDE DEF s, set, old
  <2>1. CASE SetSubjectPath(m)
    <3>1. [old EXCEPT !.subjectPath = set.subject] \in Sender
      BY <1>a, <1>f DEF Sender
    <3>2. step[m] = "subjectPath" /\ step' = [step EXCEPT ![m] = "bodyPath"]
          /\ smtp' = [smtp EXCEPT ![s] = [old EXCEPT !.subjectPath = set.subject]] /\ template' = template
      BY <2>1 DEF SetSubjectPath, Write, s, set, old
    <3> QED
      BY <1>w, <2>0, <3>1, <3>2 DEF Steps, AfterBody
  <2>2. CASE SetBodyPath(m)
    <3>1. [old EXCEPT !.bodyPath = set.body] \in Sender
      BY <1>a, <1>f DEF Sender
    <3>2. step[m] = "bodyPath" /\ step' = [step EXCEPT ![m] = "readSubject"]
          /\ smtp' = [smtp EXCEPT ![s] = [old EXCEPT !.bodyPath = set.body]] /\ template' = template
      BY <2>2 DEF SetBodyPath, Write, s, set, old
    <3> QED
      BY <1>w, <2>0, <3>1, <3>2 DEF Steps, AfterBody
  <2>3. CASE ReadSubject(m)
    <3>1. step[m] = "readSubject" /\ step' = [step EXCEPT ![m] = "storeSubject"] /\ smtp' = smtp
          /\ template' = [template EXCEPT ![m] = Loaded(old.subjectPath)]
      BY <2>3 DEF ReadSubject, ReadFile, s, old
    <3> QED
      BY <1>a, <1>l, <1>w, <2>0, <3>1, DefaultIsNoSetting DEF Steps, AfterBody, Template
  <2>4. CASE StoreSubject(m)
    <3>1. step[m] = "storeSubject" /\ step' = [step EXCEPT ![m] = "readBody"]
          /\ smtp' = [smtp EXCEPT ![s] = [old EXCEPT !.subject = template[m]]]
          /\ template' = [template EXCEPT ![m] = Nil]
      BY <2>4 DEF StoreSubject, Write, s, old
    <3>2. [old EXCEPT !.subject = template[m]] \in Sender
      BY <1>a, <1>w, <3>1 DEF Sender
    <3> QED
      BY <1>w, <3>1, <3>2 DEF Steps, AfterBody
  <2>5. CASE ReadBody(m)
    <3>1. step[m] = "readBody" /\ step' = [step EXCEPT ![m] = "storeBody"] /\ smtp' = smtp
          /\ template' = [template EXCEPT ![m] = Loaded(old.bodyPath)]
      BY <2>5 DEF ReadBody, ReadFile, s, old
    <3> QED
      BY <1>a, <1>l, <1>w, <2>0, <3>1, DefaultIsNoSetting DEF Steps, AfterBody, Template
  <2>6. CASE StoreBody(m)
    <3>1. step[m] = "storeBody" /\ step' = [step EXCEPT ![m] = FromOrBuilt(set)]
          /\ smtp' = [smtp EXCEPT ![s] = [old EXCEPT !.body = template[m]]]
          /\ template' = [template EXCEPT ![m] = Nil]
      BY <2>6 DEF StoreBody, Write, s, set, old
    <3>2. [old EXCEPT !.body = template[m]] \in Sender
      BY <1>a, <1>w, <3>1 DEF Sender
    <3> QED
      BY <1>n, <1>w, <3>1, <3>2 DEF Steps, AfterBody, FromOrBuilt, set
  <2>7. CASE SetFrom(m)
    <3>1. step[m] = "from" /\ step' = [step EXCEPT ![m] = "built"] /\ template' = template
          /\ smtp' = [smtp EXCEPT ![s] = [old EXCEPT !.from = set.from]]
      BY <2>7 DEF SetFrom, Write, s, set, old
    <3>2. [old EXCEPT !.from = set.from] \in Sender
      BY <1>a, <1>f, <1>w, <3>1 DEF Sender
    <3> QED
      BY <1>w, <2>0, <3>1, <3>2 DEF Steps, AfterBody
  <2> QED
    BY <2>1, <2>2, <2>3, <2>4, <2>5, <2>6, <2>7 DEF Construct
<1>1. /\ smtp' \in [Senders -> Sender \cup {Nil}] /\ smtp'[s] = new
      /\ \A r \in Senders \ {s} : smtp'[r] = smtp[r]
      /\ step' \in [Managers -> Steps \cup {Nil}] /\ step'[m] = at
      /\ template' \in [Managers -> Template \cup {Nil}] /\ template'[m] = t
      /\ \A n \in Managers \ {m} : step'[n] = step[n] /\ template'[n] = template[n]
  BY <1>a, <1>h, <1>x
<1>2. TypeOK'
  BY <1>a, <1>1 DEF TypeOK
<1>3. StepsMakeSense'
  <2> SUFFICES ASSUME NEW n \in Managers
               PROVE  /\ step'[n] # Nil <=> config[n] # Nil
                      /\ step'[n] \in {"storeSubject", "storeBody"} => template'[n] # Nil
                      /\ step'[n] # Nil /\ SenderOf(n) = Nil => step'[n] = "built"
                      /\ step'[n] \in Steps \ AfterBody => SetsTemplates(SettingsOf(n))
                      /\ step'[n] = "from" => SettingsOf(n).from # Nil
    BY <1>a DEF StepsMakeSense, Begun, Built, SenderOf, SettingsOf
  <2>1. CASE n = m
    BY <1>a, <1>x, <1>1, <2>1
  <2>2. CASE n # m
    BY <1>1, <2>2 DEF StepsMakeSense, Begun, Built
  <2> QED
    BY <2>1, <2>2
<1> QED
  BY <1>1, <1>2, <1>3

\* The settings a Config comes to have alone ask for what it asks for itself.
LEMMA EffectiveIs ==
  ASSUME TypeOK, NEW c \in Configs, NEW s \in Senders, made[s] # Nil
  PROVE  /\ Effective(c, s) \in AllSettings
         /\ SetsTemplates(settings[c]) => /\ Effective(c, s).subject = settings[c].subject
                                          /\ Effective(c, s).body = settings[c].body
         /\ ~SetsTemplates(settings[c]) => /\ Effective(c, s).subject = made[s].subject
                                           /\ Effective(c, s).body = made[s].body
         /\ settings[c].from # Nil => Effective(c, s).from = settings[c].from
         /\ settings[c].from = Nil => Effective(c, s).from = made[s].from
<1>1. settings[c] \in AllSettings /\ made[s] \in AllSettings
  BY DEF TypeOK
<1> QED
  BY <1>1 DEF Effective, AllSettings, SetsTemplates, NoTemplates

\* A Manager that is built has brought about what it has progressed to.
LEMMA BuiltIsAs ==
  ASSUME NEW m \in Managers, NEW t, Built(m), Progress(m, t)
  PROVE  IsAs(SenderOf(m), t)
BY DEF Progress, IsAs, Built, AfterSubject, AfterBody

LEMMA ConstructKeepsMails ==
  ASSUME MailInv, NEW m \in Managers, Construct(m)
  PROVE  MailInv'
<1> USE NilIsNoObject
<1> DEFINE s == SenderOf(m)
<1>i. TypeOK /\ StepsMakeSense /\ MissedSoFar
  BY DEF MailInv
<1>a. /\ step[m] \in Steps \ {"built"} /\ s \in Senders /\ config[m] \in Configs /\ Begun(m)
      /\ SettingsOf(m) \in AllSettings /\ smtp[s] \in Sender
      /\ UNCHANGED <<config, sender, settings, made, readable, mail, missed, latest>>
  BY <1>i, AtItsSender
<1>f. /\ TypeOK' /\ StepsMakeSense' /\ step'[m] \in Steps
      /\ \A r \in Senders \ {s} : smtp'[r] = smtp[r]
      /\ \A n \in Managers \ {m} : step'[n] = step[n] /\ template'[n] = template[n]
  BY <1>i, MoveFrame
<1>u. /\ \A n \in Managers : SenderOf(n)' = SenderOf(n) /\ SettingsOf(n)' = SettingsOf(n)
      /\ \A n \in Managers : Begun(n)' <=> Begun(n)
      /\ \A x, y : Fits(x, y)' <=> Fits(x, y)
      /\ \A c, r : Alone(c, r)' <=> Alone(c, r)
      /\ \A c, r : Effective(c, r)' = Effective(c, r)
  <2>1. \A n \in Managers : step'[n] = Nil <=> step[n] = Nil
    BY <1>a, <1>f
  <2>2. \A c, r : Alone(c, r)' <=> Alone(c, r)
    BY <1>a, <2>1 DEF Alone, SenderOf
  <2>3. \A c, r : Effective(c, r)' = Effective(c, r)
    BY <1>a DEF Effective
  <2> QED
    BY <1>a, <2>1, <2>2, <2>3 DEF SenderOf, SettingsOf, Begun, Fits
<1>1. MissedSoFar'
  BY <1>i, <1>a DEF MissedSoFar
<1>o. ASSUME NEW n \in Managers, SenderOf(n) # s, SenderOf(n) \in Senders, NEW t, Progress(n, t)
      PROVE  Progress(n, t)'
  <2>1. smtp'[SenderOf(n)] = smtp[SenderOf(n)] /\ step'[n] = step[n] /\ template'[n] = template[n]
    BY <1>f, <1>o
  <2> QED
    BY <1>o, <1>u, <2>1 DEF Progress, Built, OrDefault
<1>2. AsMade'
  <2>1. ASSUME NEW r \in Senders, smtp'[r] # Nil, Quiet(r)' PROVE IsAs(r, made[r])'
    <3>1. r # s /\ Quiet(r)
      BY <1>a, <1>u, <2>1 DEF Quiet
    <3>2. smtp'[r] = smtp[r]
      BY <1>f, <3>1
    <3> QED
      BY <1>a, <1>u, <2>1, <3>1, <3>2 DEF MailInv, AsMade, IsAs, OrDefault
  <2> QED
    BY <2>1 DEF AsMade
<1>3. OwnSender'
  <2> SUFFICES ASSUME NEW n \in Managers, Begun(n), SenderOf(n) # Nil, Alone(config[n], SenderOf(n))
               PROVE  Progress(n, Effective(config[n], SenderOf(n)))'
    BY <1>a, <1>u DEF OwnSender
  <2>1. SenderOf(n) \in Senders /\ Progress(n, Effective(config[n], SenderOf(n)))
    BY <1>i DEF MailInv, OwnSender, TypeOK, SenderOf, StepsMakeSense
  <2>2. CASE SenderOf(n) # s
    BY <1>a, <1>o, <1>u, <2>1, <2>2
  <2>3. CASE SenderOf(n) = s
    <3>1. config[n] = config[m]
      BY <1>a, <2>3 DEF Alone, Begun
    <3>2. made[s] # Nil
      BY <1>i, <1>a DEF TypeOK
    <3>3. PICK t \in AllSettings :
             /\ t = Effective(config[m], s)
             /\ SetsTemplates(SettingsOf(m)) => t.subject = SettingsOf(m).subject /\ t.body = SettingsOf(m).body
             /\ SettingsOf(m).from # Nil => t.from = SettingsOf(m).from
      BY <1>i, <1>a, <3>2, EffectiveIs DEF SettingsOf
    <3>4. Progress(m, t) /\ Progress(n, t)
      BY <1>a, <2>1, <2>3, <3>1, <3>3 DEF MailInv, OwnSender
    <3>5. Progress(n, t)'
      BY <1>i, <3>1, <3>3, <3>4, MoveMakesProgress
    <3>6. t = Effective(config[m], s)'
      BY <1>a, <1>u, <3>3
    <3> QED
      BY <1>a, <1>u, <2>3, <3>1, <3>5, <3>6
  <2> QED
    BY <2>2, <2>3
<1>w. ASSUME NEW n \in Managers, NEW r \in Senders, AtWork(n, r)' PROVE AtWork(n, r)
  BY <1>a, <1>f, <1>u, <1>w DEF AtWork
<1>4. LatestInForce'
  <2> SUFFICES ASSUME NEW r \in Senders, latest[r] # Nil, smtp'[r] # Nil
               PROVE  /\ \A k, n \in Managers : AtWork(k, r)' /\ AtWork(n, r)' => k = n
                      /\ ~Busy(r)' => IsAs(r, latest[r])'
                      /\ \A n \in Managers : AtWork(n, r)' =>
                            /\ SetsTemplates(SettingsOf(n)) =>
                                  /\ latest[r].subject = SettingsOf(n).subject
                                  /\ latest[r].body = SettingsOf(n).body
                            /\ SettingsOf(n).from # Nil => latest[r].from = SettingsOf(n).from
                            /\ Progress(n, latest[r])'
    BY <1>a, <1>u DEF LatestInForce
  <2>1. smtp[r] # Nil
    BY <1>a, <1>f
  <2>2. /\ \A k, n \in Managers : AtWork(k, r) /\ AtWork(n, r) => k = n
        /\ ~Busy(r) => IsAs(r, latest[r])
        /\ \A n \in Managers : AtWork(n, r) =>
              /\ SetsTemplates(SettingsOf(n)) =>
                    /\ latest[r].subject = SettingsOf(n).subject
                    /\ latest[r].body = SettingsOf(n).body
              /\ SettingsOf(n).from # Nil => latest[r].from = SettingsOf(n).from
              /\ Progress(n, latest[r])
    BY <2>1 DEF MailInv, LatestInForce
  <2>3. \A k, n \in Managers : AtWork(k, r)' /\ AtWork(n, r)' => k = n
    BY <1>w, <2>2
  <2>4. CASE r = s
    <3>1. AtWork(m, s)
      BY <1>a DEF AtWork
    <3>2. latest[s] \in AllSettings /\ Progress(m, latest[s])
      BY <1>i, <2>2, <2>4, <3>1 DEF TypeOK
    <3>3. Progress(m, latest[s])'
      <4>1. PICK t \in AllSettings : t = latest[s]
        BY <3>2
      <4>2. t = latest'[s]
        BY <1>a, <4>1
      <4>3. /\ Progress(m, t)
            /\ SetsTemplates(SettingsOf(m)) => t.subject = SettingsOf(m).subject /\ t.body = SettingsOf(m).body
            /\ SettingsOf(m).from # Nil => t.from = SettingsOf(m).from
        BY <2>2, <2>4, <3>1, <3>2, <4>1
      <4>4. Progress(m, t)'
        BY <1>i, <4>1, <4>3, MoveMakesProgress
      <4> QED
        BY <1>u, <4>2, <4>4
    <3>4. ~Busy(s)' => IsAs(s, latest[s])'
      <4>1. SUFFICES ASSUME ~Busy(s)' PROVE IsAs(s, latest[s])'
        OBVIOUS
      <4>2. step'[m] = "built"
        BY <1>a, <1>f, <1>u, <4>1 DEF Busy
      <4> QED
        BY <1>u, <3>3, <4>2 DEF Progress, IsAs, Built, AfterSubject, AfterBody
    <3>5. \A n \in Managers : AtWork(n, r)' => n = m
      BY <1>w, <2>2, <2>4, <3>1
    <3> QED
      BY <1>u, <2>2, <2>3, <2>4, <3>1, <3>3, <3>4, <3>5
  <2>5. CASE r # s
    <3>1. smtp'[r] = smtp[r]
      BY <1>f, <2>5
    <3>2. \A n \in Managers : SenderOf(n) = r => step'[n] = step[n]
      BY <1>f, <2>5
    <3>3. Busy(r)' <=> Busy(r)
      BY <1>u, <3>2 DEF Busy
    <3>4. IsAs(r, latest[r]) => IsAs(r, latest[r])'
      BY <1>a, <1>u, <3>1 DEF IsAs, OrDefault
    <3>5. ASSUME NEW n \in Managers, AtWork(n, r)'
          PROVE  Progress(n, latest[r])'
      <4>1. AtWork(n, r) /\ SenderOf(n) # s /\ Progress(n, latest[r]) /\ SenderOf(n) = r
        BY <1>w, <2>2, <2>5, <3>5 DEF AtWork
      <4>2. smtp'[SenderOf(n)] = smtp[SenderOf(n)] /\ step'[n] = step[n] /\ template'[n] = template[n]
        BY <1>f, <4>1
      <4> QED
        BY <1>a, <1>u, <4>1, <4>2 DEF Progress, Built, OrDefault
    <3> QED
      BY <1>w, <2>2, <2>3, <3>3, <3>4, <3>5
  <2> QED
    BY <2>4, <2>5
<1>5. MailMakesSense'
  <2> SUFFICES ASSUME mail # Nil
               PROVE  /\ Built(mail.by)' /\ SenderOf(mail.by) # Nil
                      /\ mail.steady => ~Busy(SenderOf(mail.by))'
    <3>1. mail \in Mail => mail.by \in Managers
      BY DEF Mail
    <3> QED
      BY <1>a, <1>i, <1>u, <3>1 DEF MailMakesSense, TypeOK
  <2>1. /\ mail.by \in Managers /\ Built(mail.by) /\ SenderOf(mail.by) # Nil
        /\ mail.steady => ~Busy(SenderOf(mail.by))
    BY <1>i DEF MailInv, MailMakesSense, TypeOK, Mail
  <2>2. Built(mail.by)'
    BY <1>a, <1>f, <2>1 DEF Built
  <2>3. ASSUME mail.steady PROVE ~Busy(SenderOf(mail.by))'
    BY <1>a, <1>f, <1>u, <2>1, <2>3 DEF Busy
  <2> QED
    BY <2>1, <2>2, <2>3
<1>6. MailFollowsConfig' /\ MailIsOfLatestConfig'
  <2>1. mail # Nil => mail.by \in Managers
    BY <1>i DEF TypeOK, Mail
  <2> QED
    BY <1>a, <1>u, <2>1 DEF MailInv, MailFollowsConfig, MailIsOfLatestConfig, MailFits, OrDefault
<1> QED
  BY <1>f, <1>1, <1>2, <1>3, <1>4, <1>5, <1>6 DEF MailInv

\* A sender that is made is nobody's yet.
LEMMA NewSenderKeepsMails ==
  ASSUME MailInv, NEW s \in Senders, NewSMTPEmailSender(s)
  PROVE  MailInv'
<1> USE NilIsNoObject
<1>i. TypeOK /\ StepsMakeSense /\ MissedSoFar
  BY DEF MailInv
<1>1. PICK set \in AllSettings :
         /\ made' = [made EXCEPT ![s] = set]
         /\ latest' = [latest EXCEPT ![s] = set]
         /\ smtp' = [smtp EXCEPT ![s] =
                       [subjectPath |-> set.subject, bodyPath |-> set.body,
                        subject |-> Loaded(set.subject), body |-> Loaded(set.body),
                        from |-> IF set.from = Nil THEN Default ELSE set.from]]
  BY SettingsAssumption DEF NewSMTPEmailSender
<1>2. smtp[s] = Nil /\ UNCHANGED <<config, step, template, sender, settings, readable, mail, missed>>
  BY DEF NewSMTPEmailSender
<1>f. /\ set.subject \in Path \cup {Nil} /\ set.body \in Path \cup {Nil} /\ set.from \in From \cup {Nil}
  BY SettingsFields
<1>l. /\ Loaded(set.subject) \in Template /\ Fits(Loaded(set.subject), set.subject)
      /\ Loaded(set.body) \in Template /\ Fits(Loaded(set.body), set.body)
  BY <1>i, <1>f, LoadedIsTemplate
<1>3. PICK new \in Sender : /\ smtp' = [smtp EXCEPT ![s] = new]
                            /\ Fits(new.subject, set.subject) /\ Fits(new.body, set.body)
                            /\ new.from = OrDefault(set.from)
  <2> DEFINE n == [subjectPath |-> set.subject, bodyPath |-> set.body,
                   subject |-> Loaded(set.subject), body |-> Loaded(set.body),
                   from |-> IF set.from = Nil THEN Default ELSE set.from]
  <2>1. n \in Sender
    BY <1>f, <1>l DEF Sender
  <2>2. n.subject = Loaded(set.subject) /\ n.body = Loaded(set.body) /\ n.from = OrDefault(set.from)
    BY DEF OrDefault
  <2>3. smtp' = [smtp EXCEPT ![s] = n]
    BY <1>1
  <2> HIDE DEF n
  <2> QED
    BY <1>l, <2>1, <2>2, <2>3
<1>4. /\ smtp' \in [Senders -> Sender \cup {Nil}] /\ smtp'[s] = new
      /\ made' \in [Senders -> AllSettings \cup {Nil}] /\ made'[s] = set
      /\ latest' \in [Senders -> AllSettings \cup {Nil}] /\ latest'[s] = set
      /\ \A r \in Senders \ {s} : smtp'[r] = smtp[r] /\ made'[r] = made[r] /\ latest'[r] = latest[r]
  BY <1>i, <1>1, <1>3 DEF TypeOK
<1>5. \A c \in Configs : sender[c] # s
  BY <1>i, <1>2 DEF TypeOK
<1>6. \A m \in Managers : Begun(m) => config[m] \in Configs /\ SenderOf(m) \in (Senders \cup {Nil}) \ {s}
  BY <1>i, <1>5 DEF StepsMakeSense, TypeOK, SenderOf
<1>u. /\ \A m \in Managers : SenderOf(m)' = SenderOf(m) /\ SettingsOf(m)' = SettingsOf(m)
      /\ \A m \in Managers : (Begun(m)' <=> Begun(m)) /\ (Built(m)' <=> Built(m))
      /\ \A x, y : Fits(x, y)' <=> Fits(x, y)
      /\ \A c, r : Alone(c, r)' <=> Alone(c, r)
      /\ \A r : Busy(r)' <=> Busy(r)
      /\ \A c \in Configs, r \in Senders \ {s} : Effective(c, r)' = Effective(c, r)
  BY <1>2, <1>4 DEF SenderOf, SettingsOf, Begun, Built, Fits, Alone, Busy, Effective
<1>7. TypeOK'
  BY <1>i, <1>2, <1>4, <1>5 DEF TypeOK
<1>8. StepsMakeSense' /\ MissedSoFar'
  BY <1>i, <1>2, <1>u DEF StepsMakeSense, MissedSoFar
<1>o. ASSUME NEW m \in Managers, SenderOf(m) \in Senders \ {s}, NEW t, Progress(m, t)
      PROVE  Progress(m, t)'
  <2>1. smtp'[SenderOf(m)] = smtp[SenderOf(m)]
    BY <1>4, <1>o
  <2> QED
    BY <1>2, <1>o, <1>u, <2>1 DEF Progress, OrDefault
<1>r. ASSUME NEW r \in Senders \ {s}, NEW t, IsAs(r, t)
      PROVE  IsAs(r, t)'
  BY <1>4, <1>u, <1>r DEF IsAs, OrDefault
<1>s. IsAs(s, set)'
  BY <1>3, <1>4, <1>u DEF IsAs, OrDefault
<1>9. AsMade'
  <2>1. ASSUME NEW r \in Senders, smtp'[r] # Nil, Quiet(r)' PROVE IsAs(r, made[r])'
    <3>1. CASE r = s
      BY <1>3, <1>4, <1>u, <3>1 DEF IsAs, OrDefault
    <3>2. CASE r # s
      <4>1. IsAs(r, made[r]) /\ smtp'[r] = smtp[r] /\ made'[r] = made[r]
        BY <1>4, <1>u, <2>1, <3>2 DEF MailInv, AsMade, Quiet
      <4> QED
        BY <1>u, <4>1 DEF IsAs, OrDefault
    <3> QED
      BY <3>1, <3>2
  <2> QED
    BY <2>1 DEF AsMade
<1>10. OwnSender'
  <2> SUFFICES ASSUME NEW n \in Managers, Begun(n), SenderOf(n) # Nil, Alone(config[n], SenderOf(n))
               PROVE  Progress(n, Effective(config[n], SenderOf(n)))'
    BY <1>2, <1>u DEF OwnSender
  <2>1. SenderOf(n) \in Senders \ {s} /\ Progress(n, Effective(config[n], SenderOf(n)))
    BY <1>6 DEF MailInv, OwnSender
  <2>2. Effective(config[n], SenderOf(n))' = Effective(config[n], SenderOf(n))
    BY <1>2, <1>6, <1>u, <2>1
  <2> QED
    BY <1>o, <2>1, <2>2
<1>11. LatestInForce'
  <2> SUFFICES ASSUME NEW r \in Senders, latest'[r] # Nil, smtp'[r] # Nil
               PROVE  /\ \A k, n \in Managers : AtWork(k, r) /\ AtWork(n, r) => k = n
                      /\ ~Busy(r) => IsAs(r, latest[r])'
                      /\ \A n \in Managers : AtWork(n, r) =>
                            /\ SetsTemplates(SettingsOf(n)) =>
                                  /\ latest'[r].subject = SettingsOf(n).subject
                                  /\ latest'[r].body = SettingsOf(n).body
                            /\ SettingsOf(n).from # Nil => latest'[r].from = SettingsOf(n).from
                            /\ Progress(n, latest[r])'
    BY <1>2, <1>u DEF LatestInForce, AtWork
  <2>1. CASE r = s
    <3>1. \A n \in Managers : ~AtWork(n, s)
      BY <1>6 DEF AtWork, Begun, Steps
    <3>2. IsAs(r, latest[r])'
      BY <1>3, <1>4, <1>u, <2>1 DEF IsAs, OrDefault
    <3> QED
      BY <2>1, <3>1, <3>2
  <2>2. CASE r # s
    <3>1. latest'[r] = latest[r] /\ smtp'[r] = smtp[r] /\ r \in Senders \ {s}
      BY <1>4, <2>2
    <3>2. /\ \A k, n \in Managers : AtWork(k, r) /\ AtWork(n, r) => k = n
          /\ ~Busy(r) => IsAs(r, latest[r])
          /\ \A n \in Managers : AtWork(n, r) =>
                /\ SetsTemplates(SettingsOf(n)) =>
                      /\ latest[r].subject = SettingsOf(n).subject
                      /\ latest[r].body = SettingsOf(n).body
                /\ SettingsOf(n).from # Nil => latest[r].from = SettingsOf(n).from
                /\ Progress(n, latest[r])
      BY <3>1 DEF MailInv, LatestInForce
    <3>3. ASSUME NEW n \in Managers, AtWork(n, r) PROVE Progress(n, latest[r])'
      BY <1>o, <3>1, <3>2, <3>3 DEF AtWork
    <3>4. IsAs(r, latest[r]) => IsAs(r, latest[r])'
      BY <1>u, <3>1 DEF IsAs, OrDefault
    <3> QED
      BY <3>1, <3>2, <3>3, <3>4
  <2> QED
    BY <2>1, <2>2
<1>m. mail # Nil => mail.by \in Managers /\ Begun(mail.by) /\ SenderOf(mail.by) \in Senders \ {s}
  <2>1. mail # Nil => mail \in Mail
    BY <1>i DEF TypeOK
  <2>2. mail # Nil => mail.by \in Managers
    BY <2>1 DEF Mail
  <2>3. mail # Nil => step[mail.by] = "built" /\ SenderOf(mail.by) # Nil
    BY DEF MailInv, MailMakesSense, Built
  <2>4. Nil # "built"
    BY DEF Steps
  <2> QED
    BY <1>6, <2>2, <2>3, <2>4 DEF Begun
<1>12. MailMakesSense'
  BY <1>2, <1>m, <1>u DEF MailInv, MailMakesSense
<1>13. MailFollowsConfig'
  <2>1. mail # Nil => Effective(config[mail.by], SenderOf(mail.by))' = Effective(config[mail.by], SenderOf(mail.by))
    BY <1>2, <1>6, <1>m, <1>u
  <2> QED
    BY <1>2, <1>m, <1>u, <2>1 DEF MailInv, MailFollowsConfig, MailFits, OrDefault
<1>14. MailIsOfLatestConfig'
  <2>1. mail # Nil => latest'[SenderOf(mail.by)] = latest[SenderOf(mail.by)]
    BY <1>4, <1>m
  <2> QED
    BY <1>2, <1>m, <1>u, <2>1 DEF MailInv, MailIsOfLatestConfig, MailFits, OrDefault
<1> QED
  BY <1>7, <1>8, <1>9, <1>10, <1>11, <1>12, <1>13, <1>14 DEF MailInv

\* A Config that is filled in has no Manager yet.
LEMMA ConfigureKeepsMails ==
  ASSUME MailInv, NEW c \in Configs, Configure(c)
  PROVE  MailInv'
<1> USE NilIsNoObject
<1>i. TypeOK /\ StepsMakeSense /\ MissedSoFar
  BY DEF MailInv
<1>1. PICK s \in Senders, set \in AllSettings : /\ smtp[s] # Nil
                                                /\ sender' = [sender EXCEPT ![c] = s]
                                                /\ settings' = [settings EXCEPT ![c] = set]
  BY SettingsAssumption DEF Configure
<1>2. /\ UNCHANGED <<config, step, template, made, smtp, readable, mail, missed, latest>>
      /\ \A m \in Managers : config[m] # c
  BY DEF Configure
<1>3. /\ \A d \in Configs \ {c} : sender'[d] = sender[d] /\ settings'[d] = settings[d]
      /\ sender'[c] = s
      /\ sender' \in [Configs -> Senders \cup {Nil}] /\ settings' \in [Configs -> AllSettings]
  BY <1>i, <1>1 DEF TypeOK
<1>4. \A m \in Managers : Begun(m) => config[m] \in Configs \ {c}
  BY <1>i, <1>2 DEF TypeOK, StepsMakeSense
<1>5. \A m \in Managers : Begun(m) => SenderOf(m)' = SenderOf(m) /\ SettingsOf(m)' = SettingsOf(m)
  BY <1>2, <1>3, <1>4 DEF SenderOf, SettingsOf
<1>u. /\ \A m \in Managers : (Begun(m)' <=> Begun(m)) /\ (Built(m)' <=> Built(m))
      /\ \A x, y : Fits(x, y)' <=> Fits(x, y)
      /\ \A d \in Configs \ {c} : \A r : Effective(d, r)' = Effective(d, r)
  BY <1>2, <1>3 DEF Begun, Built, Fits, Effective
<1>b. \A m \in Managers : step[m] \in Steps => Begun(m)
  BY DEF Begun
<1>v. /\ \A d, r : Alone(d, r)' <=> Alone(d, r)
      /\ \A r : Busy(r)' <=> Busy(r)
      /\ \A m \in Managers : \A r : AtWork(m, r)' <=> AtWork(m, r)
      /\ \A r : Quiet(r)' <=> Quiet(r)
  BY <1>2, <1>5, <1>b, <1>u DEF Alone, Busy, AtWork, Quiet, Begun
<1>o. ASSUME NEW m \in Managers, Begun(m), NEW t, Progress(m, t)
      PROVE  Progress(m, t)'
  BY <1>2, <1>5, <1>o, <1>u DEF Progress, OrDefault
<1>6. TypeOK'
  BY <1>i, <1>1, <1>2, <1>3 DEF TypeOK
<1>7. StepsMakeSense'
  <2> SUFFICES ASSUME NEW m \in Managers
               PROVE  /\ Begun(m)' <=> config'[m] # Nil
                      /\ step'[m] \in {"storeSubject", "storeBody"} => template'[m] # Nil
                      /\ Begun(m)' /\ SenderOf(m)' = Nil => Built(m)'
                      /\ step'[m] \in Steps \ AfterBody => SetsTemplates(SettingsOf(m))'
                      /\ step'[m] = "from" => SettingsOf(m)'.from # Nil
    BY DEF StepsMakeSense
  <2>1. "from" \in Steps
    BY DEF Steps
  <2> QED
    BY <1>i, <1>2, <1>5, <1>b, <1>u, <2>1 DEF StepsMakeSense, SetsTemplates
<1>8. MissedSoFar' /\ AsMade'
  BY <1>2, <1>u, <1>v DEF MailInv, MissedSoFar, AsMade, IsAs, OrDefault
<1>9. OwnSender'
  <2> SUFFICES ASSUME NEW n \in Managers, Begun(n), SenderOf(n) # Nil, Alone(config[n], SenderOf(n))
               PROVE  Progress(n, Effective(config[n], SenderOf(n)))'
    BY <1>2, <1>5, <1>u, <1>v DEF OwnSender
  <2>1. Progress(n, Effective(config[n], SenderOf(n)))
    BY DEF MailInv, OwnSender
  <2>2. Effective(config[n], SenderOf(n))' = Effective(config[n], SenderOf(n))
    BY <1>2, <1>4, <1>5, <1>u
  <2> QED
    BY <1>o, <2>1, <2>2
<1>10. LatestInForce'
  <2>1. \A n \in Managers : \A r : AtWork(n, r) => Begun(n)
    BY <1>b DEF AtWork
  <2>2. ASSUME NEW n \in Managers, NEW r \in Senders, AtWork(n, r), Progress(n, latest[r])
        PROVE  Progress(n, latest[r])'
    BY <1>2, <1>o, <2>1, <2>2
  <2>3. \A r \in Senders : IsAs(r, latest[r]) => IsAs(r, latest[r])'
    BY <1>2, <1>u DEF IsAs, OrDefault
  <2> QED
    BY <1>2, <1>5, <1>v, <2>1, <2>2, <2>3 DEF MailInv, LatestInForce, SetsTemplates
<1>m. mail # Nil => mail.by \in Managers /\ Begun(mail.by) /\ config[mail.by] \in Configs \ {c}
  <2>1. mail # Nil => mail \in Mail
    BY <1>i DEF TypeOK
  <2>2. mail # Nil => mail.by \in Managers
    BY <2>1 DEF Mail
  <2>3. "built" \in Steps
    BY DEF Steps
  <2>4. mail # Nil => step[mail.by] = "built"
    BY DEF MailInv, MailMakesSense, Built
  <2> QED
    BY <1>4, <1>b, <2>2, <2>3, <2>4
<1>11. MailMakesSense'
  BY <1>2, <1>5, <1>m, <1>u, <1>v DEF MailInv, MailMakesSense
<1>12. MailFollowsConfig'
  <2>1. mail # Nil => Effective(config[mail.by], SenderOf(mail.by))' = Effective(config[mail.by], SenderOf(mail.by))
    BY <1>2, <1>5, <1>m, <1>u
  <2> QED
    BY <1>2, <1>5, <1>m, <1>u, <1>v, <2>1 DEF MailInv, MailFollowsConfig, MailFits, OrDefault
<1>13. MailIsOfLatestConfig'
  BY <1>2, <1>5, <1>m, <1>u DEF MailInv, MailIsOfLatestConfig, MailFits, OrDefault
<1> QED
  BY <1>6, <1>7, <1>8, <1>9, <1>10, <1>11, <1>12, <1>13 DEF MailInv

\* Files come and go: what fitted fits, as missed only grows.
LEMMA ChangeFileKeepsMails ==
  ASSUME MailInv, NEW p \in Path, ChangeFile(p)
  PROVE  MailInv'
<1>1. /\ UNCHANGED <<config, step, template, sender, settings, made, smtp, mail, latest>>
      /\ missed' = missed \cup (Path \ readable')
      /\ readable' \subseteq Path
  BY DEF ChangeFile, MailInv, TypeOK
<1>u. /\ \A m : SenderOf(m)' = SenderOf(m) /\ SettingsOf(m)' = SettingsOf(m)
      /\ \A m : (Begun(m)' <=> Begun(m)) /\ (Built(m)' <=> Built(m))
      /\ \A x, y : Fits(x, y) => Fits(x, y)'
      /\ \A c, r : Alone(c, r)' <=> Alone(c, r)
      /\ \A r : (Busy(r)' <=> Busy(r)) /\ (Quiet(r)' <=> Quiet(r))
      /\ \A m, r : AtWork(m, r)' <=> AtWork(m, r)
      /\ \A c, r : Effective(c, r)' = Effective(c, r)
  BY <1>1 DEF SenderOf, SettingsOf, Begun, Built, Fits, Alone, Busy, Quiet, AtWork, Effective
<1>o. \A m, t : Progress(m, t) => Progress(m, t)'
  BY <1>1, <1>u DEF Progress, OrDefault
<1>r. \A s, t : IsAs(s, t) => IsAs(s, t)'
  BY <1>1, <1>u DEF IsAs, OrDefault
<1>2. TypeOK' /\ MissedSoFar' /\ StepsMakeSense'
  BY <1>1, <1>u DEF MailInv, TypeOK, MissedSoFar, StepsMakeSense
<1>3. AsMade' /\ OwnSender'
  BY <1>1, <1>o, <1>r, <1>u DEF MailInv, AsMade, OwnSender
<1>4. LatestInForce'
  BY <1>1, <1>o, <1>r, <1>u DEF MailInv, LatestInForce
<1>5. MailMakesSense'
  BY <1>1, <1>u DEF MailInv, MailMakesSense
<1>6. MailFollowsConfig' /\ MailIsOfLatestConfig'
  BY <1>1, <1>u DEF MailInv, MailFollowsConfig, MailIsOfLatestConfig, MailFits, OrDefault
<1> QED
  BY <1>2, <1>3, <1>4, <1>5, <1>6 DEF MailInv

\* What a mail reads of a sender that is as t asks is as t asks.
LEMMA ReadingKeepsMails ==
  ASSUME MailInv, (\E m \in Managers : SendInvitation(m)) \/ ReadOn
  PROVE  MailInv'
<1> USE NilIsNoObject
<1>i. TypeOK /\ StepsMakeSense /\ MissedSoFar
  BY DEF MailInv
<1>1. UNCHANGED <<config, step, template, sender, settings, made, smtp, readable, missed, latest>>
  BY DEF SendInvitation, ReadOn
<1>u. /\ \A m : SenderOf(m)' = SenderOf(m) /\ SettingsOf(m)' = SettingsOf(m)
      /\ \A m : (Begun(m)' <=> Begun(m)) /\ (Built(m)' <=> Built(m))
      /\ \A x, y : Fits(x, y)' <=> Fits(x, y)
      /\ \A c, r : Alone(c, r)' <=> Alone(c, r)
      /\ \A r : (Busy(r)' <=> Busy(r)) /\ (Quiet(r)' <=> Quiet(r))
      /\ \A m, r : AtWork(m, r)' <=> AtWork(m, r)
      /\ \A c, r : Effective(c, r)' = Effective(c, r)
  BY <1>1 DEF SenderOf, SettingsOf, Begun, Built, Fits, Alone, Busy, Quiet, AtWork, Effective
<1>o. \A m, t : Progress(m, t) => Progress(m, t)'
  BY <1>1, <1>u DEF Progress, OrDefault
<1>r. \A s, t : IsAs(s, t) => IsAs(s, t)'
  BY <1>1, <1>u DEF IsAs, OrDefault
<1>b. \A m \in Managers : Built(m) => config[m] \in Configs
  <2>1. "built" \in Steps
    BY DEF Steps
  <2> QED
    BY <1>i, <2>1 DEF StepsMakeSense, Begun, TypeOK, Built
<1>2. PICK m \in Managers, s \in Senders :
         /\ Built(m) /\ SenderOf(m) = s
         /\ mail' \in Mail /\ mail'.by = m
         /\ mail'.steady => ~Busy(s)
         /\ ReadOn => mail # Nil /\ mail.by = m /\ mail'.steady = mail.steady
         /\ \A t : IsAs(s, t) /\ (ReadOn => MailFits(t)) => MailFits(t)'
  <2>1. CASE ReadOn
    <3>m. mail \in Mail /\ mail # Nil
      BY <1>i, <2>1 DEF ReadOn, TypeOK
    <3>1. /\ mail.by \in Managers /\ Built(mail.by) /\ SenderOf(mail.by) # Nil
          /\ mail.steady => ~Busy(SenderOf(mail.by))
      BY <3>m DEF MailInv, MailMakesSense, Mail
    <3>2. PICK m \in Managers, s \in Senders : m = mail.by /\ s = SenderOf(m) /\ smtp[s] \in Sender
      BY <1>b, <1>i, <3>1 DEF TypeOK, SenderOf
    <3>3. /\ smtp[s].body \in Template /\ smtp[s].from \in From \cup {Default}
      BY <3>2, SenderFields
    <3>4. \/ mail.body = Nil /\ mail' = [mail EXCEPT !.body = smtp[s].body]
          \/ mail.header = Nil /\ mail' = [mail EXCEPT !.header = smtp[s].from]
          \/ mail.envelope = Nil /\ mail' = [mail EXCEPT !.envelope = smtp[s].from]
      BY <2>1, <3>2 DEF ReadOn
    <3>5. /\ mail' \in Mail /\ mail'.by = mail.by /\ mail'.steady = mail.steady
          /\ mail'.subject = mail.subject
          /\ mail'.body = mail.body \/ mail'.body = smtp[s].body
          /\ mail'.header = mail.header \/ mail'.header = smtp[s].from
          /\ mail'.envelope = mail.envelope \/ mail'.envelope = smtp[s].from
      BY <3>m, <3>3, <3>4 DEF Mail
    <3>6. ASSUME NEW t, IsAs(s, t), MailFits(t) PROVE MailFits(t)'
      BY <1>u, <3>5, <3>6 DEF MailFits, IsAs, OrDefault
    <3> QED
      BY <2>1, <3>1, <3>2, <3>5, <3>6, <3>m
  <2>2. ASSUME NEW m \in Managers, SendInvitation(m), ~ReadOn
        PROVE  /\ SenderOf(m) \in Senders /\ Built(m)
               /\ mail' \in Mail /\ mail'.by = m
               /\ mail'.steady => ~Busy(SenderOf(m))
               /\ \A t : IsAs(SenderOf(m), t) => MailFits(t)'
    <3>1. Built(m) /\ SenderOf(m) \in Senders /\ smtp[SenderOf(m)] \in Sender
      BY <1>b, <1>i, <2>2 DEF SendInvitation, TypeOK, SenderOf
    <3>2. PICK s \in Senders, steady \in BOOLEAN :
             s = SenderOf(m) /\ (steady <=> ~Busy(s)) /\ smtp[s] \in Sender
      BY <3>1
    <3>3. mail' = [by |-> m, steady |-> ~Busy(SenderOf(m)), subject |-> smtp[SenderOf(m)].subject,
                   body |-> Nil, header |-> Nil, envelope |-> Nil]
      BY <2>2 DEF SendInvitation
    <3>4. mail' = [by |-> m, steady |-> steady, subject |-> smtp[s].subject,
                   body |-> Nil, header |-> Nil, envelope |-> Nil]
      BY <3>2, <3>3
    <3>5. smtp[s].subject \in Template
      BY <3>2, SenderFields
    <3>6. /\ mail' \in Mail /\ mail'.by = m /\ mail'.steady = steady /\ mail'.subject = smtp[s].subject
          /\ mail'.body = Nil /\ mail'.header = Nil /\ mail'.envelope = Nil
      BY <3>4, <3>5 DEF Mail
    <3>7. \A t : IsAs(s, t) => MailFits(t)'
      BY <1>u, <3>6 DEF MailFits, IsAs
    <3> QED
      BY <3>1, <3>2, <3>6, <3>7
  <2> QED
    BY <2>1, <2>2
<1>3. TypeOK' /\ MissedSoFar' /\ StepsMakeSense'
  BY <1>i, <1>1, <1>2, <1>u DEF TypeOK, MissedSoFar, StepsMakeSense
<1>4. AsMade' /\ OwnSender'
  BY <1>1, <1>o, <1>r, <1>u DEF MailInv, AsMade, OwnSender
<1>5. LatestInForce'
  BY <1>1, <1>o, <1>r, <1>u DEF MailInv, LatestInForce
<1>6. MailMakesSense'
  BY <1>2, <1>u DEF MailMakesSense
<1>7. MailFollowsConfig'
  <2> SUFFICES ASSUME Alone(config[m], s) PROVE MailFits(Effective(config[m], s))'
    BY <1>1, <1>2, <1>u DEF MailFollowsConfig
  <2>1. PICK t : t = Effective(config[m], s)
    OBVIOUS
  <2>2. Begun(m)
    BY <1>2 DEF Built, Begun, Steps
  <2>3. IsAs(s, t)
    BY <1>2, <2>1, <2>2, BuiltIsAs DEF MailInv, OwnSender
  <2>4. ReadOn => MailFits(t)
    BY <1>2, <2>1 DEF MailInv, MailFollowsConfig
  <2>5. MailFits(t)'
    BY <1>2, <2>3, <2>4
  <2>6. t = Effective(config[m], s)'
    BY <1>1, <1>u, <2>1
  <2> QED
    BY <2>5, <2>6
<1>8. MailIsOfLatestConfig'
  <2> SUFFICES ASSUME mail'.steady, latest[s] # Nil PROVE MailFits(latest[s])'
    BY <1>1, <1>2, <1>u DEF MailIsOfLatestConfig
  <2>1. PICK t : t = latest[s]
    OBVIOUS
  <2>2. smtp[s] # Nil
    BY <1>b, <1>i, <1>2 DEF TypeOK, SenderOf
  <2>3. IsAs(s, t)
    BY <1>2, <2>1, <2>2 DEF MailInv, LatestInForce
  <2>4. ReadOn => MailFits(t)
    BY <1>2, <2>1 DEF MailInv, MailIsOfLatestConfig
  <2>5. MailFits(t)'
    BY <1>2, <2>3, <2>4
  <2>6. t = latest'[s]
    BY <1>1, <2>1
  <2> QED
    BY <2>5, <2>6
<1> QED
  BY <1>3, <1>4, <1>5, <1>6, <1>7, <1>8 DEF MailInv

LEMMA CombinedIs ==
  ASSUME NEW old \in AllSettings \cup {Nil}, NEW set \in AllSettings, Combined(old, set) # Nil
  PROVE  /\ Combined(old, set) \in AllSettings
         /\ SetsTemplates(set) => /\ Combined(old, set).subject = set.subject
                                  /\ Combined(old, set).body = set.body
         /\ ~SetsTemplates(set) => /\ old # Nil
                                   /\ Combined(old, set).subject = old.subject
                                   /\ Combined(old, set).body = old.body
         /\ set.from # Nil => Combined(old, set).from = set.from
         /\ set.from = Nil => old # Nil /\ Combined(old, set).from = old.from
BY DEF Combined, AllSettings, SetsTemplates, NoTemplates

\* A constructor comes to a sender: what it does not set is there already.
LEMMA NewManagerKeepsMails ==
  ASSUME MailInv, NEW m \in Managers, NewManager(m)
  PROVE  MailInv'
<1> USE NilIsNoObject
<1>i. TypeOK /\ StepsMakeSense /\ MissedSoFar
  BY DEF MailInv
<1>1. PICK c \in Configs :
         /\ config' = [config EXCEPT ![m] = c]
         /\ \/ /\ sender[c] # Nil
               /\ step' = [step EXCEPT ![m] = FirstStep(settings[c])]
               /\ \/ FirstStep(settings[c]) # "built" /\ Arrive(sender[c], settings[c])
                  \/ FirstStep(settings[c]) = "built" /\ UNCHANGED <<latest, mail>>
            \/ /\ sender[c] = Nil
               /\ step' = [step EXCEPT ![m] = "built"]
               /\ UNCHANGED <<latest, mail>>
  BY DEF NewManager
<1>2. /\ UNCHANGED <<template, sender, settings, made, smtp, readable, missed>>
      /\ step[m] = Nil /\ ~Begun(m)
  BY DEF NewManager, Begun
<1>s. settings[c] \in AllSettings /\ sender[c] \in Senders \cup {Nil}
  BY <1>i DEF TypeOK
<1>f. /\ FirstStep(settings[c]) \in {"subjectPath", "from", "built"}
      /\ FirstStep(settings[c]) = "subjectPath" <=> SetsTemplates(settings[c])
      /\ FirstStep(settings[c]) = "from" => settings[c].from # Nil
      /\ FirstStep(settings[c]) = "built" => settings[c].from = Nil
  BY DEF FirstStep, FromOrBuilt
<1>x. PICK at \in {"subjectPath", "from", "built"} :
         /\ step' = [step EXCEPT ![m] = at]
         /\ sender[c] # Nil => at = FirstStep(settings[c])
         /\ sender[c] = Nil => at = "built"
         /\ \/ at = "built" /\ UNCHANGED <<latest, mail>>
            \/ at # "built" /\ sender[c] # Nil /\ Arrive(sender[c], settings[c])
  BY <1>1, <1>f
<1>3. /\ config' \in [Managers -> Configs \cup {Nil}] /\ config'[m] = c
      /\ step' \in [Managers -> Steps \cup {Nil}] /\ step'[m] = at
      /\ \A n \in Managers \ {m} : config'[n] = config[n] /\ step'[n] = step[n]
  BY <1>i, <1>1, <1>x DEF TypeOK, Steps
<1>4. /\ SenderOf(m)' = sender[c] /\ SettingsOf(m)' = settings[c]
      /\ \A n \in Managers \ {m} : SenderOf(n)' = SenderOf(n) /\ SettingsOf(n)' = SettingsOf(n)
  BY <1>2, <1>3 DEF SenderOf, SettingsOf
<1>b. /\ Begun(m)' /\ \A n \in Managers \ {m} : (Begun(n)' <=> Begun(n)) /\ (Built(n)' <=> Built(n))
  BY <1>3 DEF Begun, Built, Steps
<1>u. /\ \A x, y : Fits(x, y)' <=> Fits(x, y)
      /\ \A d, r : Effective(d, r)' = Effective(d, r)
      /\ \A d, r : Alone(d, r)' => Alone(d, r)
      /\ \A r : Quiet(r)' => Quiet(r)
  <2>1. \A x, y : Fits(x, y)' <=> Fits(x, y)
    BY <1>2 DEF Fits
  <2>2. \A d, r : Effective(d, r)' = Effective(d, r)
    BY <1>2 DEF Effective
  <2>3. \A d, r : Alone(d, r)' => Alone(d, r)
    BY <1>2, <1>3, <1>4 DEF Alone
  <2>4. \A r : Quiet(r)' => Quiet(r)
    BY <1>2, <1>4, <1>b DEF Quiet
  <2> QED
    BY <2>1, <2>2, <2>3, <2>4
<1>o. ASSUME NEW n \in Managers \ {m}, NEW t, Progress(n, t)
      PROVE  Progress(n, t)'
  BY <1>2, <1>3, <1>4, <1>b, <1>u, <1>o DEF Progress, OrDefault
<1>r. \A s, t : IsAs(s, t) <=> IsAs(s, t)'
  BY <1>2, <1>u DEF IsAs, OrDefault
\* What is in effect already brings m where it begins.
<1>n. ASSUME NEW t, sender[c] # Nil,
             ~SetsTemplates(settings[c]) => /\ Fits(smtp[sender[c]].subject, t.subject)
                                            /\ Fits(smtp[sender[c]].body, t.body),
             settings[c].from = Nil => smtp[sender[c]].from = OrDefault(t.from)
      PROVE  Progress(m, t)'
  BY <1>2, <1>3, <1>4, <1>f, <1>n, <1>u, <1>x
     DEF Progress, OrDefault, Built, AfterSubjectPath, AfterBodyPath, AfterSubject, AfterBody, Steps
<1>m. mail # Nil => /\ mail \in Mail /\ mail.by \in Managers \ {m}
                    /\ Built(mail.by) /\ SenderOf(mail.by) # Nil
                    /\ mail.steady => ~Busy(SenderOf(mail.by))
  <2>1. mail # Nil => mail \in Mail /\ mail.by \in Managers
    BY <1>i DEF TypeOK, Mail
  <2>2. mail # Nil => Built(mail.by)
    BY DEF MailInv, MailMakesSense
  <2>3. ~Built(m)
    BY <1>2 DEF Built, Steps
  <2> QED
    BY <2>1, <2>2, <2>3 DEF MailInv, MailMakesSense
\* The histories: at the sender that m comes to, and elsewhere.
<1>a. /\ latest' \in [Senders -> AllSettings \cup {Nil}]
      /\ mail' # Nil <=> mail # Nil
      /\ mail # Nil => /\ mail' \in Mail /\ mail'.by = mail.by
                       /\ mail'.subject = mail.subject /\ mail'.body = mail.body
                       /\ mail'.header = mail.header /\ mail'.envelope = mail.envelope
                       /\ mail'.steady => mail.steady /\ (at = "built" \/ SenderOf(mail.by) # sender[c])
      /\ \A r \in Senders : at = "built" \/ r # sender[c] => latest'[r] = latest[r]
      /\ at # "built" /\ latest'[sender[c]] # Nil =>
            ~Busy(sender[c]) /\ latest'[sender[c]] = Combined(latest[sender[c]], settings[c])
  <2>1. CASE at = "built"
    BY <1>i, <1>m, <1>x, <2>1 DEF TypeOK
  <2>2. CASE at # "built"
    <3>1. PICK s \in Senders : s = sender[c]
      BY <1>s, <1>x, <2>2
    <3>2. /\ latest' = [latest EXCEPT ![s] = IF Busy(s) THEN Nil ELSE Combined(@, settings[c])]
          /\ mail' = IF mail # Nil /\ SenderOf(mail.by) = s THEN [mail EXCEPT !.steady = FALSE] ELSE mail
      BY <1>x, <2>2, <3>1 DEF Arrive
    <3>3. latest \in [Senders -> AllSettings \cup {Nil}]
      BY <1>i DEF TypeOK
    <3>4. Combined(latest[s], settings[c]) \in AllSettings \cup {Nil}
      BY <1>s, <3>3, CombinedIs
    <3>5. latest' \in [Senders -> AllSettings \cup {Nil}] /\ \A r \in Senders \ {s} : latest'[r] = latest[r]
      BY <3>2, <3>3, <3>4
    <3>6. latest'[s] # Nil => ~Busy(s) /\ latest'[s] = Combined(latest[s], settings[c])
      BY <3>2, <3>3
    <3>7. mail # Nil =>
             /\ mail' \in Mail /\ mail'.by = mail.by
             /\ mail'.subject = mail.subject /\ mail'.body = mail.body
             /\ mail'.header = mail.header /\ mail'.envelope = mail.envelope
             /\ mail'.steady => mail.steady /\ SenderOf(mail.by) # s
      BY <1>m, <3>2 DEF Mail
    <3>8. mail' # Nil <=> mail # Nil
      BY <3>2, <3>7 DEF Mail
    <3> QED
      BY <2>2, <3>1, <3>5, <3>6, <3>7, <3>8
  <2> QED
    BY <2>1, <2>2
<1>5. TypeOK'
  BY <1>i, <1>2, <1>3, <1>a DEF TypeOK
<1>6. StepsMakeSense' /\ MissedSoFar'
  <2> SUFFICES ASSUME NEW n \in Managers
               PROVE  /\ Begun(n)' <=> config'[n] # Nil
                      /\ step'[n] \in {"storeSubject", "storeBody"} => template'[n] # Nil
                      /\ Begun(n)' /\ SenderOf(n)' = Nil => Built(n)'
                      /\ step'[n] \in Steps \ AfterBody => SetsTemplates(SettingsOf(n))'
                      /\ step'[n] = "from" => SettingsOf(n)'.from # Nil
    BY <1>i, <1>2 DEF StepsMakeSense, MissedSoFar
  <2>1. CASE n = m
    BY <1>2, <1>3, <1>4, <1>b, <1>f, <1>x, <2>1 DEF Built, AfterBody, SetsTemplates
  <2>2. CASE n # m
    BY <1>i, <1>2, <1>3, <1>4, <1>b, <2>2 DEF StepsMakeSense, SetsTemplates
  <2> QED
    BY <2>1, <2>2
<1>7. AsMade'
  BY <1>2, <1>r, <1>u DEF MailInv, AsMade
<1>8. OwnSender'
  <2> SUFFICES ASSUME NEW n \in Managers, Begun(n)', SenderOf(n)' # Nil, Alone(config[n], SenderOf(n))'
               PROVE  Progress(n, Effective(config[n], SenderOf(n)))'
    BY DEF OwnSender
  <2>1. CASE n # m
    <3>1. Alone(config[n], SenderOf(n))
      BY <1>3, <1>4, <1>u, <2>1
    <3>2. PICK t : t = Effective(config[n], SenderOf(n))
      OBVIOUS
    <3>3. Progress(n, t)'
      BY <1>4, <1>b, <1>o, <2>1, <3>1, <3>2 DEF MailInv, OwnSender
    <3>4. t = Effective(config[n], SenderOf(n))'
      BY <1>3, <1>4, <1>u, <2>1, <3>2
    <3> QED
      BY <3>3, <3>4
  <2>2. CASE n = m
    <3>1. PICK s \in Senders : s = sender[c]
      BY <1>4, <1>s, <2>2
    <3>2. smtp[s] # Nil /\ made[s] # Nil
      BY <1>i, <3>1 DEF TypeOK
    <3>3. PICK t : t = Effective(c, s)
      OBVIOUS
    <3>4. /\ ~SetsTemplates(settings[c]) => t.subject = made[s].subject /\ t.body = made[s].body
          /\ settings[c].from = Nil => t.from = made[s].from
      BY <1>i, <3>2, <3>3, EffectiveIs
    <3>5. /\ ~SetsTemplates(settings[c]) => Fits(smtp[s].subject, t.subject) /\ Fits(smtp[s].body, t.body)
          /\ settings[c].from = Nil => smtp[s].from = OrDefault(t.from)
      <4>1. CASE Quiet(s)
        BY <3>2, <3>4, <4>1 DEF MailInv, AsMade, IsAs
      <4>2. CASE ~Quiet(s)
        <5>1. PICK k \in Managers : Begun(k) /\ SenderOf(k) = s
          BY <4>2 DEF Quiet
        <5>2. k # m
          BY <1>2, <5>1
        <5>3. Alone(c, s)
          BY <1>3, <1>4, <1>u, <2>2, <3>1
        <5>4. config[k] = c /\ SettingsOf(k) = settings[c]
          BY <5>1, <5>3 DEF Alone, Begun, SettingsOf
        <5>5. Progress(k, t)
          BY <3>3, <5>1, <5>3, <5>4 DEF MailInv, OwnSender
        <5>6. ~SetsTemplates(settings[c]) => step[k] \in AfterBody /\ step[k] \in AfterSubject
          BY <1>i, <5>1, <5>4 DEF StepsMakeSense, Begun, TypeOK, AfterBody, AfterSubject
        <5> QED
          BY <5>1, <5>4, <5>5, <5>6 DEF Progress
      <4> QED
        BY <4>1, <4>2
    <3>6. Progress(m, t)'
      BY <1>n, <3>1, <3>5
    <3>7. t = Effective(config[m], SenderOf(m))'
      BY <1>3, <1>4, <1>u, <3>1, <3>3
    <3> QED
      BY <2>2, <3>6, <3>7
  <2> QED
    BY <2>1, <2>2
<1>9. LatestInForce'
  <2> SUFFICES ASSUME NEW r \in Senders, latest'[r] # Nil, smtp[r] # Nil
               PROVE  /\ \A k, n \in Managers : AtWork(k, r)' /\ AtWork(n, r)' => k = n
                      /\ ~Busy(r)' => IsAs(r, latest[r])'
                      /\ \A n \in Managers : AtWork(n, r)' =>
                            /\ SetsTemplates(SettingsOf(n)') =>
                                  /\ latest'[r].subject = SettingsOf(n)'.subject
                                  /\ latest'[r].body = SettingsOf(n)'.body
                            /\ SettingsOf(n)'.from # Nil => latest'[r].from = SettingsOf(n)'.from
                            /\ Progress(n, latest[r])'
    BY <1>2 DEF LatestInForce, SetsTemplates
  <2>o. \A n \in Managers \ {m} : AtWork(n, r)' <=> AtWork(n, r)
    BY <1>3, <1>4 DEF AtWork
  <2>b. \A x \in Senders : Busy(x) <=> \E n \in Managers : AtWork(n, x)
    BY DEF Busy, AtWork
  <2>c. Busy(r)' <=> \E n \in Managers : AtWork(n, r)'
    BY DEF Busy, AtWork
  <2>m. ~AtWork(m, r) /\ (AtWork(m, r)' <=> at # "built" /\ r = sender[c])
    BY <1>2, <1>3, <1>4 DEF AtWork, Steps
  <2>1. CASE at = "built" \/ r # sender[c]
    <3>1. latest'[r] = latest[r]
      BY <1>a, <2>1
    <3>2. /\ \A k, n \in Managers : AtWork(k, r) /\ AtWork(n, r) => k = n
          /\ ~Busy(r) => IsAs(r, latest[r])
          /\ \A n \in Managers : AtWork(n, r) =>
                /\ SetsTemplates(SettingsOf(n)) =>
                      /\ latest[r].subject = SettingsOf(n).subject
                      /\ latest[r].body = SettingsOf(n).body
                /\ SettingsOf(n).from # Nil => latest[r].from = SettingsOf(n).from
                /\ Progress(n, latest[r])
      BY <3>1 DEF MailInv, LatestInForce
    <3>3. \A n \in Managers : AtWork(n, r)' => n # m /\ AtWork(n, r)
      BY <2>1, <2>m, <2>o
    <3>4. ~Busy(r)' => ~Busy(r)
      BY <2>b, <2>c, <2>m, <2>o
    <3>5. PICK t : t = latest[r]
      OBVIOUS
    <3>6. \A n \in Managers : AtWork(n, r)' => Progress(n, t)'
      BY <1>o, <3>2, <3>3, <3>5
    <3>7. ~Busy(r)' => IsAs(r, t)'
      BY <1>r, <3>2, <3>4, <3>5
    <3> QED
      BY <1>4, <3>1, <3>2, <3>3, <3>5, <3>6, <3>7
  <2>2. CASE at # "built" /\ r = sender[c]
    <3>1. ~Busy(r) /\ latest'[r] = Combined(latest[r], settings[c])
      BY <1>a, <2>2
    <3>2. \A n \in Managers : AtWork(n, r)' <=> n = m
      BY <2>2, <2>b, <2>m, <2>o, <3>1
    <3>3. PICK t : t = Combined(latest[r], settings[c])
      OBVIOUS
    <3>4. latest[r] \in AllSettings \cup {Nil}
      BY <1>i DEF TypeOK
    <3>5. /\ SetsTemplates(settings[c]) => t.subject = settings[c].subject /\ t.body = settings[c].body
          /\ ~SetsTemplates(settings[c]) =>
                latest[r] # Nil /\ t.subject = latest[r].subject /\ t.body = latest[r].body
          /\ settings[c].from # Nil => t.from = settings[c].from
          /\ settings[c].from = Nil => latest[r] # Nil /\ t.from = latest[r].from
      BY <1>s, <3>1, <3>3, <3>4, CombinedIs
    <3>6. latest[r] # Nil => IsAs(r, latest[r])
      BY <3>1 DEF MailInv, LatestInForce
    <3>7. Progress(m, t)'
      BY <1>n, <2>2, <3>5, <3>6 DEF IsAs
    <3>8. t = latest'[r]
      BY <3>1, <3>3
    <3>9. Busy(r)'
      BY <2>c, <3>2
    <3> QED
      BY <1>4, <3>2, <3>5, <3>7, <3>8, <3>9
  <2> QED
    BY <2>1, <2>2
<1>10. MailMakesSense'
  <2> SUFFICES ASSUME mail # Nil
               PROVE  /\ Built(mail.by)' /\ SenderOf(mail.by)' # Nil
                      /\ mail'.steady => ~Busy(SenderOf(mail.by))'
    BY <1>a DEF MailMakesSense
  <2>1. PICK k \in Managers \ {m} : k = mail.by /\ k = mail'.by
    BY <1>a, <1>m
  <2>2. Built(k)' /\ SenderOf(k)' = SenderOf(k) /\ SenderOf(k) # Nil
    BY <1>4, <1>b, <1>m, <2>1
  <2>3. ASSUME mail'.steady PROVE ~Busy(SenderOf(k))'
    <3>1. ~Busy(SenderOf(k)) /\ (at = "built" \/ SenderOf(k) # sender[c])
      BY <1>a, <1>m, <2>1, <2>3
    <3> QED
      BY <1>3, <1>4, <2>2, <3>1 DEF Busy
  <2> QED
    BY <2>1, <2>2, <2>3
<1>p. ASSUME mail' # Nil
      PROVE  /\ \A t : MailFits(t) => MailFits(t)'
             /\ config'[mail'.by] = config[mail.by]
             /\ SenderOf(mail.by)' = SenderOf(mail.by)
  <2>1. PICK k \in Managers \ {m} : k = mail.by /\ k = mail'.by
    BY <1>a, <1>m, <1>p
  <2>2. SenderOf(k)' = SenderOf(k)
    BY <1>4
  <2>3. SenderOf(mail.by)' = SenderOf(k)' /\ SenderOf(mail.by) = SenderOf(k)
    BY <2>1 DEF SenderOf
  <2> QED
    BY <1>3, <1>a, <1>p, <1>u, <2>1, <2>2, <2>3 DEF MailFits, OrDefault
<1>11. MailFollowsConfig'
  <2> SUFFICES ASSUME mail' # Nil, Alone(config[mail.by], SenderOf(mail.by))'
               PROVE  MailFits(Effective(config[mail.by], SenderOf(mail.by)))'
    BY DEF MailFollowsConfig
  <2>1. PICK d, s, t : d = config[mail.by] /\ s = SenderOf(mail.by) /\ t = Effective(d, s)
    OBVIOUS
  <2>2. d = config[mail.by]' /\ s = SenderOf(mail.by)' /\ t = Effective(d, s)'
    BY <1>p, <1>u, <2>1
  <2>3. MailFits(t)
    BY <1>a, <1>u, <2>1, <2>2 DEF MailInv, MailFollowsConfig
  <2>4. MailFits(t)'
    BY <1>p, <2>3
  <2> QED
    BY <2>2, <2>4
<1>12. MailIsOfLatestConfig'
  <2> SUFFICES ASSUME mail' # Nil, mail'.steady, latest'[SenderOf(mail.by)'] # Nil
               PROVE  MailFits(latest[SenderOf(mail.by)])'
    BY DEF MailIsOfLatestConfig
  <2>0. mail # Nil /\ config[mail.by] \in Configs
    <3>1. "built" \in Steps
      BY DEF Steps
    <3> QED
      BY <1>a, <1>i, <1>m, <3>1 DEF StepsMakeSense, Begun, Built, TypeOK
  <2>1. PICK s \in Senders : s = SenderOf(mail.by)
    BY <1>i, <1>m, <2>0 DEF TypeOK, SenderOf
  <2>t. PICK t : t = latest[s]
    OBVIOUS
  <2>2. s = SenderOf(mail.by)' /\ t = latest'[s]
    BY <1>a, <1>p, <2>0, <2>1, <2>t
  <2>3. MailFits(t)
    BY <1>a, <2>0, <2>1, <2>2, <2>t DEF MailInv, MailIsOfLatestConfig
  <2>4. MailFits(t)'
    BY <1>p, <2>3
  <2> QED
    BY <2>2, <2>4
<1> QED
  BY <1>5, <1>6, <1>7, <1>8, <1>9, <1>10, <1>11, <1>12 DEF MailInv

LEMMA MailingStep == MailInv /\ [Next]_vars => MailInv'
<1> SUFFICES ASSUME MailInv, [Next]_vars PROVE MailInv'
  OBVIOUS
<1>1. ASSUME NEW s \in Senders, NewSMTPEmailSender(s) PROVE MailInv'
  BY <1>1, NewSenderKeepsMails
<1>2. ASSUME NEW c \in Configs, Configure(c) PROVE MailInv'
  BY <1>2, ConfigureKeepsMails
<1>3. ASSUME NEW m \in Managers, NewManager(m) PROVE MailInv'
  BY <1>3, NewManagerKeepsMails
<1>4. ASSUME NEW m \in Managers, Construct(m) PROVE MailInv'
  BY <1>4, ConstructKeepsMails
<1>5. ASSUME NEW m \in Managers, SendInvitation(m) PROVE MailInv'
  BY <1>5, ReadingKeepsMails
<1>6. CASE ReadOn
  BY <1>6, ReadingKeepsMails
<1>7. ASSUME NEW p \in Path, ChangeFile(p) PROVE MailInv'
  BY <1>7, ChangeFileKeepsMails
<1>8. CASE UNCHANGED vars
  <2>1. /\ UNCHANGED <<config, step, template, sender, settings, made, smtp, mail, latest>>
        /\ missed' = missed /\ readable' = readable
    BY <1>8 DEF vars
  <2>2. TypeOK' /\ MissedSoFar' /\ StepsMakeSense'
    BY <2>1 DEF MailInv, TypeOK, MissedSoFar, StepsMakeSense, Begun, Built, SenderOf, SettingsOf
  <2>3. AsMade' /\ OwnSender' /\ LatestInForce'
    BY <2>1 DEF MailInv, AsMade, OwnSender, LatestInForce, Quiet, Begun, Built, SenderOf, SettingsOf,
       Alone, Busy, AtWork, Effective, Progress, IsAs, Fits, OrDefault
  <2>4. MailMakesSense' /\ MailFollowsConfig' /\ MailIsOfLatestConfig'
    BY <2>1 DEF MailInv, MailMakesSense, MailFollowsConfig, MailIsOfLatestConfig, Built, SenderOf, Busy,
       Alone, Effective, MailFits, Fits, OrDefault
  <2> QED
    BY <2>2, <2>3, <2>4 DEF MailInv
<1> QED
  BY <1>1, <1>2, <1>3, <1>4, <1>5, <1>6, <1>7, <1>8 DEF Next

LEMMA MailInvHolds == Spec => []MailInv
BY MailingInit, MailingStep, PTL DEF Spec

-----------------------------------------------------------------------------
\* Every sender always has two templates and a From address to send with, and
\* every Config that names a sender names one that was made.
THEOREM MailingTypes == Spec => []TypeOK
BY MailInvHolds, PTL DEF MailInv

\* A Manager whose Config has its sender to itself mails what the Config says,
\* while that Config is applied again and files come and go.
THEOREM ConfigIsFollowed == Spec => []MailFollowsConfig
BY MailInvHolds, PTL DEF MailInv

\* A mail that meets no constructor is all of the configuration in force at its
\* sender, whichever Configs share it.
THEOREM LatestConfigIsInForce == Spec => []MailIsOfLatestConfig
BY MailInvHolds, PTL DEF MailInv
=============================================================================
