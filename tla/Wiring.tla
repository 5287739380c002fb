------------------------------- MODULE Wiring -------------------------------
(***************************************************************************)
(* How Managers are built (NewManager and NewManagerWithStorage, in        *)
(* manager.go): from a Config, which is passed by reference and keeps the  *)
(* DeletionHandler, which in turn keeps a storage of its own to save to.   *)
(*                                                                         *)
(* An application may build several Managers, from one Config or from      *)
(* several, and give one handler to several Configs: nothing keeps a       *)
(* handler from being repointed while another Manager deletes through it.  *)
(*                                                                         *)
(* Storages are InMemoryStorage: a user is identified by the storage that  *)
(* created it and its id there, and users[s][u] is the pointer stored in s *)
(* under the id u.                                                         *)
(***************************************************************************)
EXTENDS Naturals

CONSTANTS Managers, Configs, Handlers, Storages,  \* the objects built
          UserId,         \* ids of users, in the order every storage gives
          Nil

ASSUME NilIsNothing == Nil \notin Configs \cup Handlers \cup Storages
ASSUME UserIdsAreNaturals == UserId \subseteq Nat

VARIABLES config,          \* Manager.config
          storage,         \* Manager.storage
          handler,         \* Config.DeletionHandler
          handlerStorage,  \* DefaultDeletionHandler.storage
          users,           \* the pointers in each storage
          deleted          \* the users whose DeletedAt is set

vars == <<config, storage, handler, handlerStorage, users, deleted>>

User == Storages \X UserId

TypeOK == /\ config \in [Managers -> Configs \cup {Nil}]
          /\ storage \in [Managers -> Storages \cup {Nil}]
          /\ handler \in [Configs -> Handlers \cup {Nil}]
          /\ handlerStorage \in [Handlers -> Storages \cup {Nil}]
          /\ users \in [Storages -> [UserId -> User \cup {Nil}]]
          /\ deleted \subseteq User

Init == /\ config = [m \in Managers |-> Nil]
        /\ storage = [m \in Managers |-> Nil]
        /\ handler = [c \in Configs |-> Nil]
        /\ handlerStorage = [h \in Handlers |-> Nil]
        /\ users = [s \in Storages |-> [u \in UserId |-> Nil]]
        /\ deleted = {}

-----------------------------------------------------------------------------
Built(m) == config[m] # Nil

HandlerOf(m) == handler[config[m]]

\* A Config, or a storage, that nothing refers to yet.
Unused(c) == handler[c] = Nil /\ \A m \in Managers : config[m] # c

Fresh(s) == /\ \A m \in Managers : storage[m] # s
            /\ \A h \in Handlers : handlerStorage[h] # s

\* NewDefaultDeletionHandler: a handler nothing refers to yet.
NewDefaultDeletionHandler(h, s) ==
    /\ handlerStorage[h] = Nil
    /\ handlerStorage' = [handlerStorage EXCEPT ![h] = s]

\* Mistake: a handler that was configured keeps the storage it came with.
KeepHandler(c, s) ==
    \/ /\ handler[c] = Nil
       /\ \E h \in Handlers : /\ NewDefaultDeletionHandler(h, s)
                              /\ handler' = [handler EXCEPT ![c] = h]
    \/ /\ handler[c] # Nil
       /\ UNCHANGED <<handler, handlerStorage>>

\* A missing handler is written into the caller's Config; one that is there
\* is pointed at the storage of the Manager being built.
SetDefaultHandler(c, s) ==
    \/ /\ handler[c] = Nil
       /\ \E h \in Handlers : /\ NewDefaultDeletionHandler(h, s)
                              /\ handler' = [handler EXCEPT ![c] = h]
    \/ /\ handler[c] # Nil
       /\ handlerStorage' = [handlerStorage EXCEPT ![handler[c]] = s]
       /\ UNCHANGED handler

Build(m, c, s) == /\ ~Built(m)
                  /\ config' = [config EXCEPT ![m] = c]
                  /\ storage' = [storage EXCEPT ![m] = s]
                  /\ SetDefaultHandler(c, s)
                  /\ UNCHANGED <<users, deleted>>

\* The application sets Config.DeletionHandler, to a handler of its own or to
\* the one of another Config, before it builds a Manager from it.
Configure(c) ==
    /\ Unused(c)
    /\ \E h \in Handlers :
          /\ handler' = [handler EXCEPT ![c] = h]
          /\ \/ \E s \in Storages : NewDefaultDeletionHandler(h, s)
             \/ handlerStorage[h] # Nil /\ UNCHANGED handlerStorage
    /\ UNCHANGED <<config, storage, users, deleted>>

\* NewManager creates the storage.  A nil Config is an unused one.
NewManager(m) == \E c \in Configs, s \in Storages : Fresh(s) /\ Build(m, c, s)

NewManagerWithStorage(m) == \E c \in Configs, s \in Storages : Build(m, c, s)

\* Every storage counts its ids from 1, so two storages use the same ids.
CreateUser(m) ==
    /\ Built(m)
    /\ \E u \in UserId :
          LET s == storage[m]
          IN  /\ users[s][u] = Nil
              /\ \A v \in UserId : v < u => users[s][v] # Nil
              /\ users' = [users EXCEPT ![s][u] = <<s, u>>]
    /\ UNCHANGED <<config, storage, handler, handlerStorage, deleted>>

\* Manager.DeleteUser reads the user from the Manager's storage; the handler
\* marks it and saves it to its own, under the same id.
DeleteUser(m) ==
    /\ Built(m)
    /\ \E u \in UserId :
          LET user   == users[storage[m]][u]
              target == handlerStorage[HandlerOf(m)]
          IN  /\ user # Nil
              /\ deleted' = deleted \cup {user}
              /\ \/ /\ users[target][u] # Nil
                    /\ users' = [users EXCEPT ![target][u] = user]
                 \/ users[target][u] = Nil /\ UNCHANGED users
    /\ UNCHANGED <<config, storage, handler, handlerStorage>>

Next == \/ \E c \in Configs : Configure(c)
        \/ \E m \in Managers : \/ NewManager(m) \/ NewManagerWithStorage(m)
                               \/ CreateUser(m) \/ DeleteUser(m)

Spec == Init /\ [][Next]_vars

-----------------------------------------------------------------------------
\* A handler that Managers delete through saves to the storage of one of them,
\* in whatever order handlers, Configs and Managers are made: never to a storage
\* it came with.  So Managers that agree on the storage find it there.
HandlerServesAManager ==
    \A m \in Managers : Built(m) =>
        \E n \in Managers : /\ Built(n)
                            /\ HandlerOf(n) = HandlerOf(m)
                            /\ handlerStorage[HandlerOf(m)] = storage[n]

\* No Manager of s shares its handler with a Manager of another storage.
Apart(s) ==
    \A m, n \in Managers :
        Built(m) /\ Built(n) /\ storage[m] = s /\ storage[n] # s
            => HandlerOf(m) # HandlerOf(n)

\* No deletion puts a user of another storage into one that is apart, over the
\* user who has the same id there, however tangled the other storages are.
StoragesStayApart ==
    \A s \in Storages : Apart(s) =>
        \A u \in UserId : users[s][u] \in {<<s, u>>, Nil}
=============================================================================
