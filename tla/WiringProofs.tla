---------------------------- MODULE WiringProofs ----------------------------
(***************************************************************************)
(* Theorems about Wiring, for every application: handlers, Configs and     *)
(* storages are shared as it likes.                                        *)
(***************************************************************************)
EXTENDS Wiring, TLAPS

\* A Manager that was built has a storage and a handler.
Equipped == \A m \in Managers : Built(m) => storage[m] # Nil /\ HandlerOf(m) # Nil

WiringInv == TypeOK /\ Equipped /\ HandlerServesAManager /\ StoragesStayApart

-----------------------------------------------------------------------------
LEMMA WiringInit == Init => WiringInv
<1> SUFFICES ASSUME Init PROVE WiringInv
  OBVIOUS
<1>1. TypeOK
  BY DEF Init, TypeOK
<1>2. Equipped /\ HandlerServesAManager
  BY DEF Init, Equipped, HandlerServesAManager, Built
<1>3. StoragesStayApart
  BY DEF Init, StoragesStayApart
<1> QED
  BY <1>1, <1>2, <1>3 DEF WiringInv

\* A handler that nothing refers to is no Manager's handler.
LEMMA NewHandlerIsNobodys ==
  ASSUME WiringInv, NEW h \in Handlers, handlerStorage[h] = Nil, NEW m \in Managers, Built(m)
  PROVE  HandlerOf(m) # h
<1>1. PICK n \in Managers : /\ Built(n) /\ HandlerOf(n) = HandlerOf(m)
                            /\ handlerStorage[HandlerOf(m)] = storage[n]
  BY DEF WiringInv, HandlerServesAManager
<1> QED
  BY <1>1 DEF WiringInv, Equipped

\* Building a Manager wires its handler to its own storage, for everybody else
\* with that handler too, and no other handler anew.  Sharing is for ever, so a
\* storage that is apart afterwards was apart before.
LEMMA BuildKeepsWiring ==
  ASSUME WiringInv,
         NEW m \in Managers, NEW c \in Configs, NEW s \in Storages, Build(m, c, s)
  PROVE  WiringInv'
<1> USE NilIsNothing
<1>t. TypeOK
  BY DEF WiringInv
<1>1. /\ config' \in [Managers -> Configs \cup {Nil}] /\ config'[m] = c
      /\ storage' \in [Managers -> Storages \cup {Nil}] /\ storage'[m] = s
      /\ \A n \in Managers \ {m} : config'[n] = config[n] /\ storage'[n] = storage[n]
  BY <1>t DEF Build, TypeOK
<1>2. UNCHANGED <<users, deleted>>
  BY DEF Build
<1>3. PICK k \in Handlers :
         /\ handler'[c] = k /\ handler' \in [Configs -> Handlers \cup {Nil}]
         /\ handlerStorage' \in [Handlers -> Storages \cup {Nil}] /\ handlerStorage'[k] = s
         /\ \A h \in Handlers \ {k} : handlerStorage'[h] = handlerStorage[h]
         /\ \A n \in Managers \ {m} : Built(n) =>
               HandlerOf(n)' = HandlerOf(n) /\ HandlerOf(n) \in Handlers
  <2>1. CASE handler[c] = Nil
    <3>1. PICK h \in Handlers : /\ handlerStorage[h] = Nil
                                /\ handlerStorage' = [handlerStorage EXCEPT ![h] = s]
                                /\ handler' = [handler EXCEPT ![c] = h]
      BY <2>1 DEF Build, SetDefaultHandler, NewDefaultDeletionHandler
    <3>2. handler' \in [Configs -> Handlers \cup {Nil}] /\ handler'[c] = h
      BY <1>t, <3>1 DEF TypeOK
    <3>3. /\ handlerStorage' \in [Handlers -> Storages \cup {Nil}] /\ handlerStorage'[h] = s
          /\ \A k \in Handlers \ {h} : handlerStorage'[k] = handlerStorage[k]
      BY <1>t, <3>1 DEF TypeOK
    <3>4. ASSUME NEW n \in Managers \ {m}, Built(n)
          PROVE  HandlerOf(n)' = HandlerOf(n) /\ HandlerOf(n) \in Handlers
      <4>1. config[n] \in Configs \ {c}
        BY <1>t, <2>1, <3>4 DEF WiringInv, Equipped, TypeOK, Built, HandlerOf
      <4>2. HandlerOf(n) \in Handlers
        BY <1>t, <3>4, <4>1 DEF WiringInv, Equipped, TypeOK, HandlerOf
      <4> QED
        BY <1>t, <1>1, <3>1, <4>1, <4>2 DEF HandlerOf, TypeOK
    <3> QED
      BY <3>2, <3>3, <3>4
  <2>2. CASE handler[c] # Nil
    <3>1. handlerStorage' = [handlerStorage EXCEPT ![handler[c]] = s] /\ handler' = handler
      BY <2>2 DEF Build, SetDefaultHandler
    <3>2. handler[c] \in Handlers
      BY <1>t, <2>2 DEF TypeOK
    <3>3. /\ handlerStorage' \in [Handlers -> Storages \cup {Nil}]
          /\ handlerStorage'[handler[c]] = s
          /\ \A h \in Handlers \ {handler[c]} : handlerStorage'[h] = handlerStorage[h]
      BY <1>t, <3>1, <3>2 DEF TypeOK
    <3>4. ASSUME NEW n \in Managers \ {m}, Built(n)
          PROVE  HandlerOf(n)' = HandlerOf(n) /\ HandlerOf(n) \in Handlers
      BY <1>t, <1>1, <3>1, <3>4 DEF WiringInv, Equipped, TypeOK, Built, HandlerOf
    <3> QED
      BY <1>t, <3>1, <3>2, <3>3, <3>4 DEF TypeOK
  <2> QED
    BY <2>1, <2>2
<1>4. HandlerOf(m)' = k
  BY <1>1, <1>3 DEF HandlerOf
<1>5. TypeOK'
  BY <1>t, <1>1, <1>2, <1>3 DEF TypeOK
<1>6. Equipped'
  BY <1>1, <1>3, <1>4 DEF WiringInv, Equipped, Built
<1>7. HandlerServesAManager'
  <2> SUFFICES ASSUME NEW n \in Managers, Built(n)'
               PROVE  \E w \in Managers : /\ Built(w)' /\ HandlerOf(w)' = HandlerOf(n)'
                                          /\ handlerStorage'[HandlerOf(n)'] = storage'[w]
    BY DEF HandlerServesAManager
  <2>m. Built(m)' /\ ~Built(m)
    BY <1>1 DEF Built, Build
  <2>1. CASE HandlerOf(n)' = k
    BY <1>1, <1>3, <1>4, <2>m, <2>1
  <2>2. CASE HandlerOf(n)' # k
    <3>1. n # m /\ Built(n)
      BY <1>1, <1>4, <2>2 DEF Built
    <3>2. PICK w \in Managers : /\ Built(w) /\ HandlerOf(w) = HandlerOf(n)
                                /\ handlerStorage[HandlerOf(n)] = storage[w]
      BY <3>1 DEF WiringInv, HandlerServesAManager
    <3>3. w # m /\ Built(w)'
      BY <1>1, <2>m, <3>2 DEF Built
    <3> QED
      BY <1>1, <1>3, <2>2, <3>1, <3>2, <3>3
  <2> QED
    BY <2>1, <2>2
<1>8. ASSUME NEW x \in Storages, Apart(x)' PROVE Apart(x)
  <2> SUFFICES ASSUME NEW a \in Managers, NEW b \in Managers,
                      Built(a), Built(b), storage[a] = x, storage[b] # x
               PROVE  HandlerOf(a) # HandlerOf(b)
    BY DEF Apart
  <2>1. a # m /\ b # m
    BY DEF Build
  <2>2. Built(a)' /\ Built(b)'
    BY <1>1, <2>1 DEF Built
  <2> QED
    BY <1>1, <1>3, <1>8, <2>1, <2>2 DEF Apart
<1> QED
  BY <1>2, <1>5, <1>6, <1>7, <1>8 DEF WiringInv, StoragesStayApart

LEMMA ConfigureKeepsWiring ==
  ASSUME WiringInv, NEW c \in Configs, Configure(c)
  PROVE  WiringInv'
<1> USE NilIsNothing
<1>t. TypeOK
  BY DEF WiringInv
<1>1. /\ handler[c] = Nil /\ \A m \in Managers : config[m] # c
      /\ UNCHANGED <<config, storage, users, deleted>>
  BY DEF Configure, Unused
<1>2. PICK h \in Handlers : /\ handler' = [handler EXCEPT ![c] = h]
                            /\ \/ \E s \in Storages : NewDefaultDeletionHandler(h, s)
                               \/ UNCHANGED handlerStorage
  BY DEF Configure
<1>3. handler' \in [Configs -> Handlers \cup {Nil}]
  BY <1>t, <1>2 DEF TypeOK
<1>4. handlerStorage' \in [Handlers -> Storages \cup {Nil}]
  BY <1>t, <1>2 DEF TypeOK, NewDefaultDeletionHandler
<1>5. ASSUME NEW m \in Managers, Built(m)
      PROVE  HandlerOf(m)' = HandlerOf(m) /\ handlerStorage'[HandlerOf(m)] = handlerStorage[HandlerOf(m)]
  <2>1. HandlerOf(m)' = HandlerOf(m) /\ HandlerOf(m) \in Handlers
    BY <1>t, <1>1, <1>2, <1>5 DEF WiringInv, Equipped, TypeOK, Built, HandlerOf
  <2>2. CASE \E s \in Storages : NewDefaultDeletionHandler(h, s)
    <3>1. HandlerOf(m) # h
      BY <1>5, <2>2, NewHandlerIsNobodys DEF NewDefaultDeletionHandler
    <3> QED
      BY <1>t, <2>1, <2>2, <3>1 DEF NewDefaultDeletionHandler, TypeOK
  <2> QED
    BY <1>2, <2>1, <2>2
<1>6. TypeOK'
  BY <1>t, <1>1, <1>3, <1>4 DEF TypeOK
<1>7. Equipped' /\ HandlerServesAManager'
  BY <1>1, <1>5 DEF WiringInv, Equipped, HandlerServesAManager, Built
<1>8. ASSUME NEW x \in Storages, Apart(x)' PROVE Apart(x)
  BY <1>1, <1>5, <1>8 DEF Apart, Built
<1> QED
  BY <1>1, <1>6, <1>7, <1>8 DEF WiringInv, StoragesStayApart

\* The calls on Managers: a user is created in the storage of the Manager, and
\* saved under its own id in the one of its handler.  If that one is apart, it is
\* the Manager's own: it is the storage of some Manager with this handler.
LEMMA CallsKeepWiring ==
  ASSUME WiringInv, NEW m \in Managers, CreateUser(m) \/ DeleteUser(m)
  PROVE  WiringInv'
<1> USE NilIsNothing
<1>t. TypeOK /\ StoragesStayApart
  BY DEF WiringInv
<1>1. UNCHANGED <<config, storage, handler, handlerStorage>> /\ Built(m)
  BY DEF CreateUser, DeleteUser
<1>2. PICK n \in Managers : /\ Built(n) /\ HandlerOf(n) = HandlerOf(m)
                            /\ handlerStorage[HandlerOf(m)] = storage[n]
  BY <1>1 DEF WiringInv, HandlerServesAManager
<1>3. storage[m] \in Storages /\ storage[n] \in Storages
  BY <1>t, <1>1, <1>2 DEF WiringInv, Equipped, TypeOK
<1>4. Equipped' /\ HandlerServesAManager'
  BY <1>1 DEF WiringInv, Equipped, HandlerServesAManager, Built, HandlerOf
<1>5. PICK u \in UserId :
         \/ /\ users' = [users EXCEPT ![storage[m]][u] = <<storage[m], u>>]
            /\ UNCHANGED deleted
         \/ /\ users[storage[m]][u] # Nil
            /\ deleted' = deleted \cup {users[storage[m]][u]}
            /\ \/ users' = [users EXCEPT ![storage[n]][u] = users[storage[m]][u]]
               \/ UNCHANGED users
  BY <1>2 DEF CreateUser, DeleteUser
<1>6. users[storage[m]][u] \in User \cup {Nil}
  BY <1>t, <1>3 DEF TypeOK
<1>7. users' \in [Storages -> [UserId -> User \cup {Nil}]]
  <2>1. <<storage[m], u>> \in User
    BY <1>3 DEF User
  <2>2. \E x \in {storage[m], storage[n]}, w \in User \cup {Nil} :
           users' = [users EXCEPT ![x][u] = w] \/ UNCHANGED users
    BY <1>5, <1>6, <2>1
  <2> QED
    BY <1>t, <1>3, <2>2 DEF TypeOK
<1>8. deleted' \subseteq User
  BY <1>t, <1>5, <1>6 DEF TypeOK
<1>9. TypeOK'
  BY <1>t, <1>1, <1>7, <1>8 DEF TypeOK
<1>10. StoragesStayApart'
  <2> SUFFICES ASSUME NEW x \in Storages, Apart(x)', NEW v \in UserId
               PROVE  users'[x][v] \in {<<x, v>>, Nil}
    BY DEF StoragesStayApart
  <2>1. Apart(x)
    BY <1>1 DEF Apart, Built, HandlerOf
  <2>2. users[x][v] \in {<<x, v>>, Nil}
    BY <1>t, <2>1 DEF StoragesStayApart
  <2>3. CASE users' = [users EXCEPT ![storage[m]][u] = <<storage[m], u>>]
    BY <1>t, <1>3, <2>2, <2>3 DEF TypeOK
  <2>4. CASE users' = [users EXCEPT ![storage[n]][u] = users[storage[m]][u]]
    <3>1. CASE storage[n] = x
      <4>1. storage[m] = x
        BY <1>1, <1>2, <2>1, <3>1 DEF Apart
      <4> QED
        BY <1>t, <1>3, <2>2, <2>4, <3>1, <4>1 DEF TypeOK
    <3>2. CASE storage[n] # x
      BY <1>t, <1>3, <2>2, <2>4, <3>2 DEF TypeOK
    <3> QED
      BY <3>1, <3>2
  <2>5. CASE UNCHANGED users
    BY <2>2, <2>5
  <2> QED
    BY <1>5, <2>3, <2>4, <2>5
<1> QED
  BY <1>4, <1>9, <1>10 DEF WiringInv

LEMMA WiringNext == WiringInv /\ [Next]_vars => WiringInv'
<1> SUFFICES ASSUME WiringInv, [Next]_vars PROVE WiringInv'
  OBVIOUS
<1>1. ASSUME NEW c \in Configs, Configure(c) PROVE WiringInv'
  BY <1>1, ConfigureKeepsWiring
<1>2. ASSUME NEW m \in Managers, NewManager(m) \/ NewManagerWithStorage(m) PROVE WiringInv'
  <2>1. PICK c \in Configs, s \in Storages : Build(m, c, s)
    BY <1>2 DEF NewManager, NewManagerWithStorage
  <2> QED
    BY <2>1, BuildKeepsWiring
<1>3. ASSUME NEW m \in Managers, CreateUser(m) \/ DeleteUser(m) PROVE WiringInv'
  BY <1>3, CallsKeepWiring
<1>4. ASSUME UNCHANGED vars PROVE WiringInv'
  BY <1>4 DEF vars, WiringInv, TypeOK, Equipped, HandlerServesAManager, StoragesStayApart,
              Apart, Built, HandlerOf
<1> QED
  BY <1>1, <1>2, <1>3, <1>4 DEF Next

\* Every handler in use saves to the storage of one of the Managers that delete
\* through it, for ever, whatever is built, configured and shared.
THEOREM HandlersServeManagers == Spec => []HandlerServesAManager
<1>1. WiringInv => HandlerServesAManager
  BY DEF WiringInv
<1> QED
  BY <1>1, WiringInit, WiringNext, PTL DEF Spec

\* No deletion puts a user of another storage into one whose Managers share no
\* handler with a Manager of another storage.
THEOREM NoUserStrays == Spec => []StoragesStayApart
<1>1. WiringInv => StoragesStayApart
  BY DEF WiringInv
<1> QED
  BY <1>1, WiringInit, WiringNext, PTL DEF Spec
=============================================================================
