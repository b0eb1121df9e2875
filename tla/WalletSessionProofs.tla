------------------------- MODULE WalletSessionProofs -------------------------
(***************************************************************************)
(* The wallet's session, for any number of accounts and of calls.  The     *)
(* first part holds however calls overlap and wherever the worker is lost; *)
(* the second, from AloneInv on, is about calls that run one at a time, to *)
(* their end and without a failing await, which is when its properties say *)
(* something.                                                              *)
(***************************************************************************)
EXTENDS WalletSession, TLAPS

LogInPcs == {"logIn", "loggingIn", "read", "write"}
ListPcs == {"list", "writeList", "writeKeyId", "nameAccount"}

\* Where a call is tells what it has left to write and for which account.
CallInv(t) ==
    LET c == call[t] IN
    /\ c.pc \in LogInPcs \cup {"clear"} => c.todo # <<>>
    /\ c.pc = "removeTemporary" /\ ~OnlyClears(t) => c.todo # <<>>
    /\ c.part = "store" => c.account \in Accounts
    /\ c.pc \in ListPcs => c.part = "store"
    /\ c.part = "login" => Len(c.todo) <= MaxAccounts
    /\ c.pc = "restore" => vault > 0
    /\ c.pc \in {"ask", "askAgain", "derive"} => c.part = "login"

\* Only one of creating and adding can raise the number of accounts.
VaultInv ==
    /\ call["create"].pc = "sdkCreate" => vault = 0
    /\ call["add"].pc \notin {"idle"} /\ ~Stores("add") => vault \in 1 .. MaxAccounts - 1

TypeInv == TypeOK /\ VaultInv /\ \A t \in Types : CallInv(t)

\* A call that is about to unlock has written its secrets.
CallUnlocks(t) ==
    /\ call[t].state.hashKey \in {0} \cup written
    /\ call[t].pc = "setKey" => call[t].key \in written

UnlockInv == UnlockFollowsSecrets /\ \A t \in Types : CallUnlocks(t)

LEMMA InitHolds == Init => TypeInv /\ UnlockInv
<1> SUFFICES ASSUME Init PROVE TypeInv /\ UnlockInv
    OBVIOUS
<1> USE SessionAssumption DEF Init
<1>1. initialState \in Session /\ Erased \in [Names -> Nat] /\ <<>> \in Seq(Names)
    BY DEF initialState, Session, Erased
<1>2. Idle \in Call
    BY <1>1 DEF Idle, Call, Pcs
<1>3. TypeOK
    <2>1. call \in [Types -> Call]
        BY <1>2
    <2>2. alarm \in BOOLEAN
        BY Zenon
    <2>3. keyIds \in Seq(Accounts) /\ vault \in 0 .. MaxAccounts /\ keyId \in 0 .. MaxAccounts
        OBVIOUS
    <2>4. stored \in Session /\ temp \in [Names -> Nat] /\ keys \in Nat
        BY <1>1
    <2>5. written \subseteq Nat /\ signed \subseteq (0 .. MaxAccounts) \X Nat
        OBVIOUS
    <2> QED BY <2>1, <2>2, <2>3, <2>4, <2>5 DEF TypeOK
<1>4. VaultInv
    BY DEF VaultInv, Types, Idle, Stores
<1>5. \A t \in Types : CallInv(t)
    BY DEF CallInv, Idle, LogInPcs, ListPcs
<1>6. UnlockInv
    BY DEF UnlockInv, UnlockFollowsSecrets, CallUnlocks, Idle, initialState
<1> QED BY <1>3, <1>4, <1>5, <1>6 DEF TypeInv

\* The records a call may be replaced with.
LEMMA LoadedIsCall ==
    ASSUME TypeOK, NEW pc \in Pcs
    PROVE  Loaded(pc) \in Call /\ Idle \in Call
<1>1. initialState \in Session /\ Erased \in [Names -> Nat] /\ <<>> \in Seq(Names)
    BY SessionAssumption DEF initialState, Session, Erased
<1>2. Idle \in Call
    BY <1>1, SessionAssumption DEF Idle, Call, Pcs
<1>3. Loaded(pc) \in Call
    BY <1>2 DEF Loaded, Call, TypeOK
<1> QED BY <1>2, <1>3

\* One call goes on to a record of the right shape, and no account is lost.
LEMMA CallGoesOn ==
    ASSUME TypeInv, NEW t \in Types, NEW c \in Call, Becomes(t, c),
           vault' \in Nat, vault' >= vault,
           CallInv(t)'
    PROVE  call' \in [Types -> Call] /\ \A u \in Types : CallInv(u)'
<1> USE DEF Becomes, TypeInv, TypeOK
<1>1. call' \in [Types -> Call]
    OBVIOUS
<1>2. ASSUME NEW u \in Types, u # t PROVE CallInv(u)'
    <2>1. call'[u] = call[u] /\ CallInv(u)
        BY <1>2
    <2> QED BY <2>1 DEF CallInv, OnlyClears, Stores
<1> QED BY <1>1, <1>2

\* The call can still raise the number of accounts if it means to.
VaultKept(t, c) ==
    /\ t = "create" => c.pc # "sdkCreate" \/ vault = 0
    /\ t = "add" => c.pc = "idle" \/ c.part = "store" \/ vault \in 1 .. MaxAccounts - 1

\* What every step must show of the call it takes on: the rest follows.
LEMMA TypeStep ==
    ASSUME TypeInv, NEW t \in Types, NEW c \in Call, Becomes(t, c),
           UNCHANGED vault, CallInv(t)',
           stored' \in Session, temp' \in [Names -> Nat], keys' \in Nat, written' \subseteq Nat,
           keyIds' \in Seq(Accounts), keyId' \in 0 .. MaxAccounts,
           signed' \subseteq (0 .. MaxAccounts) \X Nat, alarm' \in BOOLEAN,
           VaultKept(t, c)
    PROVE  TypeInv'
<1>1. call' \in [Types -> Call] /\ \A u \in Types : CallInv(u)'
    BY CallGoesOn, SessionAssumption DEF TypeInv, TypeOK
<1>2. TypeOK'
    BY <1>1 DEF TypeInv, TypeOK
<1>3. VaultInv'
    BY DEF VaultInv, TypeInv, TypeOK, Becomes, Types, Stores, VaultKept
<1> QED BY <1>1, <1>2, <1>3 DEF TypeInv

\* A call that ends has nothing left to do.
LEMMA EndKeepsTypes ==
    ASSUME TypeInv, NEW t \in Types, End(t),
           UNCHANGED vault, stored' \in Session, temp' \in [Names -> Nat], keys' \in Nat,
           written' \subseteq Nat, keyIds' \in Seq(Accounts), keyId' \in 0 .. MaxAccounts,
           signed' \subseteq (0 .. MaxAccounts) \X Nat, alarm' \in BOOLEAN
    PROVE  TypeInv'
<1>1. Idle \in Call /\ Idle.pc = "idle" /\ Idle.todo = <<>> /\ Idle.part = "login"
    BY LoadedIsCall DEF Idle, TypeInv, Pcs
<1>2. call'[t] = Idle
    BY DEF End, Becomes, TypeInv, TypeOK
<1>3. CallInv(t)'
    BY <1>1, <1>2, SessionAssumption DEF CallInv, LogInPcs, ListPcs
<1>4. VaultKept(t, Idle)
    BY <1>1 DEF VaultKept
<1> QED BY <1>1, <1>3, <1>4, TypeStep DEF End

\* A message arrives: the call it starts has not logged in or written anything.
LEMMA MessageKeepsTypes == TypeInv /\ Message => TypeInv'
<1> SUFFICES ASSUME TypeInv, Message PROVE TypeInv'
    OBVIOUS
<1> USE SessionAssumption DEF buildStore, At, Becomes, VaultKept
<1>0. Idle \in Call
    BY LoadedIsCall DEF TypeInv, Pcs
<1>1. CASE ConfirmPassword
    <2>1. Loaded("restore") \in Call /\ Becomes("login", Loaded("restore"))
        BY <1>1, LoadedIsCall DEF TypeInv, Pcs, ConfirmPassword
    <2>2. CallInv("login")'
        <3>1. call'["login"] = Loaded("restore")
            BY <2>1 DEF TypeInv, TypeOK, Types
        <3>2. Loaded("restore").pc = "restore" /\ Loaded("restore").todo = <<>> /\ Loaded("restore").part = "login"
            BY DEF Loaded, Idle
        <3> QED BY <1>1, <3>1, <3>2 DEF CallInv, ConfirmPassword, LogInPcs, ListPcs, wallet
    <2> QED BY <1>1, <2>1, <2>2, TypeStep DEF ConfirmPassword, wallet, TypeInv, TypeOK, Types
<1>2. CASE CreateAccount
    <2>1. Loaded("sdkCreate") \in Call /\ Becomes("create", Loaded("sdkCreate"))
        BY <1>2, LoadedIsCall DEF TypeInv, Pcs, CreateAccount
    <2>2. CallInv("create")'
        <3>1. call'["create"] = Loaded("sdkCreate")
            BY <2>1 DEF TypeInv, TypeOK, Types
        <3>2. Loaded("sdkCreate").pc = "sdkCreate" /\ Loaded("sdkCreate").todo = <<>> /\ Loaded("sdkCreate").part = "login"
            BY DEF Loaded, Idle
        <3> QED BY <1>2, <3>1, <3>2 DEF CallInv, CreateAccount, LogInPcs, ListPcs, wallet
    <2> QED BY <1>2, <2>1, <2>2, TypeStep DEF CreateAccount, wallet, TypeInv, TypeOK, Types
<1>3. CASE AddAccount
    <2>1. Loaded("ask") \in Call /\ Becomes("add", Loaded("ask"))
        BY <1>3, LoadedIsCall DEF TypeInv, Pcs, AddAccount
    <2>2. CallInv("add")'
        <3>1. call'["add"] = Loaded("ask")
            BY <2>1 DEF TypeInv, TypeOK, Types
        <3>2. Loaded("ask").pc = "ask" /\ Loaded("ask").todo = <<>> /\ Loaded("ask").part = "login"
            BY DEF Loaded, Idle
        <3> QED BY <1>3, <3>1, <3>2 DEF CallInv, AddAccount, LogInPcs, ListPcs, wallet
    <2> QED BY <1>3, <2>1, <2>2, TypeStep DEF AddAccount, wallet, TypeInv, TypeOK, Types
<1>4. CASE MakeAccountActive
    <2>1. PICK i \in DOMAIN stored.allAccounts :
              Becomes("switch", [Loaded("keyId") EXCEPT !.account = stored.allAccounts[i]])
        BY <1>4 DEF MakeAccountActive
    <2>2. stored.allAccounts[i] \in 0 .. MaxAccounts
        BY DEF TypeInv, TypeOK, Session, Accounts
    <2> DEFINE c == [Loaded("keyId") EXCEPT !.account = stored.allAccounts[i]]
    <2>3. c \in Call
        <3>1. Loaded("keyId") \in Call
            BY LoadedIsCall DEF TypeInv, Pcs
        <3> QED BY <2>2, <3>1 DEF Call
    <2>4. c.pc = "keyId" /\ c.todo = <<>> /\ c.part = "login"
        BY DEF Loaded, Idle
    <2>5. CallInv("switch")'
        BY <2>1, <2>4 DEF CallInv, LogInPcs, ListPcs, TypeInv, TypeOK, Types
    <2> HIDE DEF c
    <2> QED BY <1>4, <2>1, <2>3, <2>5, TypeStep DEF MakeAccountActive, wallet, TypeInv, TypeOK, Types, c
<1>5. CASE SignTransaction
    <2> DEFINE c == [Loaded("readKeyId") EXCEPT !.account = stored.account]
    <2>1. Becomes("sign", c)
        BY <1>5 DEF SignTransaction
    <2>2. c \in Call
        <3>1. stored.account \in 0 .. MaxAccounts /\ Loaded("readKeyId") \in Call
            BY LoadedIsCall DEF TypeInv, Pcs, TypeOK, Session
        <3> QED BY <3>1 DEF Call
    <2>3. c.pc = "readKeyId" /\ c.todo = <<>> /\ c.part = "login"
        BY DEF Loaded, Idle
    <2>4. CallInv("sign")'
        BY <2>1, <2>3 DEF CallInv, LogInPcs, ListPcs, TypeInv, TypeOK, Types
    <2> QED BY <1>5, <2>1, <2>2, <2>4, TypeStep DEF SignTransaction, wallet, TypeInv, TypeOK, Types
<1>6. CASE SignOut
    <2> DEFINE c == [Idle EXCEPT !.pc = "removeTemporary"]
    <2>1. Becomes("signOut", c)
        BY <1>6 DEF SignOut
    <2>2. c \in Call
        BY <1>0 DEF Call, Pcs
    <2>3. c.pc = "removeTemporary" /\ c.todo = <<>> /\ c.part = "login"
        BY DEF Idle
    <2>4. CallInv("signOut")'
        BY <2>1, <2>3 DEF CallInv, OnlyClears, LogInPcs, ListPcs, TypeInv, TypeOK, Types
    <2>5. initialState \in Session
        BY DEF initialState, Session
    <2> QED BY <1>6, <2>1, <2>2, <2>4, <2>5, TypeStep DEF SignOut, wallet, TypeInv, TypeOK, Types
<1> QED BY <1>1, <1>2, <1>3, <1>4, <1>5, <1>6 DEF Message

\* What is left of a list when its first element is done.
LEMMA TailShortens ==
    ASSUME NEW S, NEW q \in Seq(S), q # <<>>
    PROVE  Tail(q) \in Seq(S) /\ Len(Tail(q)) <= Len(q) /\ (Len(q) # 1 => Tail(q) # <<>>)
<1>1. Len(q) \in Nat /\ Len(q) > 0
    OBVIOUS
<1>2. Tail(q) \in Seq(S) /\ Len(Tail(q)) = Len(q) - 1
    BY <1>1
<1>3. ASSUME Len(q) # 1 PROVE Tail(q) # <<>>
    <2> DEFINE r == Tail(q)
    <2>1. r \in Seq(S) /\ Len(r) # 0
        BY <1>1, <1>2, <1>3
    <2> HIDE DEF r
    <2>2. r # <<>>
        BY <2>1
    <2> QED BY <2>2 DEF r
<1> QED BY <1>1, <1>2, <1>3

\* A secret is done with, written or not.
LEMMA NextKeepsTypes ==
    ASSUME TypeInv, NEW t \in Types, call[t].pc = "write", NextSecret(t), temp' \in [Names -> Nat],
           UNCHANGED <<stored, vault, keyIds, keyId, alarm, keys, signed>>
    PROVE  TypeInv'
<1> USE SessionAssumption DEF At, Becomes
<1>0. call[t] \in Call /\ CallInv(t) /\ call[t].state \in Session
    BY DEF TypeInv, TypeOK, Call
<1> DEFINE pc == IF Len(call[t].todo) = 1 THEN "setKey" ELSE "read"
           rest == Tail(call[t].todo)
           c == [call[t] EXCEPT !.todo = rest, !.view = Erased, !.pc = pc]
<1>1. call[t].todo \in Seq(Names) /\ call[t].todo # <<>>
    BY <1>0 DEF Call, CallInv, LogInPcs
<1>2. rest \in Seq(Names) /\ Len(rest) <= Len(call[t].todo)
      /\ (Len(call[t].todo) # 1 => rest # <<>>)
    BY <1>1, TailShortens
<1>3. Erased \in [Names -> Nat] /\ pc \in {"setKey", "read"}
    BY DEF Erased
<1>4. Becomes(t, c)
    BY DEF NextSecret
<1>5. pc = "read" => rest # <<>>
    BY <1>2
<1> HIDE DEF pc, rest
<1>6. c \in Call
    BY <1>0, <1>2, <1>3 DEF Call, Pcs
<1>7. c.pc = pc /\ c.todo = rest /\ c.part = call[t].part /\ c.account = call[t].account
    BY <1>0 DEF Call
<1>8. call'[t] = c
    BY <1>4 DEF TypeInv, TypeOK
<1>9. Len(call[t].todo) \in Nat /\ Len(rest) \in Nat
    BY <1>1, <1>2
<1>14. call[t].part \in {"login", "store"}
    BY <1>0 DEF Call
<1>10. CallInv(t)'
    <2> HIDE DEF c
    <2>1. ~(c.part = "store") => Len(rest) <= MaxAccounts
        BY <1>0, <1>2, <1>7, <1>9, <1>14 DEF CallInv
    <2>2. /\ c.pc \notin {"removeTemporary", "restore", "clear", "ask", "askAgain", "derive"} \cup ListPcs
          /\ c.pc \in LogInPcs => rest # <<>>
        BY <1>3, <1>5, <1>7 DEF LogInPcs, ListPcs
    <2> QED BY <1>0, <1>7, <1>8, <1>14, <2>1, <2>2 DEF CallInv
<1>11. VaultKept(t, c)
    BY <1>0, <1>3, <1>7 DEF VaultKept, TypeInv, VaultInv, Stores
<1>12. written' \subseteq Nat
    BY <1>0 DEF NextSecret, TypeInv, TypeOK, Call
<1> HIDE DEF c
<1> QED BY <1>4, <1>6, <1>10, <1>11, <1>12, TypeStep DEF TypeInv, TypeOK

\* The steps of loginToAllAccounts, which storeAccount has in common with it.
LEMMA LoginKeepsTypes ==
    ASSUME TypeInv, NEW t \in Types,
           RestoreWallet(t) \/ LogIn(t) \/ RemoveTemporary(t) \/ StoreSecrets(t)
    PROVE  TypeInv'
<1> USE SessionAssumption DEF At, Becomes
<1>0. call[t] \in Call /\ CallInv(t) /\ call[t].state \in Session
    BY DEF TypeInv, TypeOK, Call
<1>1. CASE RestoreWallet(t)
    <2> DEFINE s == call[t].state
               pc == IF s.account # 0 /\ s.allAccounts # <<>> THEN "removeTemporary" ELSE "logIn"
               todo == [i \in 1 .. vault |-> Secret(i)]
               c == [call[t] EXCEPT !.key = keys + 1, !.todo = todo, !.account = 1, !.pc = pc]
    <2>1. vault \in 1 .. MaxAccounts
        BY <1>0, <1>1 DEF CallInv, RestoreWallet, TypeInv, TypeOK
    <2>2. todo \in Seq(Names) /\ Len(todo) = vault /\ todo # <<>>
        <3>1. \A i \in 1 .. vault : Secret(i) \in Names
            BY <2>1 DEF Names, Accounts
        <3> QED BY <2>1, <3>1
    <2>3. pc \in {"removeTemporary", "logIn"} /\ keys + 1 \in Nat /\ 1 \in 0 .. MaxAccounts
        BY DEF TypeInv, TypeOK
    <2> HIDE DEF todo, pc
    <2>6. c \in Call
        BY <1>0, <2>2, <2>3 DEF Call, Pcs
    <2>4. Becomes(t, c)
        BY <1>0, <1>1 DEF RestoreWallet, Call, todo, pc
    <2>5. CallInv(t)'
        BY <1>1, <2>1, <2>2, <2>3, <2>4 DEF CallInv, TypeInv, TypeOK, RestoreWallet, wallet, LogInPcs, ListPcs, Accounts
    <2>7. VaultKept(t, c)
        BY <1>1, <1>0, <2>3 DEF VaultKept, RestoreWallet, TypeInv, VaultInv, Stores, Call
    <2> QED BY <1>1, <2>3, <2>4, <2>5, <2>6, <2>7, TypeStep DEF RestoreWallet, wallet, TypeInv, TypeOK
<1>2. ASSUME NEW state \in Session, NEW pc \in Pcs, Dispatch(t, state, pc),
             call[t].pc \in {"logIn", "loggingIn"},
             pc \in {"loggingIn", "read", "removeTemporary"},
             UNCHANGED <<temp, wallet, alarm, keys, signed, written>>
      PROVE  TypeInv'
    <2> DEFINE c == [call[t] EXCEPT !.state = state, !.pc = pc]
    <2>1. c \in Call /\ Becomes(t, c) /\ stored' = state
        BY <1>0, <1>2 DEF Call, Dispatch
    <2>2. c.pc = pc /\ c.todo = call[t].todo /\ c.part = call[t].part /\ c.account = call[t].account
        BY <1>0 DEF Call
    <2>3. call'[t] = c
        BY <2>1 DEF TypeInv, TypeOK
    <2>4. CallInv(t)'
        BY <1>0, <1>2, <2>2, <2>3 DEF CallInv, LogInPcs, ListPcs
    <2>5. VaultKept(t, c)
        BY <1>0, <1>2, <2>2 DEF VaultKept, TypeInv, VaultInv, Stores
    <2> HIDE DEF c
    <2> QED BY <1>2, <2>1, <2>4, <2>5, TypeStep DEF wallet, TypeInv, TypeOK
<1>3. CASE LogInPending(t)
    BY <1>0, <1>2, <1>3 DEF LogInPending, Pcs
<1>4. CASE LogInFulfilled(t)
    <2> DEFINE s == [call[t].state EXCEPT !.account = call[t].account, !.allAccounts = AllAccounts(t)]
    <2>1. AllAccounts(t) \in Seq(Accounts)
        <3>1. CASE Stores(t)
            BY <1>0, <3>1 DEF AllAccounts, Stores, CallInv, Session
        <3>2. CASE ~Stores(t)
            <4>1. Len(call[t].todo) \in 0 .. MaxAccounts
                BY <1>0, <3>2 DEF Stores, CallInv, Call
            <4>2. FirstAccounts(Len(call[t].todo)) \in Seq(Accounts)
                BY <4>1 DEF FirstAccounts, Accounts
            <4> QED BY <3>2, <4>2 DEF AllAccounts
        <3> QED BY <3>1, <3>2
    <2>2. s \in Session
        BY <1>0, <2>1 DEF Session, Call
    <2> HIDE DEF s
    <2> QED BY <1>2, <1>4, <2>2 DEF LogInFulfilled, Pcs, s
<1>5. CASE RemoveTemporary(t)
    <2>1. Erased \in [Names -> Nat] /\ temp' = Erased
        BY <1>5 DEF Erased, RemoveTemporary
    <2>2. CASE End(t)
        BY <1>5, <2>1, <2>2, EndKeepsTypes DEF RemoveTemporary, TypeInv, TypeOK, wallet
    <2>3. ASSUME NEW pc \in {"logIn", "read"}, Goto(t, pc), ~OnlyClears(t)
          PROVE  TypeInv'
        <3> DEFINE c == [call[t] EXCEPT !.pc = pc]
        <3>1. c \in Call /\ Becomes(t, c)
            BY <1>0, <2>3 DEF Call, Goto, Pcs
        <3>2. c.pc = pc /\ c.todo = call[t].todo /\ c.part = call[t].part /\ c.account = call[t].account
            BY <1>0 DEF Call
        <3>3. call'[t] = c
            BY <3>1 DEF TypeInv, TypeOK
        <3>4. CallInv(t)'
            BY <1>0, <1>5, <2>3, <3>2, <3>3 DEF CallInv, LogInPcs, ListPcs, RemoveTemporary
        <3>5. VaultKept(t, c)
            BY <1>0, <1>5, <2>3, <3>2 DEF VaultKept, TypeInv, VaultInv, Stores, RemoveTemporary
        <3> HIDE DEF c
        <3> QED BY <1>5, <2>1, <3>1, <3>4, <3>5, TypeStep DEF RemoveTemporary, wallet, TypeInv, TypeOK
    <2> QED BY <1>5, <2>2, <2>3 DEF RemoveTemporary, OnlyClears
<1>6. CASE ReadTemporary(t)
    <2> DEFINE c == [call[t] EXCEPT !.view = temp, !.pc = "write"]
    <2>1. c \in Call /\ Becomes(t, c)
        BY <1>0, <1>6 DEF Call, ReadTemporary, Pcs, TypeInv, TypeOK
    <2>2. c.pc = "write" /\ c.todo = call[t].todo /\ c.part = call[t].part /\ c.account = call[t].account
        BY <1>0 DEF Call
    <2>3. call'[t] = c
        BY <2>1 DEF TypeInv, TypeOK
    <2>4. CallInv(t)'
        BY <1>0, <1>6, <2>2, <2>3 DEF CallInv, LogInPcs, ListPcs, ReadTemporary
    <2>5. VaultKept(t, c)
        BY <1>0, <1>6, <2>2 DEF VaultKept, TypeInv, VaultInv, Stores, ReadTemporary
    <2> HIDE DEF c
    <2> QED BY <1>6, <2>1, <2>4, <2>5, TypeStep DEF ReadTemporary, wallet, TypeInv, TypeOK
<1>7. CASE WriteTemporary(t)
    <2>1. KeyFor(t, Head(call[t].todo)) \in Nat /\ call[t].view \in [Names -> Nat]
        BY <1>0 DEF KeyFor, Call
    <2>2. temp' \in [Names -> Nat]
        BY <1>7, <2>1 DEF WriteTemporary
    <2> QED BY <1>7, <2>2, NextKeepsTypes DEF WriteTemporary, wallet
<1>8. CASE StoreActiveHashKey(t)
    <2> DEFINE s == [call[t].state EXCEPT !.hashKey = call[t].key]
    <2>1. s \in Session /\ alarm' \in BOOLEAN
        BY <1>0, <1>8 DEF Session, Call, StoreActiveHashKey, TypeInv, TypeOK
    <2>2. CASE stored' = s /\ End(t)
        BY <1>8, <2>1, <2>2, EndKeepsTypes DEF StoreActiveHashKey, TypeInv, TypeOK, wallet
    <2>3. CASE AfterKey(t) # "end" /\ Dispatch(t, s, AfterKey(t))
        <3> DEFINE c == [call[t] EXCEPT !.state = s, !.pc = AfterKey(t)]
        <3>0. AfterKey(t) \in {"list", "askAgain"} /\ (AfterKey(t) = "list" <=> Stores(t))
            BY <2>3 DEF AfterKey
        <3> HIDE DEF s
        <3>1. c \in Call /\ Becomes(t, c) /\ stored' = s
            BY <1>0, <2>1, <2>3, <3>0 DEF Call, Dispatch, Pcs
        <3>2. c.pc = AfterKey(t) /\ c.todo = call[t].todo /\ c.part = call[t].part
              /\ c.account = call[t].account
            BY <1>0 DEF Call
        <3>3. call'[t] = c
            BY <3>1 DEF TypeInv, TypeOK
        <3>6. call[t].part \in {"login", "store"}
            BY <1>0 DEF Call
        <3>4. CallInv(t)'
            BY <1>0, <1>8, <3>0, <3>2, <3>3, <3>6 DEF CallInv, LogInPcs, ListPcs, StoreActiveHashKey, Stores
        <3>5. VaultKept(t, c)
            BY <1>0, <1>8, <3>0, <3>2 DEF VaultKept, TypeInv, VaultInv, Stores, StoreActiveHashKey
        <3> HIDE DEF c
        <3> QED BY <1>8, <2>1, <3>1, <3>4, <3>5, TypeStep DEF StoreActiveHashKey, wallet, TypeInv, TypeOK
    <2> QED BY <1>8, <2>2, <2>3 DEF StoreActiveHashKey
<1> QED BY <1>1, <1>3, <1>4, <1>5, <1>6, <1>7, <1>8 DEF LogIn, StoreSecrets

\* A new account is the next one of the vault, and its call is the only one
\* that could make one.
LEMMA NewAccountKeepsTypes ==
    ASSUME TypeInv, NEW t \in {"create", "add"}, NEW c \in Call, Becomes(t, c),
           vault' = vault + 1, vault' \in Accounts, CallInv(t)', c.part = "store", c.pc # "sdkCreate",
           call["create"].pc = "sdkCreate" => t = "create",
           call["add"].pc # "idle" /\ call["add"].part = "login" => t = "add",
           UNCHANGED <<stored, temp, keyIds, keyId, alarm, signed, written>>, keys' \in Nat
    PROVE  TypeInv'
<1>1. call' \in [Types -> Call] /\ \A u \in Types : CallInv(u)'
    <2>1. vault' \in Nat /\ vault' >= vault /\ t \in Types
        BY DEF TypeInv, TypeOK, Types
    <2> QED BY <2>1, CallGoesOn
<1>2. TypeOK'
    BY <1>1, SessionAssumption DEF TypeInv, TypeOK, Accounts
<1>3. VaultInv'
    <2>1. call'["create"].pc # "sdkCreate"
        BY DEF TypeInv, TypeOK, Types, Becomes
    <2>2. call'["add"].pc = "idle" \/ call'["add"].part = "store"
        <3>1. CASE t = "add"
            BY <3>1 DEF TypeInv, TypeOK, Types, Becomes
        <3>2. CASE t = "create"
            <4>1. call'["add"] = call["add"] /\ call["add"] \in Call
                BY <3>2 DEF TypeInv, TypeOK, Types, Becomes
            <4> QED BY <3>2, <4>1 DEF Call
        <3> QED BY <3>1, <3>2
    <2> QED BY <2>1, <2>2 DEF VaultInv, Stores
<1> QED BY <1>1, <1>2, <1>3 DEF TypeInv

\* The steps of createAccount, addAccount and storeAccount of their own.
LEMMA AccountKeepsTypes ==
    ASSUME TypeInv,
           SdkCreate \/ ClearBefore \/ AskPhrase \/ DeriveAccount
           \/ \E t \in Types : ListKeyStore(t)
    PROVE  TypeInv'
<1> USE SessionAssumption DEF At
<1>0. ASSUME NEW t \in Types
      PROVE call[t] \in Call /\ CallInv(t) /\ call[t].state \in Session
    BY DEF TypeInv, TypeOK, Call
<1>1. CASE SdkCreate
    <2> DEFINE todo == <<Phrase, KeyStore(1)>>
               c == [call["create"] EXCEPT !.account = 1, !.key = keys + 1, !.part = "store",
                     !.todo = todo, !.phrase = "known", !.pc = "clear"]
    <2>1. vault = 0 /\ vault' = 1 /\ keys' = keys + 1 /\ call["create"].pc = "sdkCreate"
        BY <1>1 DEF SdkCreate, TypeInv, VaultInv
    <2>2. todo \in Seq(Names) /\ todo # <<>> /\ 1 \in Accounts
        BY DEF Names, Accounts
    <2>3. call["create"] \in Call /\ keys + 1 \in Nat /\ "create" \in Types
        BY <1>0 DEF Types, TypeInv, TypeOK
    <2>4. Becomes("create", c)
        BY <1>1, <2>3 DEF SdkCreate, Storing, Call
    <2> HIDE DEF todo
    <2>5. c \in Call /\ c.part = "store" /\ c.pc = "clear" /\ c.account = 1 /\ c.todo = todo
        <3>1. 1 \in 0 .. MaxAccounts
            OBVIOUS
        <3>2. c \in Call
            BY <2>2, <2>3, <3>1 DEF Call, Pcs
        <3> QED BY <2>3, <3>2 DEF Call
    <2> HIDE DEF c
    <2>6. call'["create"] = c
        BY <2>3, <2>4 DEF Becomes, TypeInv, TypeOK
    <2>7. CallInv("create")'
        BY <2>2, <2>5, <2>6 DEF CallInv, LogInPcs, ListPcs
    <2>8. call["add"].pc = "idle" \/ call["add"].part # "login"
        BY <2>1 DEF TypeInv, VaultInv, Stores
    <2> QED BY <1>1, <2>1, <2>2, <2>3, <2>4, <2>5, <2>7, <2>8, NewAccountKeepsTypes DEF SdkCreate
<1>2. CASE ClearBefore
    <2> DEFINE s == [call["create"].state EXCEPT !.hashKey = 0]
               c == [call["create"] EXCEPT !.state = s, !.pc = "removeTemporary"]
    <2>1. call["create"] \in Call /\ CallInv("create") /\ call["create"].state \in Session /\ "create" \in Types
        BY <1>0 DEF Types
    <2>2. s \in Session
        BY <2>1 DEF Session
    <2>3. Becomes("create", c) /\ stored' = s
        BY <1>2 DEF ClearBefore, Dispatch
    <2> HIDE DEF s
    <2>4. c \in Call /\ c.part = call["create"].part /\ c.todo = call["create"].todo
          /\ c.account = call["create"].account /\ c.pc = "removeTemporary"
        BY <2>1, <2>2 DEF Call, Pcs
    <2> HIDE DEF c
    <2>5. call'["create"] = c
        BY <2>1, <2>3 DEF Becomes, TypeInv, TypeOK
    <2>6. CallInv("create")'
        BY <1>2, <2>1, <2>4, <2>5 DEF CallInv, LogInPcs, ListPcs, ClearBefore
    <2>7. VaultKept("create", c)
        BY <2>4 DEF VaultKept
    <2> QED BY <1>2, <2>1, <2>2, <2>3, <2>4, <2>6, <2>7, TypeStep DEF ClearBefore, wallet, TypeInv, TypeOK
<1>3. CASE AskPhrase
    <2>1. call["add"] \in Call /\ CallInv("add") /\ "add" \in Types
        BY <1>0 DEF Types
    <2>2. CASE End("add")
        BY <1>3, <2>1, <2>2, EndKeepsTypes DEF AskPhrase, wallet, TypeInv, TypeOK
    <2>3. ASSUME NEW phrase \in {"known", "unknown"}, NEW pc \in {"derive", "restore"},
                 Becomes("add", [call["add"] EXCEPT !.phrase = phrase, !.pc = pc])
          PROVE  TypeInv'
        <3> DEFINE c == [call["add"] EXCEPT !.phrase = phrase, !.pc = pc]
        <3>1. c \in Call /\ c.part = call["add"].part /\ c.todo = call["add"].todo
              /\ c.account = call["add"].account /\ c.pc = pc
            BY <2>1 DEF Call, Pcs
        <3>2. Becomes("add", c)
            BY <2>3
        <3> HIDE DEF c
        <3>3. call'["add"] = c
            BY <2>1, <3>2 DEF Becomes, TypeInv, TypeOK
        <3>4. call["add"].pc \in {"ask", "askAgain"} /\ vault' = vault
            BY <1>3 DEF AskPhrase, wallet
        <3>5. call["add"].part \in {"login", "store"}
            BY <2>1 DEF Call
        <3>6. vault \in 1 .. MaxAccounts - 1 \/ call["add"].part = "store"
            BY <3>4, <3>5 DEF TypeInv, VaultInv, Stores
        <3>7. CallInv("add")'
            BY <2>1, <3>1, <3>3, <3>4, <3>6 DEF CallInv, LogInPcs, ListPcs
        <3>8. VaultKept("add", c)
            BY <3>1, <3>6 DEF VaultKept
        <3> QED BY <1>3, <2>1, <3>1, <3>2, <3>7, <3>8, TypeStep DEF AskPhrase, wallet, TypeInv, TypeOK
    <2> QED BY <1>3, <2>2, <2>3 DEF AskPhrase
<1>4. CASE DeriveAccount
    <2>1. call["add"] \in Call /\ CallInv("add") /\ "add" \in Types
        BY <1>0 DEF Types
    <2>2. CASE End("add") /\ UNCHANGED vault
        BY <1>4, <2>1, <2>2, EndKeepsTypes DEF DeriveAccount, TypeInv, TypeOK
    <2>3. CASE vault' = vault + 1
        <3> DEFINE a == vault + 1
                   k == call["add"].state.hashKey
                   todo == <<Phrase, KeyStore(a)>>
                   c == [call["add"] EXCEPT !.account = a, !.key = k, !.part = "store",
                         !.todo = todo, !.pc = "logIn"]
        <3>1. call["add"].pc = "derive" /\ call["add"].part = "login" /\ vault \in 1 .. MaxAccounts - 1
            BY <1>4, <2>1 DEF DeriveAccount, TypeInv, VaultInv, Stores, CallInv, Call
        <3>2. a \in Accounts /\ a \in 0 .. MaxAccounts /\ k \in Nat
            BY <2>1, <3>1 DEF Accounts, Call, Session
        <3>3. todo \in Seq(Names) /\ todo # <<>>
            BY <3>2 DEF Names
        <3>4. Becomes("add", c)
            BY <1>4, <2>1, <2>3, <3>2 DEF DeriveAccount, Storing, Call, End
        <3> HIDE DEF todo, a, k
        <3>5. c \in Call
            BY <2>1, <3>2, <3>3 DEF Call, Pcs
        <3>6. c.part = "store" /\ c.pc = "logIn" /\ c.account = a /\ c.todo = todo
            BY <2>1, <3>5 DEF Call
        <3> HIDE DEF c
        <3>7. call'["add"] = c
            BY <2>1, <3>4 DEF Becomes, TypeInv, TypeOK
        <3>8. CallInv("add")'
            BY <3>2, <3>3, <3>6, <3>7 DEF CallInv, LogInPcs, ListPcs
        <3>9. call["create"].pc # "sdkCreate" /\ vault' \in Accounts
            BY <2>3, <3>1, <3>2 DEF TypeInv, VaultInv, a
        <3> QED BY <1>4, <2>3, <3>4, <3>5, <3>6, <3>8, <3>9, NewAccountKeepsTypes
                DEF DeriveAccount, TypeInv, TypeOK
    <2> QED BY <1>4, <2>2, <2>3 DEF DeriveAccount
\* A step through the list of the key stores.
<1>5. ASSUME NEW t \in Types, NEW c \in Call, Becomes(t, c), call[t].pc \in ListPcs, c.pc \in ListPcs,
             c.part = call[t].part, c.account = call[t].account, c.todo = call[t].todo,
             keyIds' \in Seq(Accounts), keyId' \in 0 .. MaxAccounts,
             UNCHANGED <<stored, temp, vault, alarm, keys, signed, written>>
      PROVE  TypeInv'
    <2>1. call'[t] = c /\ call[t].part = "store"
        BY <1>0, <1>5 DEF Becomes, TypeInv, TypeOK, CallInv
    <2>2. CallInv(t)'
        BY <1>0, <1>5, <2>1 DEF CallInv, LogInPcs, ListPcs
    <2>3. VaultKept(t, c)
        BY <1>5, <2>1 DEF VaultKept, ListPcs
    <2> QED BY <1>5, <2>2, <2>3, TypeStep DEF TypeInv, TypeOK
<1>6. ASSUME NEW t \in Types, ReadKeyIdList(t) PROVE TypeInv'
    <2> DEFINE c == [call[t] EXCEPT !.ids = keyIds, !.pc = "writeList"]
    <2>1. c \in Call /\ c.part = call[t].part /\ c.account = call[t].account /\ c.todo = call[t].todo
          /\ c.pc = "writeList"
        BY <1>0, <1>6 DEF Call, Pcs, TypeInv, TypeOK
    <2>2. Becomes(t, c)
        BY <1>6 DEF ReadKeyIdList
    <2> HIDE DEF c
    <2> QED BY <1>5, <1>6, <2>1, <2>2 DEF ReadKeyIdList, ListPcs, TypeInv, TypeOK, wallet
\* The two writes, of the list and of the active key store.
<1>7. ASSUME NEW t \in Types, NEW pc \in {"writeKeyId", "nameAccount"}, Goto(t, pc), call[t].pc \in ListPcs,
             keyIds' \in Seq(Accounts), keyId' \in 0 .. MaxAccounts,
             UNCHANGED <<stored, temp, vault, alarm, keys, signed, written>>
      PROVE  TypeInv'
    <2> DEFINE c == [call[t] EXCEPT !.pc = pc]
    <2>1. c \in Call /\ c.part = call[t].part /\ c.account = call[t].account /\ c.todo = call[t].todo
          /\ c.pc = pc
        BY <1>0 DEF Call, Pcs
    <2>2. Becomes(t, c)
        BY <1>7 DEF Goto
    <2> HIDE DEF c
    <2> QED BY <1>5, <1>7, <2>1, <2>2 DEF ListPcs
<1>8. ASSUME NEW t \in Types, WriteKeyIdList(t) \/ WriteKeyId(t) PROVE TypeInv'
    <2>1. call[t].account \in Accounts /\ call[t].account \in 0 .. MaxAccounts /\ call[t].ids \in Seq(Accounts)
        BY <1>0, <1>8 DEF WriteKeyIdList, WriteKeyId, CallInv, ListPcs, Accounts, Call
    <2>2. keyIds' \in Seq(Accounts) /\ keyId' \in 0 .. MaxAccounts
        <3>1. CASE WriteKeyIdList(t)
            BY <2>1, <3>1 DEF WriteKeyIdList, TypeInv, TypeOK
        <3>2. CASE WriteKeyId(t)
            BY <2>1, <3>2 DEF WriteKeyId, TypeInv, TypeOK
        <3> QED BY <1>8, <3>1, <3>2
    <2> QED BY <1>7, <1>8, <2>2 DEF WriteKeyIdList, WriteKeyId, ListPcs
<1>9. ASSUME NEW t \in Types, NameAccount(t) PROVE TypeInv'
    <2>1. alarm' \in BOOLEAN
        BY <1>9 DEF NameAccount
    <2> QED BY <1>9, <2>1, EndKeepsTypes DEF NameAccount, TypeInv, TypeOK, wallet
<1> QED BY <1>1, <1>2, <1>3, <1>4, <1>6, <1>8, <1>9 DEF ListKeyStore

\* A call that fails ends, or locks the wallet first.
LEMMA FailKeepsTypes ==
    ASSUME TypeInv, NEW t \in Types, Fails(t)
    PROVE  TypeInv'
<1> USE SessionAssumption DEF At
<1>0. call[t] \in Call /\ CallInv(t) /\ call[t].state \in Session
    BY DEF TypeInv, TypeOK, Call
<1>1. CASE SkipSecret(t)
    BY <1>1, NextKeepsTypes DEF SkipSecret, wallet, TypeInv, TypeOK
<1>2. CASE CallFails(t) /\ End(t) /\ UNCHANGED stored
    BY <1>2, EndKeepsTypes DEF CallFails, wallet, TypeInv, TypeOK
<1>3. CASE CallFails(t) /\ t = "add" /\ Stores(t)
           /\ Dispatch(t, [call[t].state EXCEPT !.hashKey = 0], "removeTemporary")
    <2> DEFINE s == [call[t].state EXCEPT !.hashKey = 0]
               c == [call[t] EXCEPT !.state = s, !.pc = "removeTemporary"]
    <2>1. s \in Session
        BY <1>0 DEF Session
    <2>2. Becomes(t, c) /\ stored' = s
        BY <1>3 DEF Dispatch
    <2> HIDE DEF s
    <2>3. c \in Call /\ c.pc = "removeTemporary" /\ c.part = "store" /\ c.account = call[t].account
        BY <1>0, <1>3, <2>1 DEF Call, Pcs, Stores
    <2> HIDE DEF c
    <2>4. call'[t] = c
        BY <2>2 DEF Becomes, TypeInv, TypeOK
    <2>5. CallInv(t)'
        BY <1>0, <1>3, <2>3, <2>4 DEF CallInv, LogInPcs, ListPcs, OnlyClears, Stores
    <2>6. VaultKept(t, c)
        BY <1>3, <2>3 DEF VaultKept
    <2> QED BY <1>3, <2>1, <2>2, <2>3, <2>5, <2>6, TypeStep DEF CallFails, wallet, TypeInv, TypeOK
<1> QED BY <1>1, <1>2, <1>3 DEF Fails, CallFails

\* The steps of the other calls.
LEMMA OtherKeepsTypes ==
    ASSUME TypeInv,
           ActivatePublicKey \/ SetActivePublicKey \/ ReadKeyId \/ SignWithKey
           \/ ClearSession \/ Restart
    PROVE  TypeInv'
<1> USE SessionAssumption DEF At
<1>0. ASSUME NEW t \in Types
      PROVE call[t] \in Call /\ CallInv(t) /\ call[t].state \in Session
    BY DEF TypeInv, TypeOK, Call
\* A step that only moves on, or notes a key, on a call with nothing to write.
<1>1. ASSUME NEW t \in Types \ {"create", "add"}, NEW c \in Call, Becomes(t, c),
             c.pc \in {"pending", "fulfilled", "sign", "removeTemporary"},
             c.pc = "removeTemporary" => t = "timeout",
             c.part = call[t].part, c.todo = call[t].todo, c.account = call[t].account,
             stored' \in Session, keyId' \in 0 .. MaxAccounts, alarm' \in BOOLEAN,
             UNCHANGED <<temp, vault, keyIds, keys, signed, written>>
      PROVE  TypeInv'
    <2>1. call'[t] = c
        BY <1>1 DEF Becomes, TypeInv, TypeOK
    <2>2. CallInv(t)'
        BY <1>0, <1>1, <2>1 DEF CallInv, LogInPcs, ListPcs, OnlyClears
    <2>3. VaultKept(t, c)
        BY <1>1 DEF VaultKept
    <2> QED BY <1>1, <2>2, <2>3, TypeStep DEF TypeInv, TypeOK
<1>2. CASE ActivatePublicKey
    <2> DEFINE c == [call["switch"] EXCEPT !.pc = "pending"]
    <2>1. c \in Call /\ c.part = call["switch"].part /\ c.todo = call["switch"].todo
          /\ c.account = call["switch"].account /\ c.pc = "pending"
        BY <1>0 DEF Call, Pcs, Types
    <2>2. Becomes("switch", c)
        BY <1>2 DEF ActivatePublicKey, Goto
    <2> HIDE DEF c
    <2>3. keyId' \in 0 .. MaxAccounts
        BY <1>2 DEF ActivatePublicKey, TypeInv, TypeOK, Accounts
    <2> QED BY <1>1, <1>2, <2>1, <2>2, <2>3 DEF ActivatePublicKey, Types, TypeInv, TypeOK
<1>3. CASE SetActivePublicKey
    <2> DEFINE s == [call["switch"].state EXCEPT !.account = call["switch"].account]
               c == [call["switch"] EXCEPT !.state = call["switch"].state, !.pc = "fulfilled"]
    <2>1. call["switch"] \in Call /\ call["switch"].state \in Session
        BY <1>0 DEF Types
    <2>2. s \in Session
        BY <2>1 DEF Session, Call
    <2>3. c \in Call /\ c.part = call["switch"].part /\ c.todo = call["switch"].todo
          /\ c.account = call["switch"].account /\ c.pc = "fulfilled"
        BY <2>1 DEF Call, Pcs
    <2>4. CASE Becomes("switch", c) /\ stored' = call["switch"].state
        <3> HIDE DEF c
        <3> QED BY <1>1, <1>3, <2>1, <2>3, <2>4 DEF SetActivePublicKey, Types, TypeInv, TypeOK, wallet
    <2>5. CASE End("switch") /\ stored' = s
        BY <1>3, <2>2, <2>5, EndKeepsTypes DEF SetActivePublicKey, Types, TypeInv, TypeOK, wallet
    <2> QED BY <1>3, <2>4, <2>5 DEF SetActivePublicKey, Dispatch
<1>4. CASE ReadKeyId
    <2> DEFINE c == [call["sign"] EXCEPT !.key = keyId, !.pc = "sign"]
    <2>0. keyId \in Nat /\ call["sign"] \in Call
        BY <1>0 DEF TypeInv, TypeOK, Types
    <2>1. c \in Call /\ c.part = call["sign"].part /\ c.todo = call["sign"].todo
          /\ c.account = call["sign"].account /\ c.pc = "sign"
        BY <2>0 DEF Call, Pcs
    <2>2. Becomes("sign", c)
        BY <1>4 DEF ReadKeyId
    <2> HIDE DEF c
    <2> QED BY <1>1, <1>4, <2>1, <2>2 DEF ReadKeyId, Types, TypeInv, TypeOK, wallet
<1>5. CASE SignWithKey
    <2>1. call["sign"] \in Call
        BY <1>0 DEF Types
    <2>2. signed' \subseteq (0 .. MaxAccounts) \X Nat
        BY <1>5, <2>1 DEF SignWithKey, TypeInv, TypeOK, Call, Accounts
    <2> QED BY <1>5, <2>2, EndKeepsTypes DEF SignWithKey, Types, TypeInv, TypeOK, wallet
<1>6. CASE ClearSession
    <2> DEFINE c == [call["timeout"] EXCEPT !.pc = "removeTemporary"]
    <2>1. c \in Call /\ c.part = call["timeout"].part /\ c.todo = call["timeout"].todo
          /\ c.account = call["timeout"].account /\ c.pc = "removeTemporary"
        BY <1>0 DEF Call, Pcs, Types
    <2>2. Becomes("timeout", c) /\ stored' \in Session /\ alarm' \in BOOLEAN
        BY <1>6 DEF ClearSession, Goto, TypeInv, TypeOK, Session
    <2> HIDE DEF c
    <2> QED BY <1>1, <1>6, <2>1, <2>2 DEF ClearSession, Types, TypeInv, TypeOK, wallet
<1>7. CASE Restart
    <2>1. Idle \in Call /\ Idle.pc = "idle" /\ Idle.todo = <<>> /\ Idle.part = "login"
        BY LoadedIsCall DEF Idle, TypeInv, Pcs
    <2>2. call' = [t \in Types |-> Idle] /\ UNCHANGED <<stored, temp, wallet, alarm, keys, signed, written>>
        BY <1>7 DEF Restart
    <2>3. TypeOK'
        BY <2>1, <2>2 DEF TypeInv, TypeOK, wallet
    <2>4. VaultInv' /\ \A t \in Types : CallInv(t)'
        BY <2>1, <2>2 DEF VaultInv, CallInv, Types, LogInPcs, ListPcs
    <2> QED BY <2>3, <2>4 DEF TypeInv
<1> QED BY <1>2, <1>3, <1>4, <1>5, <1>6, <1>7

\* Every step keeps the types and what they rest on.
LEMMA StepKeepsTypes == TypeInv /\ [Next]_vars => TypeInv'
<1> SUFFICES ASSUME TypeInv, [Next]_vars PROVE TypeInv'
    OBVIOUS
<1>1. CASE Message
    BY <1>1, MessageKeepsTypes
<1>2. ASSUME NEW t \in Types, Step(t) PROVE TypeInv'
    BY <1>2, LoginKeepsTypes, AccountKeepsTypes, OtherKeepsTypes DEF Step
<1>3. ASSUME NEW t \in Types, Fails(t) PROVE TypeInv'
    BY <1>3, FailKeepsTypes
<1>4. CASE ClearSession \/ Restart
    BY <1>4, OtherKeepsTypes
<1>5. CASE UNCHANGED vars
    BY <1>5 DEF vars, wallet, TypeInv, TypeOK, VaultInv, CallInv, Stores, OnlyClears
<1> QED BY <1>1, <1>2, <1>3, <1>4, <1>5 DEF Next

(* TypeOK, for any number of accounts and of calls.                        *)
THEOREM SessionTypes == Spec => []TypeOK
<1>1. Init => TypeInv
    BY InitHolds
<1>2. TypeInv /\ [Next]_vars => TypeInv'
    BY StepKeepsTypes
<1>3. TypeInv => TypeOK
    BY DEF TypeInv
<1> QED BY <1>1, <1>2, <1>3, PTL DEF Spec

\* What every step must show of the call it takes on to keep UnlockInv.
LEMMA UnlockStep ==
    ASSUME UnlockInv, TypeInv, NEW t \in Types, NEW c, Becomes(t, c),
           written \subseteq written',
           c.state.hashKey \in {0} \cup written, c.pc = "setKey" => c.key \in written',
           stored'.hashKey \in {0} \cup written
    PROVE  UnlockInv'
<1>1. ASSUME NEW u \in Types PROVE CallUnlocks(u)'
    <2>1. CASE u = t
        BY <2>1 DEF CallUnlocks, Becomes, TypeInv, TypeOK
    <2>2. CASE u # t
        BY <2>2 DEF CallUnlocks, Becomes, TypeInv, TypeOK, UnlockInv
    <2> QED BY <2>1, <2>2
<1> QED BY <1>1 DEF UnlockInv, UnlockFollowsSecrets

\* No step saves, or is about to save, a key before its secrets are stored.
LEMMA StepKeepsUnlock == TypeInv /\ UnlockInv /\ [Next]_vars => UnlockInv'
<1> SUFFICES ASSUME TypeInv, UnlockInv, [Next]_vars PROVE UnlockInv'
    OBVIOUS
<1>0. ASSUME NEW t \in Types
      PROVE  call[t] \in Call /\ CallUnlocks(t) /\ Idle.pc = "idle"
    BY DEF TypeInv, TypeOK, UnlockInv, Idle
<1>1. ASSUME NEW t \in Types, NEW state, NEW pc, Dispatch(t, state, pc), pc # "setKey",
             UNCHANGED written, state.hashKey \in {0} \cup written
      PROVE  UnlockInv'
    <2> DEFINE c == [call[t] EXCEPT !.state = state, !.pc = pc]
    <2>1. c.state = state /\ c.pc = pc
        BY <1>0 DEF Call
    <2>2. Becomes(t, c) /\ stored' = state
        BY <1>1 DEF Dispatch
    <2> HIDE DEF c
    <2> QED BY <1>1, <2>1, <2>2, UnlockStep
<1>2. ASSUME NEW t \in Types, End(t), UNCHANGED written, stored'.hashKey \in {0} \cup written
      PROVE  UnlockInv'
    <2>1. Idle.state.hashKey = 0 /\ Idle.pc # "setKey"
        BY DEF Idle, initialState
    <2> QED BY <1>2, <2>1, UnlockStep DEF End
<1>3. stored.hashKey \in {0} \cup written
    BY DEF UnlockInv, UnlockFollowsSecrets
<1>4. CASE Message
    <2>1. ASSUME NEW t \in Types, NEW c, buildStore(t, c), c.pc # "setKey",
                 c.state = stored \/ c.state = initialState,
                 stored' = stored \/ stored' = initialState, UNCHANGED written
          PROVE  UnlockInv'
        <3>1. initialState.hashKey = 0
            BY DEF initialState
        <3> QED BY <1>3, <2>1, <3>1, UnlockStep DEF buildStore
    <2>2. \A pc \in Pcs : Loaded(pc).pc = pc /\ Loaded(pc).state = stored
        BY DEF Loaded, Idle
    <2>3. ASSUME NEW pc \in Pcs, NEW a
          PROVE  [Loaded(pc) EXCEPT !.account = a].pc = pc /\ [Loaded(pc) EXCEPT !.account = a].state = stored
        BY DEF Loaded, Idle
    <2>4. [Idle EXCEPT !.pc = "removeTemporary"].pc = "removeTemporary"
          /\ [Idle EXCEPT !.pc = "removeTemporary"].state = initialState
        BY DEF Idle
    <2>5. CASE ConfirmPassword
        BY <2>1, <2>2, <2>5 DEF ConfirmPassword, Types, Pcs
    <2>6. CASE CreateAccount
        BY <2>1, <2>2, <2>6 DEF CreateAccount, Types, Pcs
    <2>7. CASE AddAccount
        BY <2>1, <2>2, <2>7 DEF AddAccount, Types, Pcs
    <2>8. CASE MakeAccountActive
        <3>1. PICK i \in DOMAIN stored.allAccounts :
                  buildStore("switch", [Loaded("keyId") EXCEPT !.account = stored.allAccounts[i]])
            BY <2>8 DEF MakeAccountActive
        <3> DEFINE c == [Loaded("keyId") EXCEPT !.account = stored.allAccounts[i]]
        <3>2. c.pc = "keyId" /\ c.state = stored
            BY <2>3 DEF Pcs
        <3>3. buildStore("switch", c)
            BY <3>1
        <3> HIDE DEF c
        <3> QED BY <2>1, <2>8, <3>2, <3>3 DEF MakeAccountActive, Types
    <2>9. CASE SignTransaction
        <3> DEFINE c == [Loaded("readKeyId") EXCEPT !.account = stored.account]
        <3>2. c.pc = "readKeyId" /\ c.state = stored
            BY <2>3 DEF Pcs
        <3>3. buildStore("sign", c)
            BY <2>9 DEF SignTransaction
        <3> HIDE DEF c
        <3> QED BY <2>1, <2>9, <3>2, <3>3 DEF SignTransaction, Types
    <2>10. CASE SignOut
        BY <2>1, <2>4, <2>10 DEF SignOut, Types, Pcs
    <2> QED BY <1>4, <2>5, <2>6, <2>7, <2>8, <2>9, <2>10 DEF Message
\* Moving on to pc, from a record that keeps the call's own state.
<1>5. ASSUME NEW t \in Types, NEW c, Becomes(t, c), UNCHANGED written,
             c.state = call[t].state, c.pc # "setKey",
             stored' = stored \/ stored'.hashKey = 0
      PROVE  UnlockInv'
    BY <1>0, <1>3, <1>5, UnlockStep DEF CallUnlocks
<1>6. ASSUME NEW t \in Types, NEW pc, Goto(t, pc), UNCHANGED written, pc # "setKey",
             stored' = stored \/ stored'.hashKey = 0
      PROVE  UnlockInv'
    <2> DEFINE c == [call[t] EXCEPT !.pc = pc]
    <2>1. c.state = call[t].state /\ c.pc = pc
        BY <1>0 DEF Call
    <2>2. Becomes(t, c)
        BY <1>6 DEF Goto
    <2> HIDE DEF c
    <2> QED BY <1>5, <1>6, <2>1, <2>2
\* The last of the secrets is done with before the key may be saved.
<1>n. ASSUME NEW t \in Types, NextSecret(t), UNCHANGED stored PROVE UnlockInv'
    <2> DEFINE last == Len(call[t].todo) = 1
               c == [call[t] EXCEPT !.todo = Tail(call[t].todo), !.view = Erased,
                                    !.pc = IF last THEN "setKey" ELSE "read"]
    <2>1. c.state = call[t].state /\ c.key = call[t].key /\ (c.pc = "setKey" => last)
        BY <1>0 DEF Call
    <2>2. Becomes(t, c)
        BY <1>n DEF NextSecret
    <2>3. written' = IF last THEN written \cup {call[t].key} ELSE written
        BY <1>n DEF NextSecret
    <2> HIDE DEF c, last
    <2> QED BY <1>0, <1>3, <1>n, <2>1, <2>2, <2>3, UnlockStep DEF CallUnlocks
<1>7. ASSUME NEW t \in Types, Step(t) PROVE UnlockInv'
    <2>1. CASE RestoreWallet(t)
        <3> DEFINE s == call[t].state
                   pc == IF s.account # 0 /\ s.allAccounts # <<>> THEN "removeTemporary" ELSE "logIn"
                   c == [call[t] EXCEPT !.key = keys + 1, !.todo = [i \in 1 .. vault |-> Secret(i)],
                                        !.account = 1, !.pc = pc]
        <3>1. c.state = call[t].state /\ c.pc # "setKey"
            BY <1>0 DEF Call
        <3>2. Becomes(t, c)
            BY <2>1 DEF RestoreWallet
        <3> HIDE DEF c
        <3> QED BY <1>5, <2>1, <3>1, <3>2 DEF RestoreWallet
    <2>2. CASE LogInPending(t)
        BY <1>0, <1>1, <2>2 DEF LogInPending, CallUnlocks
    <2>3. CASE LogInFulfilled(t)
        <3> DEFINE s == [call[t].state EXCEPT !.account = call[t].account, !.allAccounts = AllAccounts(t)]
        <3>1. s.hashKey \in {0} \cup written
            BY <1>0 DEF Call, Session, CallUnlocks
        <3> HIDE DEF s
        <3> QED BY <1>1, <2>3, <3>1 DEF LogInFulfilled, s
    <2>4. CASE RemoveTemporary(t)
        BY <1>2, <1>3, <1>6, <2>4 DEF RemoveTemporary
    <2>5. CASE ReadTemporary(t)
        <3> DEFINE c == [call[t] EXCEPT !.view = temp, !.pc = "write"]
        <3>1. c.state = call[t].state /\ c.pc # "setKey" /\ Becomes(t, c)
            BY <1>0, <2>5 DEF Call, ReadTemporary
        <3> HIDE DEF c
        <3> QED BY <1>5, <2>5, <3>1 DEF ReadTemporary
    <2>6. CASE WriteTemporary(t)
        BY <1>n, <2>6 DEF WriteTemporary
    <2>7. CASE StoreActiveHashKey(t)
        <3> DEFINE s == [call[t].state EXCEPT !.hashKey = call[t].key]
        <3>1. s.hashKey \in {0} \cup written
            BY <1>0, <2>7 DEF Call, Session, CallUnlocks, StoreActiveHashKey, At
        <3>2. AfterKey(t) # "setKey"
            BY DEF AfterKey
        <3> HIDE DEF s
        <3> QED BY <1>1, <1>2, <2>7, <3>1, <3>2 DEF StoreActiveHashKey, s
    <2>8. CASE ListKeyStore(t)
        <3>1. ASSUME ReadKeyIdList(t) PROVE UnlockInv'
            <4> DEFINE c == [call[t] EXCEPT !.ids = keyIds, !.pc = "writeList"]
            <4>1. c.state = call[t].state /\ c.pc # "setKey" /\ Becomes(t, c)
                BY <1>0, <3>1 DEF Call, ReadKeyIdList
            <4> HIDE DEF c
            <4> QED BY <1>5, <3>1, <4>1 DEF ReadKeyIdList
        <3>2. ASSUME WriteKeyIdList(t) \/ WriteKeyId(t) PROVE UnlockInv'
            BY <1>6, <3>2 DEF WriteKeyIdList, WriteKeyId
        <3>3. ASSUME NameAccount(t) PROVE UnlockInv'
            BY <1>2, <1>3, <3>3 DEF NameAccount
        <3> QED BY <2>8, <3>1, <3>2, <3>3 DEF ListKeyStore
    <2>9. CASE t = "create" /\ SdkCreate
        <3> DEFINE c == [call["create"] EXCEPT !.account = 1, !.key = keys + 1, !.part = "store",
                         !.todo = <<Phrase, KeyStore(1)>>, !.phrase = "known", !.pc = "clear"]
        <3>1. c.state = call["create"].state /\ c.pc # "setKey"
            BY <1>0 DEF Call, Types
        <3>2. Becomes("create", c)
            BY <1>0, <2>9 DEF SdkCreate, Storing, Call, Types
        <3> HIDE DEF c
        <3> QED BY <1>5, <2>9, <3>1, <3>2 DEF SdkCreate
    <2>10. CASE t = "create" /\ ClearBefore
        <3> DEFINE s == [call["create"].state EXCEPT !.hashKey = 0]
        <3>1. s.hashKey = 0
            BY <1>0, <2>10 DEF Call, Session
        <3> HIDE DEF s
        <3> QED BY <1>1, <2>10, <3>1 DEF ClearBefore, s
    <2>11. CASE t = "add" /\ AskPhrase
        <3>1. CASE End("add")
            BY <1>2, <1>3, <2>11, <3>1 DEF AskPhrase
        <3>2. ASSUME NEW phrase, NEW pc \in {"derive", "restore"},
                     Becomes("add", [call["add"] EXCEPT !.phrase = phrase, !.pc = pc])
              PROVE  UnlockInv'
            <4> DEFINE c == [call["add"] EXCEPT !.phrase = phrase, !.pc = pc]
            <4>1. c.state = call["add"].state /\ c.pc # "setKey" /\ Becomes("add", c)
                BY <1>0, <2>11, <3>2 DEF Call
            <4> HIDE DEF c
            <4> QED BY <1>5, <2>11, <4>1 DEF AskPhrase
        <3> QED BY <2>11, <3>1, <3>2 DEF AskPhrase
    <2>12. CASE t = "add" /\ DeriveAccount
        <3> DEFINE a == vault + 1
                   c == [call["add"] EXCEPT !.account = a, !.key = call["add"].state.hashKey,
                         !.part = "store", !.todo = <<Phrase, KeyStore(a)>>, !.pc = "logIn"]
        <3>1. c.state = call["add"].state /\ c.pc # "setKey"
            BY <1>0 DEF Call, Types
        <3>2. End("add") \/ Becomes("add", c)
            BY <1>0, <2>12 DEF DeriveAccount, Storing, Call, Types
        <3> HIDE DEF c
        <3> QED BY <1>2, <1>3, <1>5, <2>12, <3>1, <3>2 DEF DeriveAccount
    <2>13. CASE t = "switch" /\ ActivatePublicKey
        BY <1>6, <2>13 DEF ActivatePublicKey
    <2>14. CASE t = "switch" /\ SetActivePublicKey
        <3> DEFINE s == [call["switch"].state EXCEPT !.account = call["switch"].account]
        <3>1. s.hashKey = call["switch"].state.hashKey
            BY <1>0, <2>14 DEF Call, Session
        <3> HIDE DEF s
        <3> QED BY <1>0, <1>1, <1>2, <2>14, <3>1 DEF SetActivePublicKey, CallUnlocks, s
    <2>15. CASE t = "sign" /\ ReadKeyId
        <3> DEFINE c == [call["sign"] EXCEPT !.key = keyId, !.pc = "sign"]
        <3>1. c.state = call["sign"].state /\ c.pc # "setKey" /\ Becomes("sign", c)
            BY <1>0, <2>15 DEF Call, ReadKeyId
        <3> HIDE DEF c
        <3> QED BY <1>5, <2>15, <3>1 DEF ReadKeyId
    <2>16. CASE t = "sign" /\ SignWithKey
        BY <1>2, <1>3, <2>16 DEF SignWithKey
    <2> QED BY <1>7, <2>1, <2>2, <2>3, <2>4, <2>5, <2>6, <2>7, <2>8, <2>9, <2>10, <2>11, <2>12,
               <2>13, <2>14, <2>15, <2>16 DEF Step, LogIn, StoreSecrets
<1>8. CASE ClearSession
    <2>1. stored'.hashKey = 0
        BY <1>8 DEF ClearSession, TypeInv, TypeOK, Session
    <2> QED BY <1>6, <1>8, <2>1 DEF ClearSession, Types
<1>9. CASE Restart
    <2>1. \A t \in Types : call'[t] = Idle
        BY <1>9 DEF Restart
    <2> QED BY <1>3, <1>9, <2>1
            DEF Restart, UnlockInv, UnlockFollowsSecrets, CallUnlocks, Idle, initialState
<1>10. CASE UNCHANGED vars
    BY <1>10 DEF vars, UnlockInv, UnlockFollowsSecrets, CallUnlocks
<1>11. ASSUME NEW t \in Types, Fails(t) PROVE UnlockInv'
    <2>1. CASE SkipSecret(t)
        BY <1>n, <2>1 DEF SkipSecret
    <2>2. ASSUME CallFails(t), Dispatch(t, [call[t].state EXCEPT !.hashKey = 0], "removeTemporary")
          PROVE  UnlockInv'
        <3> DEFINE s == [call[t].state EXCEPT !.hashKey = 0]
        <3>1. s.hashKey = 0
            BY <1>0 DEF Call, Session
        <3> HIDE DEF s
        <3> QED BY <1>1, <2>2, <3>1 DEF CallFails, s
    <2>3. ASSUME CallFails(t), End(t), UNCHANGED stored PROVE UnlockInv'
        BY <1>2, <1>3, <2>3 DEF CallFails
    <2> QED BY <1>11, <2>1, <2>2, <2>3 DEF Fails, CallFails
<1> QED BY <1>4, <1>7, <1>8, <1>9, <1>10, <1>11 DEF Next

(* UnlockFollowsSecrets: however calls overlap, whatever a stale save puts *)
(* back, whichever await fails and wherever the worker is lost, the saved  *)
(* session is unlocked only with the key of a call that is through with    *)
(* its secrets: each was stored, or its write failed in a login.           *)
THEOREM SessionUnlocksAfterSecrets == Spec => []UnlockFollowsSecrets
<1>1. Init => TypeInv /\ UnlockInv
    BY InitHolds
<1>2. TypeInv /\ UnlockInv /\ [Next]_vars => TypeInv' /\ UnlockInv'
    BY StepKeepsTypes, StepKeepsUnlock
<1>3. UnlockInv => UnlockFollowsSecrets
    BY DEF UnlockInv
<1> QED BY <1>1, <1>2, <1>3, PTL DEF Spec

-----------------------------------------------------------------------------
(* Calls that run alone: what the store looks like at each step of each.   *)

\* At most one call is being handled, and one that is not has left nothing.
OneCall ==
    /\ \A t, u \in Types : call[t].pc # "idle" /\ call[u].pc # "idle" => t = u
    /\ \A t \in Types : call[t].pc = "idle" => call[t] = Idle

Secrets(n) == [i \in 1 .. n |-> Secret(i)]
Listed(n) == stored.allAccounts = FirstAccounts(n)
Indexed(n) == keyIds = FirstAccounts(n)

\* Every secret is under the key, and every account has one, or will have
\* when what is left to write is written.
OnlyKey(key) == \A n \in Names : temp[n] \in {0, key}
Held(a, key, todo) ==
    \E n \in {Secret(a), KeyStore(a)} : temp[n] = key \/ \E i \in DOMAIN todo : todo[i] = n
Filled(key, todo) == OnlyKey(key) /\ \A a \in 1 .. vault : Held(a, key, todo)

\* KEY_ID names the account on show, or a key store without a secret.
KeyIdHarmless == keyId # 0 /\ temp[KeyStore(keyId)] # 0 => keyId = stored.account

\* The state between calls; Base is what a switch of accounts leaves of it.
Base ==
    /\ stored.allAccounts = <<>> \/ Listed(vault)
    /\ stored.hashKey # 0 => Listed(vault) /\ Filled(stored.hashKey, <<>>)
    /\ OnlyKey(stored.hashKey)
    /\ Indexed(vault)
Settled == Base /\ KeyIdHarmless

\* The secrets a login writes are none of a key store.
NoKeyStores(todo) ==
    \A a \in Accounts : temp[KeyStore(a)] = 0 /\ \A i \in DOMAIN todo : todo[i] # KeyStore(a)

Locks(t) == t \in {"signOut", "timeout"}

\* Where a call that runs alone finds the store, by what it does next.
LookPhase(t, c) ==
    /\ c.pc \in {"restore", "ask", "askAgain", "derive", "keyId", "readKeyId", "sign", "sdkCreate"}
           => Settled /\ c.part = "login"
    /\ c.pc \in {"askAgain", "derive", "keyId"} => Listed(vault)
    /\ c.pc = "keyId" => c.account \in 1 .. vault
    /\ c.pc \in {"pending", "fulfilled"} => Base /\ keyId = c.account
    /\ c.pc \in {"readKeyId", "sign"} => c.account = stored.account
    /\ c.pc = "sign" => c.key = keyId

LoginPhase(t, c) ==
    c.part = "login" =>
        /\ c.pc \in {"logIn", "loggingIn"} => c.todo = Secrets(vault) /\ Indexed(vault)
        /\ c.pc = "removeTemporary" =>
               /\ Indexed(vault)
               /\ Locks(t) => stored.hashKey = 0 /\ (stored.allAccounts = <<>> \/ Listed(vault))
               /\ ~Locks(t) => c.todo = Secrets(vault) /\ Listed(vault)
        /\ c.pc \in {"read", "write", "setKey"} =>
               Filled(c.key, c.todo) /\ NoKeyStores(c.todo) /\ Listed(vault) /\ Indexed(vault)

StorePhase(t, c) ==
    /\ c.pc \in {"clear"} \cup ListPcs => c.part = "store"
    /\ c.part = "store" =>
        /\ c.account = vault /\ vault > 0
        /\ c.pc \notin {"writeKeyId", "nameAccount"} => Indexed(vault - 1)
        /\ c.pc \in {"clear", "removeTemporary"} =>
               t = "create" /\ vault = 1 /\ c.todo = <<Phrase, KeyStore(1)>> /\ Listed(0)
        /\ c.pc \in {"logIn", "loggingIn"} => Listed(vault - 1) /\ Filled(c.key, c.todo)
        /\ c.pc \in {"read", "write", "setKey"} \cup ListPcs => Listed(vault) /\ stored.account = vault
        /\ c.pc \in {"read", "write", "setKey"} => Filled(c.key, c.todo)
        /\ c.pc \in ListPcs => Filled(stored.hashKey, <<>>)
        /\ c.pc = "writeList" => c.ids = keyIds
        /\ c.pc \in {"writeKeyId", "nameAccount"} => Indexed(vault)
        /\ c.pc = "nameAccount" => keyId = vault

PhaseOf(t, c) ==
    /\ Locks(t) => c.pc = "removeTemporary"
    /\ ~Locks(t) => c.state = stored
    /\ c.pc = "write" => c.view = temp
    /\ c.pc = "setKey" => c.todo = <<>>
    /\ LookPhase(t, c) /\ LoginPhase(t, c) /\ StorePhase(t, c)

AloneInv ==
    undisturbed =>
        /\ OneCall
        /\ \A s \in signed : s[1] = s[2]
        /\ Quiet => Settled
        /\ \A t \in Types : call[t].pc # "idle" => PhaseOf(t, call[t])

\* The lists of the first accounts.
LEMMA FirstOfNone == FirstAccounts(0) = <<>>
BY DEF FirstAccounts

LEMMA FirstAndNext ==
    ASSUME NEW n \in Nat
    PROVE  Append(FirstAccounts(n), n + 1) = FirstAccounts(n + 1)
<1>1. FirstAccounts(n) \in Seq(Nat) /\ Len(FirstAccounts(n)) = n
    BY DEF FirstAccounts
<1> QED BY <1>1 DEF FirstAccounts

LEMMA FirstIsSecret ==
    ASSUME NEW n \in Nat
    PROVE  /\ Len(Secrets(n)) = n
           /\ \A i \in DOMAIN Secrets(n) : Secrets(n)[i] = Secret(i)
           /\ DOMAIN Secrets(n) = 1 .. n
BY DEF Secrets

\* What a call writes under is a name of its own.
LEMMA NamesApart ==
    ASSUME NEW a, NEW b
    PROVE  /\ Secret(a) # KeyStore(b) /\ Phrase # Secret(a) /\ Phrase # KeyStore(a)
           /\ (KeyStore(a) = KeyStore(b) => a = b)
BY DEF Secret, KeyStore, Phrase

LEMMA NamesOfAccounts ==
    ASSUME NEW a \in Accounts
    PROVE  Secret(a) \in Names /\ KeyStore(a) \in Names
BY DEF Names

\* A call that runs alone goes on, to c: the store must be as c expects it.
LEMMA SoloStep ==
    ASSUME TypeInv, NEW t \in Types, NEW c \in Call, Becomes(t, c),
           \A u \in Types : u # t => call[u] = Idle,
           \A s \in signed' : s[1] = s[2],
           c.pc = "idle" => c = Idle /\ Settled',
           c.pc # "idle" => PhaseOf(t, c)'
    PROVE  AloneInv'
<1>1. call'[t] = c /\ \A u \in Types : u # t => call'[u] = Idle
    BY DEF Becomes, TypeInv, TypeOK
<1>2. Idle.pc = "idle"
    BY DEF Idle
<1>3. OneCall'
    BY <1>1, <1>2 DEF OneCall
<1>4. Quiet' => Settled'
    BY <1>1 DEF Quiet
<1>5. ASSUME NEW u \in Types, call'[u].pc # "idle" PROVE PhaseOf(u, call[u])'
    <2>1. u = t /\ call'[u] = c
        BY <1>1, <1>2, <1>5
    <2> QED BY <1>5, <2>1 DEF PhaseOf, LookPhase, LoginPhase, StorePhase, ListPcs
<1> QED BY <1>3, <1>4, <1>5 DEF AloneInv

\* A step of a call that runs alone: no other is being handled.
LEMMA StepIsSolo ==
    ASSUME TypeInv, AloneInv, undisturbed', NEW t \in Types, Step(t)
    PROVE  /\ undisturbed /\ call[t] \in Call /\ CallInv(t)
           /\ \A u \in Types : u # t => call[u] = Idle
           /\ PhaseOf(t, call[t])
           /\ \A s \in signed : s[1] = s[2]
<1>1. call[t] \in Call /\ CallInv(t)
    BY DEF TypeInv, TypeOK
<1>2. call[t].pc # "idle"
    BY DEF Step, LogIn, StoreSecrets, RestoreWallet, LogInPending, LogInFulfilled, RemoveTemporary,
           ReadTemporary, WriteTemporary, StoreActiveHashKey, ListKeyStore, ReadKeyIdList, WriteKeyIdList, WriteKeyId,
           NameAccount, SdkCreate, ClearBefore,
           AskPhrase, DeriveAccount, ActivatePublicKey, SetActivePublicKey, ReadKeyId, SignWithKey, At
<1>3. UNCHANGED bounds
    BY DEF Step, LogIn, StoreSecrets, RestoreWallet, LogInPending, LogInFulfilled, RemoveTemporary,
           ReadTemporary, WriteTemporary, StoreActiveHashKey, ListKeyStore, ReadKeyIdList, WriteKeyIdList, WriteKeyId,
           NameAccount, SdkCreate, ClearBefore,
           AskPhrase, DeriveAccount, ActivatePublicKey, SetActivePublicKey, ReadKeyId, SignWithKey
<1>4. undisturbed
    BY <1>3 DEF undisturbed, bounds
<1> QED BY <1>1, <1>2, <1>4 DEF AloneInv, OneCall

\* Logging in, up to the erased store: the accounts listed are the SDK's.
LEMMA LoginAlone ==
    ASSUME TypeInv, AloneInv, undisturbed', NEW t \in Types, Step(t),
           RestoreWallet(t) \/ LogIn(t) \/ RemoveTemporary(t)
    PROVE  AloneInv'
<1>0. /\ call[t] \in Call /\ CallInv(t)
      /\ \A u \in Types : u # t => call[u] = Idle
      /\ PhaseOf(t, call[t])
      /\ \A s \in signed : s[1] = s[2]
    BY StepIsSolo
<1> USE DEF At
<1>v. vault \in Nat /\ stored \in Session
    BY DEF TypeInv, TypeOK
<1>1. CASE RestoreWallet(t)
    <2>1. call[t].pc = "restore" /\ ~Locks(t) /\ Settled /\ call[t].part = "login" /\ call[t].state = stored
        BY <1>0, <1>1 DEF RestoreWallet, PhaseOf, LookPhase
    <2> DEFINE s == call[t].state
               pc == IF s.account # 0 /\ s.allAccounts # <<>> THEN "removeTemporary" ELSE "logIn"
    <2>2. vault \in 1 .. MaxAccounts
        BY <1>0, <2>1 DEF CallInv, TypeInv, TypeOK
    <2>3. Secrets(vault) \in Seq(Names)
        <3>1. \A i \in 1 .. vault : Secret(i) \in Names
            BY <1>v, <2>2, SessionAssumption, NamesOfAccounts DEF Accounts
        <3> QED BY <1>v, <3>1 DEF Secrets
    <2>4. PICK c \in Call : c = [call[t] EXCEPT !.key = keys + 1, !.todo = Secrets(vault), !.account = 1, !.pc = pc]
        <3>1. pc \in Pcs /\ keys + 1 \in Nat /\ 1 \in 0 .. MaxAccounts
            BY SessionAssumption DEF Pcs, TypeInv, TypeOK
        <3> HIDE DEF pc
        <3> QED BY <1>0, <2>3, <3>1 DEF Call
    <2>5. Becomes(t, c)
        BY <1>1, <2>4 DEF RestoreWallet, Secrets
    <2>6. /\ c.pc \in {"removeTemporary", "logIn"} /\ (c.pc = "removeTemporary" => stored.allAccounts # <<>>)
          /\ c.todo = Secrets(vault) /\ c.part = "login" /\ c.state = stored
        BY <1>0, <2>1, <2>4 DEF Call
    <2>7. Indexed(vault) /\ (c.pc = "removeTemporary" => Listed(vault))
        BY <2>1, <2>6 DEF Settled, Base
    <2>8. UNCHANGED <<stored, temp, wallet, signed>>
        BY <1>1 DEF RestoreWallet
    <2>9. PhaseOf(t, c)'
        BY <2>1, <2>6, <2>7, <2>8 DEF PhaseOf, LookPhase, LoginPhase, StorePhase, ListPcs, Locks, Indexed, Listed, wallet
    <2> QED BY <1>0, <2>5, <2>6, <2>8, <2>9, SoloStep
<1>2. CASE LogInPending(t)
    <2>1. call[t].pc = "logIn" /\ ~Locks(t) /\ call[t].state = stored
        BY <1>0, <1>2 DEF LogInPending, PhaseOf
    <2>2. PICK c \in Call : c = [call[t] EXCEPT !.pc = "loggingIn"]
        BY <1>0 DEF Call, Pcs
    <2>3. /\ c.pc = "loggingIn" /\ c.todo = call[t].todo /\ c.part = call[t].part /\ c.state = stored
          /\ c.account = call[t].account /\ c.key = call[t].key
        BY <1>0, <2>1, <2>2 DEF Call
    <2>4. [call[t] EXCEPT !.state = call[t].state, !.pc = "loggingIn"] = c
        BY <1>0, <2>2 DEF Call
    <2>5. Becomes(t, c) /\ UNCHANGED <<stored, temp, wallet, signed>>
        BY <1>2, <2>1, <2>4 DEF LogInPending, Dispatch
    <2>6. PhaseOf(t, c)'
        BY <1>0, <2>1, <2>3, <2>5 DEF PhaseOf, LookPhase, LoginPhase, StorePhase, ListPcs, Locks, Indexed, Listed,
           Filled, OnlyKey, Held, wallet
    <2> QED BY <1>0, <2>3, <2>5, <2>6, SoloStep
<1>3. CASE LogInFulfilled(t)
    <2>1. call[t].pc = "loggingIn" /\ ~Locks(t) /\ call[t].state = stored /\ AllAccounts(t) \in Seq(Accounts)
        <3>1. call[t].pc = "loggingIn" /\ ~Locks(t) /\ call[t].state = stored
            BY <1>0, <1>3 DEF LogInFulfilled, PhaseOf
        <3>2. AllAccounts(t) \in Seq(Accounts)
            <4>1. ASSUME Stores(t) PROVE AllAccounts(t) \in Seq(Accounts)
                <5>1. call[t].account \in Accounts /\ call[t].state.allAccounts \in Seq(Accounts)
                    BY <1>0, <4>1 DEF Stores, CallInv, Call, Session
                <5> QED BY <4>1, <5>1 DEF AllAccounts
            <4>2. ASSUME ~Stores(t) PROVE AllAccounts(t) \in Seq(Accounts)
                <5>1. Len(call[t].todo) \in 0 .. MaxAccounts
                    BY <1>0, <4>2 DEF Stores, CallInv, Call
                <5>2. FirstAccounts(Len(call[t].todo)) \in Seq(Accounts)
                    BY <5>1, SessionAssumption DEF FirstAccounts, Accounts
                <5> QED BY <4>2, <5>2 DEF AllAccounts
            <4> QED BY <4>1, <4>2
        <3> QED BY <3>1, <3>2
    <2> DEFINE s == [call[t].state EXCEPT !.account = call[t].account, !.allAccounts = AllAccounts(t)]
               pc == IF Stores(t) THEN "read" ELSE "removeTemporary"
    <2>2. s \in Session /\ pc \in Pcs /\ s.allAccounts = AllAccounts(t) /\ s.account = call[t].account
        BY <1>0, <2>1 DEF Session, Call, Pcs
    <2>3. PICK c \in Call : c = [call[t] EXCEPT !.state = s, !.pc = pc]
        <3> HIDE DEF s, pc
        <3> QED BY <1>0, <2>2 DEF Call
    <2>4. /\ c.pc = pc /\ c.todo = call[t].todo /\ c.part = call[t].part /\ c.state = s
          /\ c.account = call[t].account /\ c.key = call[t].key
        <3> HIDE DEF s, pc
        <3> QED BY <1>0, <2>3 DEF Call
    <2>5. Becomes(t, c) /\ stored' = s /\ UNCHANGED <<temp, wallet, signed>>
        BY <1>3, <2>3 DEF LogInFulfilled, Dispatch
    <2>6. CASE Stores(t)
        <3>1. pc = "read" /\ c.part = "store" /\ c.account = vault /\ vault > 0 /\ Indexed(vault - 1)
              /\ Listed(vault - 1) /\ Filled(c.key, c.todo)
            BY <1>0, <2>1, <2>4, <2>6 DEF PhaseOf, StorePhase, ListPcs, Stores
        <3>2. AllAccounts(t) = FirstAccounts(vault)
            <4>1. vault - 1 \in Nat /\ vault - 1 + 1 = vault
                BY <1>v, <3>1
            <4> QED BY <2>1, <2>4, <2>6, <3>1, <4>1, FirstAndNext DEF AllAccounts, Listed
        <3>3. stored'.allAccounts = FirstAccounts(vault) /\ stored'.account = vault
            BY <2>2, <2>4, <2>5, <3>1, <3>2
        <3> HIDE DEF s, pc
        <3>4. PhaseOf(t, c)'
            BY <2>1, <2>4, <2>5, <3>1, <3>3 DEF PhaseOf, LookPhase, LoginPhase, StorePhase, ListPcs, Locks, Indexed,
               Listed, Filled, OnlyKey, Held, wallet
        <3> QED BY <1>0, <2>4, <2>5, <3>1, <3>4, SoloStep
    <2>7. CASE ~Stores(t)
        <3>1. pc = "removeTemporary" /\ c.part = "login" /\ c.todo = Secrets(vault) /\ Indexed(vault)
            BY <1>0, <2>1, <2>4, <2>7 DEF PhaseOf, LoginPhase, Stores, Call
        <3>2. stored'.allAccounts = FirstAccounts(vault)
            BY <1>v, <2>2, <2>4, <2>5, <2>7, <3>1, FirstIsSecret DEF AllAccounts
        <3> HIDE DEF s, pc
        <3>4. PhaseOf(t, c)'
            BY <2>1, <2>4, <2>5, <3>1, <3>2 DEF PhaseOf, LookPhase, LoginPhase, StorePhase, ListPcs, Locks, Indexed,
               Listed, wallet
        <3> QED BY <1>0, <2>4, <2>5, <3>1, <3>4, SoloStep
    <2> QED BY <2>6, <2>7
<1>4. CASE RemoveTemporary(t)
    <2>1. call[t].pc = "removeTemporary" /\ temp' = Erased /\ UNCHANGED <<stored, wallet, signed>>
        BY <1>4 DEF RemoveTemporary
    <2>2. \A n \in Names : temp'[n] = 0
        BY <2>1 DEF Erased
    <2>3. CASE Locks(t)
        <3>1. call[t].part = "login"
            BY <1>0, <2>1, <2>3 DEF PhaseOf, StorePhase, ListPcs, Call, Locks
        <3>2. Indexed(vault) /\ stored.hashKey = 0 /\ (stored.allAccounts = <<>> \/ Listed(vault))
            BY <1>0, <2>1, <2>3, <3>1 DEF PhaseOf, LoginPhase
        <3>3. keyId \in 0 .. MaxAccounts
            BY DEF TypeInv, TypeOK
        <3>4. KeyIdHarmless'
            <4>1. CASE keyId # 0
                BY <2>1, <2>2, <3>3, <4>1, SessionAssumption, NamesOfAccounts DEF KeyIdHarmless, wallet, Accounts
            <4>2. CASE keyId = 0
                BY <2>1, <4>2 DEF KeyIdHarmless, wallet
            <4> QED BY <4>1, <4>2
        <3>5. Settled'
            BY <2>1, <2>2, <3>2, <3>4 DEF Settled, Base, OnlyKey, Listed, Indexed, wallet
        <3>6. PICK c \in Call : c = Idle
            BY LoadedIsCall DEF TypeInv, Pcs
        <3>7. Becomes(t, c)
            BY <1>4, <2>3, <3>6 DEF RemoveTemporary, OnlyClears, Locks, End
        <3>8. c.pc = "idle"
            BY <3>6 DEF Idle
        <3> QED BY <1>0, <2>1, <3>5, <3>6, <3>7, <3>8, SoloStep
    <2>4. CASE ~Locks(t)
        <3>1. call[t].state = stored /\ call[t].pc = "removeTemporary"
            BY <1>0, <2>1, <2>4 DEF PhaseOf
        <3> DEFINE pc == IF t = "create" THEN "logIn" ELSE "read"
        <3>2. PICK c \in Call : c = [call[t] EXCEPT !.pc = pc]
            BY <1>0 DEF Call, Pcs
        <3>3. /\ c.pc = pc /\ c.todo = call[t].todo /\ c.part = call[t].part /\ c.state = stored
              /\ c.account = call[t].account /\ c.key = call[t].key
            BY <1>0, <3>1, <3>2 DEF Call
        <3>o. ~OnlyClears(t)
            BY <1>0, <2>1, <2>4 DEF OnlyClears, Locks, Stores, PhaseOf, StorePhase, ListPcs
        <3>4. Becomes(t, c)
            BY <1>4, <3>2, <3>o DEF RemoveTemporary, Goto
        <3>5. CASE call[t].part = "login"
            <4>1. c.todo = Secrets(vault) /\ Listed(vault) /\ Indexed(vault)
                BY <1>0, <2>1, <2>4, <3>3, <3>5 DEF PhaseOf, LoginPhase
            <4>2. Filled(c.key, c.todo)' /\ NoKeyStores(c.todo)'
                <5>1. OnlyKey(c.key)'
                    BY <2>2 DEF OnlyKey
                <5>2. \A a \in 1 .. vault : Held(a, c.key, c.todo)'
                    BY <1>v, <4>1, FirstIsSecret DEF Held
                <5>3. NoKeyStores(c.todo)'
                    BY <1>v, <2>2, <4>1, FirstIsSecret, NamesOfAccounts, NamesApart DEF NoKeyStores
                <5> QED BY <2>1, <5>1, <5>2, <5>3 DEF Filled, wallet
            <4>3. PhaseOf(t, c)'
                BY <2>1, <2>4, <3>3, <3>5, <4>1, <4>2 DEF PhaseOf, LookPhase, LoginPhase, StorePhase, ListPcs, Locks,
                   Indexed, Listed, wallet
            <4> QED BY <1>0, <2>1, <3>3, <3>4, <4>3, SoloStep
        <3>6. CASE call[t].part = "store"
            <4>1. t = "create" /\ vault = 1 /\ c.todo = <<Phrase, KeyStore(1)>> /\ Listed(0)
                  /\ c.account = vault /\ Indexed(vault - 1)
                BY <1>0, <2>1, <2>4, <3>3, <3>6 DEF PhaseOf, StorePhase, ListPcs
            <4>2. Filled(c.key, c.todo)'
                <5>1. OnlyKey(c.key)'
                    BY <2>2 DEF OnlyKey
                <5>2. \A a \in 1 .. vault : Held(a, c.key, c.todo)'
                    BY <4>1 DEF Held
                <5> QED BY <2>1, <5>1, <5>2 DEF Filled, wallet
            <4>3. PhaseOf(t, c)'
                BY <2>1, <2>4, <3>3, <3>6, <4>1, <4>2 DEF PhaseOf, LookPhase, LoginPhase, StorePhase, ListPcs, Locks,
                   Indexed, Listed, wallet
            <4> QED BY <1>0, <2>1, <3>3, <3>4, <4>3, SoloStep
        <3> QED BY <1>0, <3>5, <3>6 DEF Call
    <2> QED BY <2>3, <2>4
<1> QED BY <1>1, <1>2, <1>3, <1>4 DEF LogIn

\* What a write of the first of the names left does to what is held.
LEMMA WriteKeeps ==
    ASSUME NEW key, NEW todo \in Seq(Names), todo # <<>>, OnlyKey(key), temp \in [Names -> Nat],
           NEW value, value \in {0, key}, Head(todo) # Phrase => value = key,
           temp' = [temp EXCEPT ![Head(todo)] = value]
    PROVE  /\ OnlyKey(key)'
           /\ \A a \in Accounts : Held(a, key, todo) => Held(a, key, Tail(todo))'
           /\ NoKeyStores(todo) => NoKeyStores(Tail(todo))'
<1>1. Head(todo) = todo[1] /\ Len(todo) \in Nat /\ Len(todo) > 0 /\ 1 \in DOMAIN todo
      /\ Head(todo) \in Names
    OBVIOUS
<1>2. \A n \in Names : temp'[n] = IF n = Head(todo) THEN value ELSE temp[n]
    OBVIOUS
<1>3. /\ \A i \in DOMAIN todo : i # 1 => i - 1 \in DOMAIN Tail(todo) /\ Tail(todo)[i - 1] = todo[i]
      /\ \A i \in DOMAIN Tail(todo) : i + 1 \in DOMAIN todo /\ Tail(todo)[i] = todo[i + 1]
    BY <1>1
<1>4. OnlyKey(key)'
    BY <1>2 DEF OnlyKey
<1>5. ASSUME NEW a \in Accounts, Held(a, key, todo) PROVE Held(a, key, Tail(todo))'
    <2>1. PICK n \in {Secret(a), KeyStore(a)} : temp[n] = key \/ \E i \in DOMAIN todo : todo[i] = n
        BY <1>5 DEF Held
    <2>2. n \in Names /\ n # Phrase
        BY NamesOfAccounts, NamesApart
    <2>3. CASE n = Head(todo)
        BY <1>2, <2>1, <2>2, <2>3 DEF Held
    <2>4. CASE n # Head(todo) /\ temp[n] = key
        BY <1>2, <2>1, <2>2, <2>4 DEF Held
    <2>5. ASSUME n # Head(todo), NEW i \in DOMAIN todo, todo[i] = n
          PROVE  Held(a, key, Tail(todo))'
        BY <1>1, <1>3, <2>1, <2>5 DEF Held
    <2> QED BY <2>1, <2>3, <2>4, <2>5
<1>6. ASSUME NoKeyStores(todo) PROVE NoKeyStores(Tail(todo))'
    <2>1. \A a \in Accounts : temp[KeyStore(a)] = 0 /\ KeyStore(a) # Head(todo) /\ KeyStore(a) \in Names
        BY <1>1, <1>6, NamesOfAccounts DEF NoKeyStores
    <2>2. \A a \in Accounts : temp'[KeyStore(a)] = 0
        BY <1>2, <2>1
    <2>3. \A a \in Accounts : \A i \in DOMAIN Tail(todo) : Tail(todo)[i] # KeyStore(a)
        BY <1>3, <1>6 DEF NoKeyStores
    <2> QED BY <2>2, <2>3 DEF NoKeyStores
<1> QED BY <1>4, <1>5, <1>6

\* Writing the secrets, and saving the key when all are written.
LEMMA StoreAlone ==
    ASSUME TypeInv, AloneInv, undisturbed', NEW t \in Types, Step(t),
           StoreSecrets(t) \/ ListKeyStore(t)
    PROVE  AloneInv'
<1>0. /\ call[t] \in Call /\ CallInv(t)
      /\ \A u \in Types : u # t => call[u] = Idle
      /\ PhaseOf(t, call[t])
      /\ \A s \in signed : s[1] = s[2]
    BY StepIsSolo
<1> USE DEF At
<1>v. vault \in 0 .. MaxAccounts /\ vault \in Nat /\ stored \in Session /\ temp \in [Names -> Nat]
    BY DEF TypeInv, TypeOK
<1>p. ASSUME call[t].pc \in {"read", "write", "setKey"} \cup ListPcs
      PROVE  ~Locks(t) /\ call[t].state = stored
    BY <1>0, <1>p DEF PhaseOf, ListPcs
<1>1. CASE ReadTemporary(t)
    <2>1. call[t].pc = "read" /\ ~Locks(t) /\ call[t].state = stored
        BY <1>1, <1>p DEF ReadTemporary
    <2>2. PICK c \in Call : c = [call[t] EXCEPT !.view = temp, !.pc = "write"]
        BY <1>0, <1>v DEF Call, Pcs
    <2>3. /\ c.pc = "write" /\ c.view = temp /\ c.todo = call[t].todo /\ c.part = call[t].part
          /\ c.state = stored /\ c.account = call[t].account /\ c.key = call[t].key
        BY <1>0, <2>1, <2>2 DEF Call
    <2>4. Becomes(t, c) /\ UNCHANGED <<stored, temp, wallet, signed>>
        BY <1>1, <2>2 DEF ReadTemporary
    <2>5. PhaseOf(t, c)'
        BY <1>0, <2>1, <2>3, <2>4 DEF PhaseOf, LookPhase, LoginPhase, StorePhase, ListPcs, Locks, Indexed, Listed,
           Filled, OnlyKey, Held, NoKeyStores, wallet
    <2> QED BY <1>0, <2>3, <2>4, <2>5, SoloStep
<1>2. CASE WriteTemporary(t)
    <2>1. /\ call[t].pc = "write" /\ ~Locks(t) /\ call[t].state = stored /\ call[t].view = temp
          /\ call[t].todo \in Seq(Names) /\ call[t].todo # <<>>
        BY <1>0, <1>2, <1>p DEF WriteTemporary, PhaseOf, CallInv, LogInPcs, Call
    <2> DEFINE todo == call[t].todo
               pc == IF Len(todo) = 1 THEN "setKey" ELSE "read"
    <2>2. Tail(todo) \in Seq(Names) /\ (Len(todo) = 1 => Tail(todo) = <<>>)
        <3>1. Tail(todo) \in Seq(Names) /\ Len(Tail(todo)) = Len(todo) - 1
            BY <2>1
        <3>2. PICK r \in Seq(Names) : r = Tail(todo)
            BY <3>1
        <3> HIDE DEF todo
        <3>3. Len(todo) = 1 => Len(r) = 0
            BY <3>1, <3>2
        <3>4. Len(r) = 0 => r = <<>>
            OBVIOUS
        <3> QED BY <3>1, <3>2, <3>3, <3>4
    <2>3. PICK c \in Call : c = [call[t] EXCEPT !.todo = Tail(todo), !.view = Erased, !.pc = pc]
        <3>1. pc \in Pcs /\ Erased \in [Names -> Nat]
            BY DEF Pcs, Erased
        <3> HIDE DEF pc
        <3> QED BY <1>0, <2>2, <3>1 DEF Call
    <2>4. /\ c.pc \in {"setKey", "read"} /\ (c.pc = "setKey" => c.todo = <<>>)
          /\ c.todo = Tail(todo) /\ c.part = call[t].part
          /\ c.state = stored /\ c.account = call[t].account /\ c.key = call[t].key
        BY <1>0, <2>1, <2>2, <2>3 DEF Call
    <2>5. Becomes(t, c) /\ UNCHANGED <<stored, wallet, signed>>
        BY <1>2, <2>3 DEF WriteTemporary, NextSecret
    <2>6. PICK value : value = KeyFor(t, Head(todo))
        OBVIOUS
    <2>7. temp' = [temp EXCEPT ![Head(todo)] = value]
        BY <1>2, <2>1, <2>6 DEF WriteTemporary
    <2>8. value \in {0, c.key} /\ (Head(todo) # Phrase => value = c.key)
        BY <2>4, <2>6 DEF KeyFor
    <2>9. ASSUME Filled(c.key, todo) PROVE Filled(c.key, c.todo)'
        <3>1. OnlyKey(c.key)' /\ \A a \in Accounts : Held(a, c.key, todo) => Held(a, c.key, c.todo)'
            BY <1>v, <2>1, <2>4, <2>7, <2>8, <2>9, WriteKeeps DEF Filled
        <3>2. 1 .. vault \subseteq Accounts
            BY <1>v, SessionAssumption DEF Accounts
        <3> QED BY <2>5, <2>9, <3>1, <3>2 DEF Filled, wallet
    <2>10. ASSUME Filled(c.key, todo), NoKeyStores(todo) PROVE NoKeyStores(c.todo)'
        BY <1>v, <2>1, <2>4, <2>7, <2>8, <2>10, WriteKeeps DEF Filled
    <2>11. PhaseOf(t, c)'
        <3>1. LookPhase(t, c)'
            BY <2>4 DEF LookPhase
        <3>2. LoginPhase(t, c)'
            BY <1>0, <2>1, <2>4, <2>5, <2>9, <2>10 DEF PhaseOf, LoginPhase, Indexed, Listed, wallet
        <3>3. StorePhase(t, c)'
            BY <1>0, <2>1, <2>4, <2>5, <2>9 DEF PhaseOf, StorePhase, ListPcs, Indexed, Listed, wallet
        <3> QED BY <2>1, <2>4, <2>5, <3>1, <3>2, <3>3 DEF PhaseOf, Locks
    <2> QED BY <1>0, <2>4, <2>5, <2>11, SoloStep
<1>3. CASE StoreActiveHashKey(t)
    <2>1. call[t].pc = "setKey" /\ ~Locks(t) /\ call[t].state = stored /\ call[t].todo = <<>>
        BY <1>0, <1>3, <1>p DEF StoreActiveHashKey, PhaseOf
    <2>2. PICK s \in Session : s = [stored EXCEPT !.hashKey = call[t].key]
        BY <1>0, <1>v DEF Session, Call
    <2>3. s.hashKey = call[t].key /\ s.account = stored.account /\ s.allAccounts = stored.allAccounts
        BY <1>v, <2>2 DEF Session
    <2>4. stored' = s /\ UNCHANGED <<temp, wallet, signed>>
        BY <1>3, <2>1, <2>2 DEF StoreActiveHashKey, Dispatch
    <2>5. Listed(vault)' /\ Filled(stored.hashKey, <<>>)'
        <3>1. Listed(vault) /\ Filled(call[t].key, <<>>)
            BY <1>0, <2>1 DEF PhaseOf, LoginPhase, StorePhase, ListPcs, Call
        <3> QED BY <2>3, <2>4, <3>1 DEF Listed, Filled, OnlyKey, Held, wallet
    <2>6. ASSUME AfterKey(t) # "end"
          PROVE  \E c \in Call : /\ Becomes(t, c) /\ c.pc = AfterKey(t) /\ c.state = s
                                 /\ c.part = call[t].part /\ c.account = call[t].account
        <3>1. PICK c \in Call : c = [call[t] EXCEPT !.state = s, !.pc = AfterKey(t)]
            <4>1. AfterKey(t) \in Pcs
                BY <2>6 DEF AfterKey, Pcs
            <4> QED BY <1>0, <2>2, <4>1 DEF Call
        <3>2. /\ c.pc = AfterKey(t) /\ c.state = s
              /\ c.part = call[t].part /\ c.account = call[t].account
            BY <1>0, <3>1 DEF Call
        <3>3. Becomes(t, c)
            BY <1>3, <2>1, <2>2, <2>6, <3>1 DEF StoreActiveHashKey, Dispatch
        <3> QED BY <3>2, <3>3
    <2>7. CASE Stores(t)
        <3>1. AfterKey(t) = "list"
            BY <2>7 DEF AfterKey
        <3>2. PICK c \in Call : /\ Becomes(t, c) /\ c.pc = "list" /\ c.state = s
                                /\ c.part = "store" /\ c.account = call[t].account
            BY <2>6, <2>7, <3>1 DEF Stores
        <3>3. call[t].account = vault /\ vault > 0 /\ Indexed(vault - 1) /\ stored.account = vault
            BY <1>0, <2>1, <2>7 DEF PhaseOf, StorePhase, ListPcs, Stores
        <3>4. PhaseOf(t, c)'
            BY <2>1, <2>3, <2>4, <2>5, <3>2, <3>3 DEF PhaseOf, LookPhase, LoginPhase, StorePhase, ListPcs, Locks,
               Indexed, wallet
        <3> QED BY <1>0, <2>4, <3>2, <3>4, SoloStep
    <2>8. CASE ~Stores(t)
        <3>1. call[t].part = "login"
            BY <1>0, <2>8 DEF Stores, Call
        <3>2. NoKeyStores(<<>>) /\ Indexed(vault)
            BY <1>0, <2>1, <3>1 DEF PhaseOf, LoginPhase
        <3>3. KeyIdHarmless'
            <4>1. keyId' = 0 \/ keyId' \in Accounts
                BY <2>4, SessionAssumption DEF TypeInv, TypeOK, Accounts, wallet
            <4>2. \A a \in Accounts : temp'[KeyStore(a)] = 0
                BY <2>4, <3>2 DEF NoKeyStores
            <4> QED BY <4>1, <4>2 DEF KeyIdHarmless
        <3>4. Settled'
            <4>1. Indexed(vault)'
                BY <2>4, <3>2 DEF Indexed, wallet
            <4>2. OnlyKey(stored.hashKey)'
                BY <2>5 DEF Filled
            <4> QED BY <2>5, <3>3, <4>1, <4>2 DEF Settled, Base
        <3>5. CASE t = "add"
            <4>1. PICK c \in Call : /\ Becomes(t, c) /\ c.pc = "askAgain" /\ c.state = s /\ c.part = "login"
                BY <2>6, <2>8, <3>1, <3>5 DEF AfterKey
            <4>2. PhaseOf(t, c)'
                BY <2>1, <2>4, <2>5, <3>4, <4>1 DEF PhaseOf, LookPhase, LoginPhase, StorePhase, ListPcs, Locks
            <4> QED BY <1>0, <2>4, <4>1, <4>2, SoloStep
        <3>6. CASE t # "add"
            <4>1. PICK c \in Call : c = Idle
                BY LoadedIsCall DEF TypeInv, Pcs
            <4>2. Becomes(t, c)
                BY <1>3, <2>8, <3>6, <4>1 DEF StoreActiveHashKey, AfterKey, End
            <4>3. c.pc = "idle"
                BY <4>1 DEF Idle
            <4> QED BY <1>0, <2>4, <3>4, <4>1, <4>2, <4>3, SoloStep
        <3> QED BY <3>5, <3>6
    <2> QED BY <2>7, <2>8
<1>l. ASSUME call[t].pc \in ListPcs
      PROVE  /\ ~Locks(t) /\ call[t].state = stored /\ call[t].part = "store"
             /\ call[t].account = vault /\ vault > 0 /\ Listed(vault)
             /\ stored.account = vault /\ Filled(stored.hashKey, <<>>)
             /\ call[t].pc \in {"list", "writeList"} => Indexed(vault - 1)
             /\ call[t].pc = "writeList" => call[t].ids = keyIds
             /\ call[t].pc \in {"writeKeyId", "nameAccount"} => Indexed(vault)
             /\ call[t].pc = "nameAccount" => keyId = vault
    BY <1>0, <1>p, <1>l DEF PhaseOf, StorePhase, ListPcs
\* A step from one of the list's writes to the next.
<1>n. ASSUME call[t].pc \in ListPcs, UNCHANGED <<stored, temp, vault, signed>>,
             NEW c \in Call, Becomes(t, c), c.pc \in ListPcs \ {"list"},
             c.part = call[t].part, c.state = call[t].state, c.account = call[t].account,
             c.pc = "writeList" => c.ids = keyIds' /\ Indexed(vault - 1)',
             c.pc \in {"writeKeyId", "nameAccount"} => Indexed(vault)',
             c.pc = "nameAccount" => keyId' = vault
      PROVE  AloneInv'
    <2>1. Filled(stored.hashKey, <<>>)' /\ Listed(vault)'
        BY <1>l, <1>n DEF Filled, OnlyKey, Held, Listed
    <2>2. c.part = "store" /\ c.state = stored' /\ c.account = vault' /\ vault' > 0 /\ stored'.account = vault'
        BY <1>l, <1>n
    <2>3. StorePhase(t, c)'
        BY <1>n, <2>1, <2>2 DEF StorePhase, ListPcs
    <2>4. PhaseOf(t, c)'
        BY <1>l, <1>n, <2>2, <2>3 DEF PhaseOf, LookPhase, LoginPhase, ListPcs
    <2>5. c.pc # "idle"
        BY <1>n DEF ListPcs
    <2> QED BY <1>0, <1>n, <2>4, <2>5, SoloStep
<1>4. CASE ReadKeyIdList(t)
    <2>1. PICK c \in Call : c = [call[t] EXCEPT !.ids = keyIds, !.pc = "writeList"]
        BY <1>0 DEF Call, Pcs, TypeInv, TypeOK
    <2>2. /\ c.pc = "writeList" /\ c.ids = keyIds /\ c.part = call[t].part /\ c.state = call[t].state
          /\ c.account = call[t].account
        BY <1>0, <2>1 DEF Call
    <2>3. call[t].pc = "list" /\ Becomes(t, c) /\ UNCHANGED <<stored, temp, wallet, signed>>
        BY <1>4, <2>1 DEF ReadKeyIdList
    <2>4. Indexed(vault - 1)'
        BY <1>l, <2>3 DEF Indexed, ListPcs, wallet
    <2> QED BY <1>n, <2>2, <2>3, <2>4 DEF ListPcs, wallet
<1>5. CASE WriteKeyIdList(t)
    <2>1. PICK c \in Call : c = [call[t] EXCEPT !.pc = "writeKeyId"]
        BY <1>0 DEF Call, Pcs
    <2>2. c.pc = "writeKeyId" /\ c.part = call[t].part /\ c.state = call[t].state /\ c.account = call[t].account
        BY <1>0, <2>1 DEF Call
    <2>3. call[t].pc = "writeList" /\ Becomes(t, c) /\ UNCHANGED <<stored, temp, vault, signed>>
        BY <1>5, <2>1 DEF WriteKeyIdList, Goto
    <2>4. keyIds' = Append(keyIds, vault) /\ vault > 0 /\ Indexed(vault - 1)
        BY <1>5, <1>l, <2>3 DEF WriteKeyIdList, ListPcs
    <2>5. Indexed(vault)'
        <3>1. vault - 1 \in Nat /\ vault - 1 + 1 = vault
            BY <1>v, <2>4
        <3> QED BY <2>3, <2>4, <3>1, FirstAndNext DEF Indexed
    <2> QED BY <1>n, <2>2, <2>3, <2>5 DEF ListPcs
<1>6. CASE WriteKeyId(t)
    <2>1. PICK c \in Call : c = [call[t] EXCEPT !.pc = "nameAccount"]
        BY <1>0 DEF Call, Pcs
    <2>2. c.pc = "nameAccount" /\ c.part = call[t].part /\ c.state = call[t].state /\ c.account = call[t].account
        BY <1>0, <2>1 DEF Call
    <2>3. call[t].pc = "writeKeyId" /\ Becomes(t, c) /\ UNCHANGED <<stored, temp, vault, keyIds, signed>>
        BY <1>6, <2>1 DEF WriteKeyId, Goto
    <2>4. keyId' = vault /\ Indexed(vault)'
        BY <1>6, <1>l, <2>3 DEF WriteKeyId, ListPcs, Indexed
    <2> QED BY <1>n, <2>2, <2>3, <2>4 DEF ListPcs
<1>7. CASE NameAccount(t)
    <2>1. call[t].pc = "nameAccount" /\ UNCHANGED <<stored, temp, wallet, signed>>
        BY <1>7 DEF NameAccount
    <2>2. /\ Listed(vault) /\ Indexed(vault) /\ keyId = vault
          /\ stored.account = vault /\ Filled(stored.hashKey, <<>>)
        BY <1>l, <2>1 DEF ListPcs
    <2>3. KeyIdHarmless'
        BY <2>1, <2>2 DEF KeyIdHarmless, wallet
    <2>4. Settled'
        <3>1. Filled(stored.hashKey, <<>>)' /\ Listed(vault)' /\ Indexed(vault)'
            BY <2>1, <2>2 DEF Filled, OnlyKey, Held, Listed, Indexed, wallet
        <3>2. OnlyKey(stored.hashKey)'
            BY <3>1 DEF Filled
        <3> QED BY <2>3, <3>1, <3>2 DEF Settled, Base
    <2>5. PICK c \in Call : c = Idle
        BY LoadedIsCall DEF TypeInv, Pcs
    <2>6. Becomes(t, c) /\ c.pc = "idle"
        BY <1>7, <2>5 DEF NameAccount, End, Idle
    <2> QED BY <1>0, <2>1, <2>4, <2>5, <2>6, SoloStep
<1> QED BY <1>1, <1>2, <1>3, <1>4, <1>5, <1>6, <1>7 DEF StoreSecrets, ListKeyStore

\* Creating the wallet and adding an account to it, as far as the secrets.
LEMMA CreateAlone ==
    ASSUME TypeInv, AloneInv, undisturbed', NEW t \in Types, Step(t),
           \/ t = "create" /\ (SdkCreate \/ ClearBefore)
           \/ t = "add" /\ (AskPhrase \/ DeriveAccount)
    PROVE  AloneInv'
<1>0. /\ call[t] \in Call /\ CallInv(t)
      /\ \A u \in Types : u # t => call[u] = Idle
      /\ PhaseOf(t, call[t])
      /\ \A s \in signed : s[1] = s[2]
    BY StepIsSolo
<1> USE DEF At
<1>v. vault \in 0 .. MaxAccounts /\ vault \in Nat /\ stored \in Session /\ temp \in [Names -> Nat]
    BY DEF TypeInv, TypeOK
<1>p. ~Locks(t) /\ call[t].state = stored
    BY <1>0 DEF Locks, PhaseOf
<1>e. ASSUME End(t), Settled, UNCHANGED <<stored, temp, wallet, signed>> PROVE AloneInv'
    <2>1. PICK c \in Call : c = Idle
        BY LoadedIsCall DEF TypeInv, Pcs
    <2>2. Becomes(t, c) /\ c.pc = "idle"
        BY <1>e, <2>1 DEF End, Idle
    <2>3. Settled'
        BY <1>e DEF Settled, Base, KeyIdHarmless, Listed, Indexed, Filled, OnlyKey, Held, wallet
    <2> QED BY <1>0, <1>e, <2>1, <2>2, <2>3, SoloStep
<1>1. CASE t = "create" /\ SdkCreate
    <2>1. call[t].pc = "sdkCreate"
        BY <1>1 DEF SdkCreate
    <2>2. vault = 0 /\ Settled
        BY <1>0, <1>1, <2>1 DEF TypeInv, VaultInv, PhaseOf, LookPhase
    <2>3. PICK c \in Call : c = [call[t] EXCEPT !.account = 1, !.key = keys + 1, !.part = "store",
                                     !.todo = <<Phrase, KeyStore(1)>>, !.phrase = "known", !.pc = "clear"]
        <3>1. <<Phrase, KeyStore(1)>> \in Seq(Names) /\ keys + 1 \in Nat /\ 1 \in 0 .. MaxAccounts
            BY SessionAssumption DEF Names, Accounts, TypeInv, TypeOK
        <3> QED BY <1>0, <3>1 DEF Call, Pcs
    <2>4. /\ c.pc = "clear" /\ c.part = "store" /\ c.state = stored /\ c.account = 1
          /\ c.todo = <<Phrase, KeyStore(1)>>
        BY <1>0, <1>p, <2>3 DEF Call
    <2>5. Becomes(t, c) /\ vault' = 1 /\ UNCHANGED <<stored, temp, keyIds, signed>>
        BY <1>0, <1>1, <2>3 DEF SdkCreate, Storing, Call
    <2>6. stored.allAccounts = FirstAccounts(0) /\ keyIds = FirstAccounts(0)
        BY <2>2, FirstOfNone DEF Settled, Base, Listed, Indexed
    <2>7. PhaseOf(t, c)'
        BY <1>1, <1>p, <2>4, <2>5, <2>6 DEF PhaseOf, LookPhase, LoginPhase, StorePhase, ListPcs, Locks, Indexed, Listed
    <2> QED BY <1>0, <2>4, <2>5, <2>7, SoloStep
<1>2. CASE t = "create" /\ ClearBefore
    <2>1. call[t].pc = "clear"
        BY <1>2 DEF ClearBefore
    <2>2. PICK s \in Session : s = [stored EXCEPT !.hashKey = 0]
        BY <1>v DEF Session
    <2>3. s.allAccounts = stored.allAccounts
        BY <1>v, <2>2 DEF Session
    <2>4. PICK c \in Call : c = [call[t] EXCEPT !.state = s, !.pc = "removeTemporary"]
        BY <1>0, <2>2 DEF Call, Pcs
    <2>5. /\ c.pc = "removeTemporary" /\ c.part = call[t].part /\ c.state = s
          /\ c.account = call[t].account /\ c.todo = call[t].todo
        BY <1>0, <2>4 DEF Call
    <2>6. Becomes(t, c) /\ stored' = s /\ UNCHANGED <<temp, wallet, signed>>
        BY <1>2, <1>p, <2>2, <2>4 DEF ClearBefore, Dispatch
    <2>7. PhaseOf(t, c)'
        BY <1>0, <1>2, <1>p, <2>1, <2>3, <2>5, <2>6 DEF PhaseOf, LookPhase, LoginPhase, StorePhase, ListPcs, Locks,
           Indexed, Listed, wallet
    <2> QED BY <1>0, <2>5, <2>6, <2>7, SoloStep
<1>3. CASE t = "add" /\ AskPhrase
    <2>1. call[t].pc \in {"ask", "askAgain"} /\ UNCHANGED <<stored, temp, wallet, signed>>
        BY <1>3 DEF AskPhrase
    <2>2. Settled /\ call[t].part = "login" /\ (call[t].pc = "askAgain" => Listed(vault))
        BY <1>0, <2>1 DEF PhaseOf, LookPhase
    <2>3. CASE End("add")
        BY <1>3, <1>e, <2>1, <2>2, <2>3
    <2>4. CASE ~End("add")
        <3> DEFINE key == stored.hashKey
                   found == Readable(Phrase, key)
                   pc == IF found \/ call[t].pc = "askAgain" THEN "derive" ELSE "restore"
                   phrase == IF found THEN "known" ELSE "unknown"
        <3>1. PICK c \in Call : c = [call[t] EXCEPT !.phrase = phrase, !.pc = pc]
            BY <1>0 DEF Call, Pcs
        <3>2. c.pc = pc /\ c.part = "login" /\ c.state = stored
            BY <1>0, <1>p, <2>2, <3>1 DEF Call
        <3>3. Becomes(t, c)
            BY <1>3, <1>p, <2>4, <3>1 DEF AskPhrase
        <3>4. pc = "derive" => Listed(vault)
            BY <2>2 DEF Settled, Base, Readable
        <3>5. Settled'
            BY <2>1, <2>2 DEF Settled, Base, KeyIdHarmless, Listed, Indexed, Filled, OnlyKey, Held, wallet
        <3>6. (pc = "derive" => Listed(vault)') /\ pc \in {"derive", "restore"}
            BY <2>1, <3>4 DEF Listed, wallet
        <3> HIDE DEF pc
        <3>7. PhaseOf(t, c)'
            BY <1>p, <2>1, <3>2, <3>5, <3>6 DEF PhaseOf, LookPhase, LoginPhase, StorePhase, ListPcs, Locks
        <3> QED BY <1>0, <2>1, <3>2, <3>3, <3>6, <3>7, SoloStep
    <2> QED BY <2>3, <2>4
<1>4. CASE t = "add" /\ DeriveAccount
    <2>1. call[t].pc = "derive"
        BY <1>4 DEF DeriveAccount
    <2>2. Settled /\ call[t].part = "login" /\ Listed(vault)
        BY <1>0, <2>1 DEF PhaseOf, LookPhase
    <2>3. CASE End("add") /\ UNCHANGED vault
        BY <1>4, <1>e, <2>2, <2>3 DEF DeriveAccount, wallet
    <2>4. CASE ~(End("add") /\ UNCHANGED vault)
        <3>0. PICK a \in Nat : a = vault + 1
            BY <1>v
        <3>1. a \in Accounts /\ a \in Nat /\ a - 1 = vault /\ a > 0
            BY <1>v, <1>4, <2>1, <2>2, <3>0, SessionAssumption DEF TypeInv, VaultInv, Stores, Accounts
        <3>2. PICK c \in Call : c = [call[t] EXCEPT !.account = a, !.key = stored.hashKey, !.part = "store",
                                         !.todo = <<Phrase, KeyStore(a)>>, !.pc = "logIn"]
            <4>1. <<Phrase, KeyStore(a)>> \in Seq(Names) /\ a \in 0 .. MaxAccounts /\ stored.hashKey \in Nat
                <5>1. Phrase \in Names /\ KeyStore(a) \in Names
                    BY <3>1, NamesOfAccounts DEF Names
                <5>2. a \in 0 .. MaxAccounts
                    BY <3>1, SessionAssumption DEF Accounts
                <5> QED BY <1>v, <5>1, <5>2 DEF Session
            <4> QED BY <1>0, <4>1 DEF Call, Pcs
        <3>3. /\ c.pc = "logIn" /\ c.part = "store" /\ c.state = stored /\ c.account = a
              /\ c.key = stored.hashKey /\ c.todo = <<Phrase, KeyStore(a)>>
            BY <1>0, <1>p, <3>2 DEF Call
        <3>4. Becomes(t, c) /\ vault' = a /\ UNCHANGED <<stored, temp, keyIds, signed>>
            BY <1>0, <1>4, <1>p, <2>4, <3>0, <3>2 DEF DeriveAccount, Storing, Call
        <3>5. Listed(vault - 1)' /\ Indexed(vault - 1)'
            BY <2>2, <3>1, <3>4 DEF Settled, Base, Listed, Indexed
        <3>6. Filled(c.key, c.todo)'
            <4>1. OnlyKey(c.key)'
                BY <2>2, <3>3, <3>4 DEF Settled, Base, OnlyKey
            <4>2. ASSUME NEW b \in 1 .. vault PROVE Held(b, c.key, c.todo)'
                <5>1. CASE stored.hashKey # 0
                    BY <2>2, <3>3, <3>4, <5>1 DEF Settled, Base, Filled, Held
                <5>2. CASE stored.hashKey = 0
                    <6>1. b \in Accounts
                        BY <1>v, SessionAssumption DEF Accounts
                    <6>2. temp[Secret(b)] = 0
                        BY <2>2, <5>2, <6>1, NamesOfAccounts DEF Settled, Base, OnlyKey
                    <6> QED BY <3>3, <3>4, <5>2, <6>2 DEF Held
                <5> QED BY <5>1, <5>2
            <4>3. Held(a, c.key, c.todo)'
                BY <3>3 DEF Held
            <4>4. \A b \in 1 .. a : b \in 1 .. vault \/ b = a
                BY <1>v, <3>1
            <4> QED BY <3>4, <4>1, <4>2, <4>3, <4>4 DEF Filled
        <3>7. PhaseOf(t, c)'
            BY <1>p, <3>1, <3>3, <3>4, <3>5, <3>6 DEF PhaseOf, LookPhase, LoginPhase, StorePhase, ListPcs, Locks
        <3> QED BY <1>0, <3>3, <3>4, <3>7, SoloStep
    <2> QED BY <2>3, <2>4
<1> QED BY <1>1, <1>2, <1>3, <1>4

\* Switching to another account, and signing with the active one.
LEMMA AccountAlone ==
    ASSUME TypeInv, AloneInv, undisturbed', NEW t \in Types, Step(t),
           \/ t = "switch" /\ (ActivatePublicKey \/ SetActivePublicKey)
           \/ t = "sign" /\ (ReadKeyId \/ SignWithKey)
    PROVE  AloneInv'
<1>0. /\ call[t] \in Call /\ CallInv(t)
      /\ \A u \in Types : u # t => call[u] = Idle
      /\ PhaseOf(t, call[t])
      /\ \A s \in signed : s[1] = s[2]
    BY StepIsSolo
<1> USE DEF At
<1>v. vault \in 0 .. MaxAccounts /\ vault \in Nat /\ stored \in Session /\ temp \in [Names -> Nat]
    BY DEF TypeInv, TypeOK
<1>p. ~Locks(t) /\ call[t].state = stored
    BY <1>0 DEF Locks, PhaseOf
<1>e. ASSUME End(t), Settled', \A s \in signed' : s[1] = s[2] PROVE AloneInv'
    <2>1. PICK c \in Call : c = Idle
        BY LoadedIsCall DEF TypeInv, Pcs
    <2>2. Becomes(t, c) /\ c.pc = "idle"
        BY <1>e, <2>1 DEF End, Idle
    <2> QED BY <1>0, <1>e, <2>1, <2>2, SoloStep
<1>1. CASE t = "switch" /\ ActivatePublicKey
    <2>1. call[t].pc = "keyId" /\ UNCHANGED <<stored, temp, vault, keyIds, signed>>
        BY <1>1 DEF ActivatePublicKey
    <2>2. Settled /\ Listed(vault) /\ call[t].account \in 1 .. vault /\ call[t].part = "login"
        BY <1>0, <2>1 DEF PhaseOf, LookPhase
    <2>3. keyId' = call[t].account
        <3> DEFINE list == call[t].state.allAccounts
                   i == CHOOSE j \in DOMAIN list : list[j] = call[t].account
        <3>1. list = FirstAccounts(vault) /\ keyIds = FirstAccounts(vault)
            BY <1>p, <2>2 DEF Listed, Settled, Base, Indexed
        <3>2. DOMAIN list = 1 .. vault /\ \A j \in DOMAIN list : list[j] = j
            BY <3>1 DEF FirstAccounts
        <3>3. i \in DOMAIN list /\ list[i] = call[t].account
            BY <2>2, <3>2
        <3>4. keyId' = IF i \in DOMAIN keyIds THEN keyIds[i] ELSE 0
            BY <1>1 DEF ActivatePublicKey
        <3> HIDE DEF i
        <3> QED BY <3>1, <3>3, <3>4
    <2>4. PICK c \in Call : c = [call[t] EXCEPT !.pc = "pending"]
        BY <1>0 DEF Call, Pcs
    <2>5. /\ c.pc = "pending" /\ c.part = "login" /\ c.state = stored /\ c.account = call[t].account
        BY <1>0, <1>p, <2>2, <2>4 DEF Call
    <2>6. Becomes(t, c)
        BY <1>1, <2>4 DEF ActivatePublicKey, Goto
    <2>7. Base'
        BY <2>1, <2>2 DEF Settled, Base, Listed, Indexed, Filled, OnlyKey, Held
    <2>8. PhaseOf(t, c)'
        BY <1>p, <2>1, <2>3, <2>5, <2>7 DEF PhaseOf, LookPhase, LoginPhase, StorePhase, ListPcs, Locks
    <2> QED BY <1>0, <2>1, <2>5, <2>6, <2>8, SoloStep
<1>2. CASE t = "switch" /\ SetActivePublicKey
    <2>1. call[t].pc \in {"pending", "fulfilled"} /\ UNCHANGED <<temp, wallet, signed>>
        BY <1>2 DEF SetActivePublicKey
    <2>2. Base /\ keyId = call[t].account
        BY <1>0, <2>1 DEF PhaseOf, LookPhase
    <2>3. CASE call[t].pc = "pending"
        <3>1. PICK c \in Call : c = [call[t] EXCEPT !.pc = "fulfilled"]
            BY <1>0 DEF Call, Pcs
        <3>2. /\ c.pc = "fulfilled" /\ c.part = call[t].part /\ c.state = stored /\ c.account = call[t].account
            BY <1>0, <1>p, <3>1 DEF Call
        <3>3. [call[t] EXCEPT !.state = call[t].state, !.pc = "fulfilled"] = c
            BY <1>0, <3>1 DEF Call
        <3>4. Becomes(t, c) /\ stored' = stored
            BY <1>2, <1>p, <2>3, <3>3 DEF SetActivePublicKey, Dispatch
        <3>5. Base'
            BY <2>1, <2>2, <3>4 DEF Base, Listed, Indexed, Filled, OnlyKey, Held, wallet
        <3>6. PhaseOf(t, c)'
            BY <1>0, <1>p, <2>1, <2>2, <3>2, <3>4, <3>5
            DEF PhaseOf, LookPhase, LoginPhase, StorePhase, ListPcs, Locks, Indexed, wallet
        <3> QED BY <1>0, <2>1, <3>2, <3>4, <3>6, SoloStep
    <2>4. CASE call[t].pc = "fulfilled"
        <3>1. stored' = [stored EXCEPT !.account = call[t].account] /\ End(t)
            BY <1>2, <1>p, <2>4 DEF SetActivePublicKey
        <3>2. /\ stored'.hashKey = stored.hashKey /\ stored'.allAccounts = stored.allAccounts
              /\ stored'.account = call[t].account
            BY <1>v, <3>1 DEF Session
        <3>3. Base'
            BY <2>1, <2>2, <3>2 DEF Base, Listed, Indexed, Filled, OnlyKey, Held, wallet
        <3>4. KeyIdHarmless'
            BY <2>1, <2>2, <3>2 DEF KeyIdHarmless, wallet
        <3> QED BY <1>0, <1>e, <2>1, <3>1, <3>3, <3>4 DEF Settled
    <2> QED BY <2>1, <2>3, <2>4
<1>3. CASE t = "sign" /\ ReadKeyId
    <2>1. call[t].pc = "readKeyId" /\ UNCHANGED <<stored, temp, wallet, signed>>
        BY <1>3 DEF ReadKeyId
    <2>2. Settled /\ call[t].part = "login" /\ call[t].account = stored.account
        BY <1>0, <2>1 DEF PhaseOf, LookPhase
    <2>3. PICK c \in Call : c = [call[t] EXCEPT !.key = keyId, !.pc = "sign"]
        <3>1. keyId \in Nat
            BY SessionAssumption DEF TypeInv, TypeOK
        <3> QED BY <1>0, <3>1 DEF Call, Pcs
    <2>4. /\ c.pc = "sign" /\ c.part = "login" /\ c.state = stored /\ c.account = stored.account /\ c.key = keyId
        BY <1>0, <1>p, <2>2, <2>3 DEF Call
    <2>5. Becomes(t, c)
        BY <1>3, <2>3 DEF ReadKeyId
    <2>6. Settled'
        BY <2>1, <2>2 DEF Settled, Base, KeyIdHarmless, Listed, Indexed, Filled, OnlyKey, Held, wallet
    <2>7. PhaseOf(t, c)'
        BY <1>p, <2>1, <2>4, <2>6 DEF PhaseOf, LookPhase, LoginPhase, StorePhase, ListPcs, Locks, wallet
    <2> QED BY <1>0, <2>1, <2>4, <2>5, <2>7, SoloStep
<1>4. CASE t = "sign" /\ SignWithKey
    <2>1. call[t].pc = "sign" /\ UNCHANGED <<stored, temp, wallet>> /\ End(t)
        BY <1>4 DEF SignWithKey
    <2>2. Settled /\ call[t].account = stored.account /\ call[t].key = keyId
        BY <1>0, <2>1 DEF PhaseOf, LookPhase
    <2>3. \A s \in signed' : s \in signed \/ (s = <<stored.account, keyId>> /\ keyId = stored.account)
        <3>1. keyId # 0 /\ Readable(KeyStore(keyId), stored.hashKey) => keyId = stored.account
            BY <2>2, Zenon DEF Settled, KeyIdHarmless, Readable
        <3>2. \/ signed' = signed
              \/ /\ call["sign"].key # 0 /\ Readable(KeyStore(call["sign"].key), call["sign"].state.hashKey)
                 /\ signed' = signed \cup {<<call["sign"].account, call["sign"].key>>}
            BY <1>4 DEF SignWithKey
        <3>3. call["sign"].key = keyId /\ call["sign"].account = stored.account /\ call["sign"].state = stored
            BY <1>4, <1>p, <2>2
        <3>4. signed' = signed \/ (signed' = signed \cup {<<stored.account, keyId>>} /\ keyId = stored.account)
            BY <3>1, <3>2, <3>3
        <3> QED BY <3>4
    <2>4. Settled'
        BY <2>1, <2>2 DEF Settled, Base, KeyIdHarmless, Listed, Indexed, Filled, OnlyKey, Held, wallet
    <2> QED BY <1>0, <1>e, <2>1, <2>3, <2>4
<1> QED BY <1>1, <1>2, <1>3, <1>4

\* A message to an idle background, and the alarm: nothing was under way.
LEMMA MessageAlone ==
    ASSUME TypeInv, AloneInv, disturbances \in Nat, undisturbed', Message \/ ClearSession
    PROVE  AloneInv'
<1> USE DEF At
<1>v. vault \in 0 .. MaxAccounts /\ vault \in Nat /\ stored \in Session
    BY SessionAssumption DEF TypeInv, TypeOK
<1>d. ASSUME Disturbed PROVE Quiet /\ disturbances' = disturbances
    BY <1>d DEF Disturbed, Disturbance, undisturbed
<1>0. Quiet /\ disturbances' = disturbances
    <2>1. CASE Message
        BY <1>d, <2>1, Zenon DEF Message, ConfirmPassword, CreateAccount, AddAccount, MakeAccountActive,
           SignTransaction, SignOut, buildStore
    <2>2. CASE ClearSession
        BY <1>d, <2>2 DEF ClearSession
    <2> QED BY <2>1, <2>2
<1>1. /\ \A t \in Types : call[t] = Idle
      /\ Settled
      /\ \A s \in signed : s[1] = s[2]
    BY <1>0 DEF AloneInv, OneCall, Quiet, undisturbed
<1>i. Idle.part = "login" /\ Idle.pc = "idle" /\ Idle \in Call /\ initialState \in Session
    BY LoadedIsCall, SessionAssumption DEF Idle, TypeInv, Pcs, Session, initialState
<1>l. \A pc \in Pcs : /\ Loaded(pc) \in Call /\ Loaded(pc).pc = pc
                      /\ Loaded(pc).state = stored /\ Loaded(pc).part = "login"
    BY LoadedIsCall DEF TypeInv, Loaded, Idle
\* A message that finds the store settled and changes nothing.
<1>2. ASSUME NEW t \in Types, ~Locks(t), NEW pc \in {"restore", "ask", "sdkCreate", "keyId", "readKeyId"},
             NEW c \in Call, Becomes(t, c), UNCHANGED <<stored, temp, wallet, signed>>,
             c.pc = pc, c.state = stored, c.part = "login",
             pc = "keyId" => Listed(vault) /\ c.account \in 1 .. vault,
             pc = "readKeyId" => c.account = stored.account
      PROVE  AloneInv'
    <2>1. Settled'
        BY <1>1, <1>2 DEF Settled, Base, KeyIdHarmless, Listed, Indexed, Filled, OnlyKey, Held, wallet
    <2>2. PhaseOf(t, c)'
        BY <1>2, <2>1 DEF PhaseOf, LookPhase, LoginPhase, StorePhase, ListPcs, Locks, Listed, wallet
    <2> QED BY <1>1, <1>2, <2>2, SoloStep
\* A message or an alarm that locks the wallet.
<1>3. ASSUME NEW t \in Types, Locks(t), NEW s \in Session, s.hashKey = 0, stored' = s,
             s.allAccounts \in {<<>>, stored.allAccounts},
             NEW c \in Call, Becomes(t, c), UNCHANGED <<temp, wallet, signed>>,
             c.pc = "removeTemporary", c.part = "login"
      PROVE  AloneInv'
    <2>1. Indexed(vault)' /\ stored'.hashKey = 0 /\ (stored'.allAccounts = <<>> \/ Listed(vault)')
        BY <1>1, <1>3 DEF Settled, Base, Listed, Indexed, wallet
    <2>2. PhaseOf(t, c)'
        BY <1>3, <2>1 DEF PhaseOf, LookPhase, LoginPhase, StorePhase, ListPcs
    <2> QED BY <1>1, <1>3, <2>2, SoloStep
<1>4. CASE ConfirmPassword
    <2>1. PICK c \in Call : c = Loaded("restore")
        BY <1>l DEF Pcs
    <2>2. Becomes("login", c) /\ UNCHANGED <<stored, temp, wallet, signed>>
        BY <1>4, <2>1 DEF ConfirmPassword, buildStore
    <2> QED BY <1>2, <1>l, <2>1, <2>2 DEF Types, Locks, Pcs
<1>5. CASE CreateAccount
    <2>1. PICK c \in Call : c = Loaded("sdkCreate")
        BY <1>l DEF Pcs
    <2>2. Becomes("create", c) /\ UNCHANGED <<stored, temp, wallet, signed>>
        BY <1>5, <2>1 DEF CreateAccount, buildStore
    <2> QED BY <1>2, <1>l, <2>1, <2>2 DEF Types, Locks, Pcs
<1>6. CASE AddAccount
    <2>1. PICK c \in Call : c = Loaded("ask")
        BY <1>l DEF Pcs
    <2>2. Becomes("add", c) /\ UNCHANGED <<stored, temp, wallet, signed>>
        BY <1>6, <2>1 DEF AddAccount, buildStore
    <2> QED BY <1>2, <1>l, <2>1, <2>2 DEF Types, Locks, Pcs
<1>7. CASE MakeAccountActive
    <2>1. PICK i \in DOMAIN stored.allAccounts :
              buildStore("switch", [Loaded("keyId") EXCEPT !.account = stored.allAccounts[i]])
        BY <1>7 DEF MakeAccountActive
    <2>2. Listed(vault)
        <3>1. stored.allAccounts # <<>>
            BY <2>1
        <3> QED BY <1>1, <3>1 DEF Settled, Base
    <2>3. stored.allAccounts[i] \in 1 .. vault
        BY <2>1, <2>2 DEF Listed, FirstAccounts
    <2>4. PICK c \in Call : c = [Loaded("keyId") EXCEPT !.account = stored.allAccounts[i]]
        <3>1. stored.allAccounts[i] \in 0 .. MaxAccounts /\ Loaded("keyId") \in Call
            BY <1>v, <1>l, <2>3, SessionAssumption DEF Pcs
        <3> QED BY <3>1 DEF Call
    <2>5. c.pc = "keyId" /\ c.state = stored /\ c.part = "login" /\ c.account = stored.allAccounts[i]
        BY <1>l, <2>4 DEF Pcs, Call
    <2>6. Becomes("switch", c) /\ UNCHANGED <<stored, temp, wallet, signed>>
        BY <1>7, <2>1, <2>4 DEF MakeAccountActive, buildStore
    <2> QED BY <1>2, <2>2, <2>3, <2>5, <2>6 DEF Types, Locks
<1>8. CASE SignTransaction
    <2>1. PICK c \in Call : c = [Loaded("readKeyId") EXCEPT !.account = stored.account]
        <3>1. stored.account \in 0 .. MaxAccounts /\ Loaded("readKeyId") \in Call
            BY <1>v, <1>l DEF Pcs, Session
        <3> QED BY <3>1 DEF Call
    <2>2. c.pc = "readKeyId" /\ c.state = stored /\ c.part = "login" /\ c.account = stored.account
        BY <1>l, <2>1 DEF Pcs, Call
    <2>3. Becomes("sign", c) /\ UNCHANGED <<stored, temp, wallet, signed>>
        BY <1>8, <2>1 DEF SignTransaction, buildStore
    <2> QED BY <1>2, <2>2, <2>3 DEF Types, Locks
<1>9. CASE SignOut
    <2>1. PICK c \in Call : c = [Idle EXCEPT !.pc = "removeTemporary"]
        BY <1>i DEF Call, Pcs
    <2>2. c.pc = "removeTemporary" /\ c.part = "login"
        BY <1>i, <2>1 DEF Call
    <2>3. Becomes("signOut", c) /\ stored' = initialState /\ UNCHANGED <<temp, wallet, signed>>
        BY <1>9, <2>1 DEF SignOut, buildStore
    <2>4. initialState.hashKey = 0 /\ initialState.allAccounts = <<>>
        BY DEF initialState
    <2> QED BY <1>3, <1>i, <2>2, <2>3, <2>4 DEF Types, Locks
<1>10. CASE ClearSession
    <2>1. PICK c \in Call : c = [call["timeout"] EXCEPT !.pc = "removeTemporary"]
        BY <1>1, <1>i DEF Call, Pcs, Types
    <2>2. c.pc = "removeTemporary" /\ c.part = "login"
        BY <1>1, <1>i, <2>1 DEF Call, Types
    <2>3. PICK s \in Session : s = [stored EXCEPT !.hashKey = 0]
        BY <1>v DEF Session
    <2>4. s.hashKey = 0 /\ s.allAccounts = stored.allAccounts
        BY <1>v, <2>3 DEF Session
    <2>5. Becomes("timeout", c) /\ stored' = s /\ UNCHANGED <<temp, wallet, signed>>
        BY <1>10, <2>1, <2>3 DEF ClearSession, Goto
    <2> QED BY <1>3, <2>2, <2>4, <2>5 DEF Types, Locks
<1> QED BY <1>4, <1>5, <1>6, <1>7, <1>8, <1>9, <1>10 DEF Message

\* The count of disturbances only grows.
LEMMA CountGrows == disturbances \in Nat /\ [Next]_vars => disturbances' \in Nat
<1> SUFFICES ASSUME disturbances \in Nat, [Next]_vars PROVE disturbances' \in Nat
    OBVIOUS
<1>1. Disturbance \/ disturbances' = disturbances
    BY DEF Next, Message, ConfirmPassword, CreateAccount, AddAccount, MakeAccountActive, SignTransaction,
           SignOut, buildStore, Disturbed, ClearSession, Restart, Fails, SkipSecret, CallFails, Step, LogIn, StoreSecrets, RestoreWallet,
           LogInPending, LogInFulfilled, RemoveTemporary, ReadTemporary, WriteTemporary,
           StoreActiveHashKey, ListKeyStore, ReadKeyIdList, WriteKeyIdList, WriteKeyId,
           NameAccount, SdkCreate, ClearBefore, AskPhrase, DeriveAccount,
           ActivatePublicKey, SetActivePublicKey, ReadKeyId, SignWithKey, bounds, vars
<1> QED BY <1>1 DEF Disturbance

\* Calls that run alone, one after the other, keep AloneInv.
LEMMA StepKeepsAlone ==
    TypeInv /\ AloneInv /\ disturbances \in Nat /\ [Next]_vars => AloneInv'
<1> SUFFICES ASSUME TypeInv, AloneInv, disturbances \in Nat, [Next]_vars, undisturbed' PROVE AloneInv'
    BY DEF AloneInv
<1>1. CASE Message \/ ClearSession
    BY <1>1, MessageAlone
<1>2. ASSUME NEW t \in Types, Step(t) PROVE AloneInv'
    BY <1>2, LoginAlone, StoreAlone, CreateAlone, AccountAlone DEF Step
<1>3. ASSUME Restart \/ \E t \in Types : Fails(t) PROVE AloneInv'
    <2>1. Disturbance
        BY <1>3 DEF Restart, Disturbed, Fails, SkipSecret, CallFails
    <2> QED BY <2>1 DEF Disturbance, undisturbed
<1>4. CASE UNCHANGED vars
    <2>1. UNCHANGED <<stored, temp, wallet, call, signed, disturbances>>
        BY <1>4 DEF vars, bounds
    <2> QED BY <2>1 DEF AloneInv, undisturbed, OneCall, Quiet, Settled, Base, KeyIdHarmless, Listed, Indexed,
               Filled, OnlyKey, Held, NoKeyStores, PhaseOf, LookPhase, LoginPhase, StorePhase, ListPcs, wallet
<1> QED BY <1>1, <1>2, <1>3, <1>4 DEF Next

SessionInv == TypeInv /\ AloneInv /\ disturbances \in Nat

LEMMA AloneAlways == Spec => []SessionInv
<1>1. Init => SessionInv
    <2> SUFFICES ASSUME Init PROVE AloneInv /\ disturbances \in Nat
        BY InitHolds DEF SessionInv
    <2>1. /\ \A t \in Types : call[t] = Idle /\ call[t].pc = "idle"
          /\ signed = {} /\ disturbances = 0 /\ vault = 0 /\ keyId = 0 /\ keyIds = <<>>
          /\ stored.hashKey = 0 /\ stored.allAccounts = <<>> /\ \A n \in Names : temp[n] = 0
        BY DEF Init, Idle, initialState, Erased
    <2>2. Settled
        BY <2>1, FirstOfNone DEF Settled, Base, KeyIdHarmless, OnlyKey, Indexed
    <2> QED BY <2>1, <2>2 DEF AloneInv, OneCall
<1>2. SessionInv /\ [Next]_vars => SessionInv'
    BY StepKeepsTypes, StepKeepsAlone, CountGrows DEF SessionInv
<1> QED BY <1>1, <1>2, PTL DEF Spec

(* SecretsMatchSession: while calls run one at a time and to their end,    *)
(* what is in the temporary store between them is this session's, and no   *)
(* account on the list is without its secret, whatever the calls were.     *)
THEOREM SecretsFollowTheSession == Spec => []SecretsMatchSession
<1>1. SessionInv => SecretsMatchSession
    <2> SUFFICES ASSUME AloneInv, undisturbed, Quiet
                 PROVE  /\ \A n \in Names : temp[n] \in {0, stored.hashKey}
                        /\ stored.hashKey # 0 =>
                               \A i \in DOMAIN stored.allAccounts :
                                   \E n \in {Secret(stored.allAccounts[i]), KeyStore(stored.allAccounts[i])} :
                                       temp[n] = stored.hashKey
        BY DEF SessionInv, SecretsMatchSession
    <2>1. Base
        BY DEF AloneInv, Settled
    <2>2. \A n \in Names : temp[n] \in {0, stored.hashKey}
        BY <2>1 DEF Base, OnlyKey
    <2>3. ASSUME stored.hashKey # 0, NEW i \in DOMAIN stored.allAccounts
          PROVE  \E n \in {Secret(stored.allAccounts[i]), KeyStore(stored.allAccounts[i])} :
                     temp[n] = stored.hashKey
        <3>1. Listed(vault) /\ Filled(stored.hashKey, <<>>)
            BY <2>1, <2>3 DEF Base
        <3>2. stored.allAccounts[i] \in 1 .. vault
            BY <2>3, <3>1 DEF Listed, FirstAccounts
        <3>3. Held(stored.allAccounts[i], stored.hashKey, <<>>)
            BY <3>1, <3>2 DEF Filled
        <3> QED BY <3>3 DEF Held
    <2> QED BY <2>2, <2>3
<1> QED BY <1>1, AloneAlways, PTL

(* SignedByShown: while calls run one at a time and to their end, every    *)
(* signature is by the account the popup showed, though KEY_ID and the     *)
(* account on show are saved by different steps and a login resets one of  *)
(* them only.                                                              *)
THEOREM ShownAccountSigns == Spec => []SignedByShown
<1>1. SessionInv => SignedByShown
    BY DEF SessionInv, AloneInv, SignedByShown
<1> QED BY <1>1, AloneAlways, PTL
=============================================================================
