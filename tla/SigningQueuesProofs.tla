------------------------ MODULE SigningQueuesProofs --------------------------
(***************************************************************************)
(* The queues of signing requests, for any number of requests, domains and *)
(* restarts.  TypeInv adds to the types what is known of a request that    *)
(* has been made; the other invariants are each inductive beside it.       *)
(***************************************************************************)
EXTENDS SigningQueues, TLAPS

Kinds == ItemKinds \cup AccessKinds
Answers == {"granted", "declined", "failed"}

Made(r) == kind[r] # "none"

\* Whatever has a window, a handler or an answer was asked for by a domain.
MadeInv ==
    /\ origin = [r \in Requests |-> origin[r]]
    /\ \A r \in Requests :
        /\ Made(r) => origin[r] \in Origins
        /\ window[r] # "none" \/ answer[r] # "none" \/ signatures[r] # 0 \/ handed[r] # 0
             \/ r \in approved => Made(r)
        /\ \A i \in Approvals[r] : call[<<r, i>>].pc # "idle" => Made(r)

TypeInv == TypeOK /\ MadeInv

LEMMA IsHandler ==
    ASSUME NEW r \in Requests, NEW i \in Approvals[r]
    PROVE  <<r, i>> \in Handlers
BY DEF Handlers

LEMMA IdleIsCall == Idle \in [pc : CallPcs, list : SUBSET Origins] /\ Idle.pc = "idle" /\ Idle.list = {}
BY DEF Idle, CallPcs

LEMMA InitHolds == Init => TypeInv
<1> SUFFICES ASSUME Init PROVE TypeInv
    OBVIOUS
<1>1. call \in [Handlers -> [pc : CallPcs, list : SUBSET Origins]]
      /\ \A r \in Requests : \A i \in Approvals[r] : call[<<r, i>>].pc = "idle"
    BY IdleIsCall, IsHandler DEF Init
<1> QED BY <1>1 DEF Init, TypeInv, TypeOK, MadeInv, Made, AccessPcs

\* A resolution answers those who wait among rs, and nobody else.
LEMMA Resolved ==
    ASSUME TypeInv, NEW rs, NEW a \in Answers, Resolve(rs, a)
    PROVE  /\ answer' \in [Requests -> {"none"} \cup Answers]
           /\ \A r \in Requests : answer'[r] = answer[r] \/ (r \in rs /\ answer'[r] = a)
           /\ \A r \in rs \cap Requests : answer'[r] # "none"
           /\ \A r \in Requests : answer[r] # "none" => answer'[r] = answer[r]
BY DEF TypeInv, TypeOK, Resolve, Answers

\* A request is made once, by a domain.
LEMMA Asked ==
    ASSUME TypeInv, NEW r \in Requests, NEW k \in Kinds, NEW o \in Origins, Ask(r, k, o)
    PROVE  /\ ~Made(r) /\ kind'[r] = k /\ origin'[r] = o
           /\ \A q \in Requests : q # r => kind'[q] = kind[q] /\ origin'[q] = origin[q]
           /\ kind' \in [Requests -> Kinds \cup {"none"}]
           /\ origin' = [q \in Requests |-> origin'[q]]
           /\ window[r] = "none" /\ answer[r] = "none"
           /\ \A i \in Approvals[r] : call[<<r, i>>].pc = "idle"
           /\ signatures[r] = 0 /\ handed[r] = 0 /\ r \notin approved
           /\ UNCHANGED <<active, listed, call, approved, signed, restarts>>
BY DEF TypeInv, TypeOK, MadeInv, Made, Ask, Kinds

\* What a new request leaves of the types; its queues and its window are left to show.
LEMMA AskedKeeps ==
    ASSUME TypeInv, NEW r \in Requests, NEW k \in Kinds, NEW o \in Origins, Ask(r, k, o),
           items' \subseteq items \cup {r}, r \in items' => k \in ItemKinds,
           responses' \subseteq responses \cup {r},
           answer' \in [Requests -> {"none"} \cup Answers],
           \A q \in Requests : q # r => answer'[q] = answer[q],
           window' \in [Requests -> {"none", "creating", "shown", "closed"}],
           \A q \in Requests : q # r => window'[q] = window[q]
    PROVE  TypeInv'
<1>1. /\ kind'[r] = k /\ k # "none"
      /\ \A q \in Requests : q # r => kind'[q] = kind[q]
      /\ kind' \in [Requests -> ItemKinds \cup AccessKinds \cup {"none"}]
    BY Asked DEF Kinds, ItemKinds, AccessKinds, SigningKinds
<1>2. items' \subseteq {q \in Requests : kind'[q] \in ItemKinds}
      /\ responses' \subseteq {q \in Requests : kind'[q] # "none"}
    BY <1>1 DEF TypeInv, TypeOK
<1>3. \A q \in Requests : \A i \in Approvals[q] : call'[<<q, i>>].pc \in AccessPcs => kind'[q] \in AccessKinds
    BY <1>1, Asked DEF TypeInv, TypeOK, AccessPcs
<1>4. TypeOK'
    BY <1>1, <1>2, <1>3, Asked DEF TypeInv, TypeOK, Answers, signed
<1>5. MadeInv'
    BY <1>1, Asked DEF TypeInv, MadeInv, Made, signed
<1> QED BY <1>4, <1>5 DEF TypeInv

CallSet(r, i, c) == call' = [call EXCEPT ![<<r, i>>] = c]

\* A handler goes on alone.
LEMMA CallMoved ==
    ASSUME TypeInv, NEW r \in Requests, NEW i \in Approvals[r],
           NEW c \in [pc : CallPcs, list : SUBSET Origins],
           CallSet(r, i, c)
    PROVE  /\ call' \in [Handlers -> [pc : CallPcs, list : SUBSET Origins]]
           /\ \A q \in Requests : \A j \in Approvals[q] :
                  call'[<<q, j>>] = call[<<q, j>>] \/ (q = r /\ call'[<<q, j>>] = c)
BY IsHandler DEF CallSet, TypeInv, TypeOK

\* The handler of a request that was made goes on.
LEMMA CallMoves ==
    ASSUME TypeInv, NEW r \in Requests, NEW i \in Approvals[r],
           NEW c \in [pc : CallPcs, list : SUBSET Origins],
           CallSet(r, i, c), Made(r),
           c.pc \in AccessPcs => kind[r] \in AccessKinds,
           UNCHANGED <<kind, origin, window, active, signed>>,
           answer' \in [Requests -> {"none"} \cup Answers],
           \A q \in Requests : answer'[q] # "none" => Made(q),
           items' \subseteq items, responses' \subseteq responses,
           listed' \subseteq Origins, approved' \subseteq approved \cup {r}
    PROVE  TypeInv'
<1>1. /\ call' \in [Handlers -> [pc : CallPcs, list : SUBSET Origins]]
      /\ \A q \in Requests : \A j \in Approvals[q] :
             call'[<<q, j>>] = call[<<q, j>>] \/ (q = r /\ call'[<<q, j>>] = c)
    BY CallMoved
<1>2. \A q \in Requests : \A j \in Approvals[q] : call'[<<q, j>>].pc \in AccessPcs => kind'[q] \in AccessKinds
    BY <1>1 DEF TypeInv, TypeOK
<1>3. TypeOK'
    BY <1>1, <1>2 DEF TypeInv, TypeOK, Answers, signed
<1>4. MadeInv'
    BY <1>1 DEF TypeInv, TypeOK, MadeInv, Made, signed
<1> QED BY <1>3, <1>4 DEF TypeInv

\* A handler that goes on, or ends.
LEMMA CallGoesOn ==
    ASSUME TypeInv, NEW r \in Requests, NEW i \in Approvals[r],
           NEW pc \in CallPcs, NEW list \in SUBSET Origins,
           CallGoes(r, i, pc, list)
    PROVE  \E c \in [pc : CallPcs, list : SUBSET Origins] :
               c.pc = pc /\ c.list = list /\ CallSet(r, i, c)
BY DEF CallGoes, CallSet

\* What a response is called with, a signature or another's, is counted.
LEMMA HandedOver ==
    ASSUME TypeInv, NEW r \in Requests, HandOver(r)
    PROVE  /\ Resolve({r} \cap responses, "granted") /\ responses' = responses \ {r}
           /\ handed' \in [Requests -> Nat]
           /\ \A q \in Requests : q # r => handed'[q] = handed[q]
           /\ handed'[r] = IF r \in responses THEN handed[r] + 1 ELSE handed[r]
BY DEF HandOver, TypeInv, TypeOK

LEMMA BackgroundKeepsTypes == TypeInv /\ Background => TypeInv'
<1> SUFFICES ASSUME TypeInv, NEW r \in Requests, NEW i \in Approvals[r],
                    \/ SignTransaction(r, i) \/ SignBlob(r, i) \/ SignAuthEntry(r, i)
                    \/ AddToken(r, i) \/ TokenAdded(r, i)
                    \/ GrantAccess(r, i) \/ SetAllowListDomain(r, i) \/ AnswerGrant(r, i)
             PROVE  TypeInv'
    BY DEF Background
<1>0. /\ answer \in [Requests -> {"none"} \cup Answers]
      /\ \A q \in Requests : answer[q] # "none" => Made(q)
      /\ call[<<r, i>>].pc # "idle" => Made(r)
      /\ listed \subseteq Origins /\ call[<<r, i>>].list \subseteq Origins
      /\ responses \subseteq {q \in Requests : Made(q)}
    BY IsHandler DEF TypeInv, TypeOK, MadeInv, Answers, Made
<1>1. ASSUME NEW rs \in SUBSET {q \in Requests : Made(q)}, NEW a \in Answers, Resolve(rs, a)
      PROVE  answer' \in [Requests -> {"none"} \cup Answers] /\ \A q \in Requests : answer'[q] # "none" => Made(q)
    BY <1>0, <1>1, Resolved
<1>2. ASSUME NEW k, Sign(r, i, k) PROVE TypeInv'
    <2>1. Made(r) /\ call[<<r, i>>].pc = "signing"
        BY <1>0, <1>2 DEF Sign
    <2>2. /\ answer' \in [Requests -> {"none"} \cup Answers]
          /\ \A q \in Requests : answer'[q] # "none" => Made(q)
          /\ signatures' \in [Requests -> Nat] /\ handed' \in [Requests -> Nat]
          /\ \A q \in Requests : q # r => signatures'[q] = signatures[q] /\ handed'[q] = handed[q]
          /\ responses' \subseteq responses
        <3>1. CASE UNCHANGED <<responses, answer, signed>>
            BY <1>0, <3>1 DEF signed, TypeInv, TypeOK
        <3>2. CASE signatures' = [signatures EXCEPT ![r] = @ + 1] /\ HandOver(r)
            <4>1. answer' \in [Requests -> {"none"} \cup Answers] /\ \A q \in Requests : answer'[q] # "none" => Made(q)
                BY <1>0, <1>1, <3>2, HandedOver DEF Answers
            <4>2. signatures' \in [Requests -> Nat] /\ \A q \in Requests : q # r => signatures'[q] = signatures[q]
                BY <3>2 DEF TypeInv, TypeOK
            <4> QED BY <3>2, <4>1, <4>2, HandedOver
        <3> QED BY <1>2, <3>1, <3>2 DEF Sign
    <2>3. items' \subseteq items
        BY <1>2 DEF Sign
    <2>5. CallSet(r, i, Idle) /\ UNCHANGED <<world, active, listed, approved>>
        BY <1>2 DEF Sign, CallEnds, CallSet
    <2>9. /\ call' \in [Handlers -> [pc : CallPcs, list : SUBSET Origins]]
          /\ \A q \in Requests : \A j \in Approvals[q] : call'[<<q, j>>] \in {call[<<q, j>>], Idle}
        BY <2>5, CallMoved, IdleIsCall
    <2>6. TypeOK'
        BY <2>2, <2>3, <2>5, <2>9, IdleIsCall DEF TypeInv, TypeOK, Answers, world, AccessPcs
    <2>8. MadeInv'
        <3>1. \A q \in Requests : \A j \in Approvals[q] : call'[<<q, j>>].pc # "idle" => Made(q)
            BY <2>9, IdleIsCall DEF TypeInv, MadeInv
        <3> QED BY <2>1, <2>2, <2>5, <3>1 DEF TypeInv, TypeOK, MadeInv, world, Made
    <2> QED BY <2>6, <2>8 DEF TypeInv
<1>3. CASE SignTransaction(r, i) \/ SignBlob(r, i) \/ SignAuthEntry(r, i)
    BY <1>2, <1>3 DEF SignTransaction, SignBlob, SignAuthEntry
<1>4. ASSUME NEW pc \in CallPcs, NEW list \in SUBSET Origins, CallGoes(r, i, pc, list) \/ CallEnds(r, i),
             call[<<r, i>>].pc # "idle", pc \in AccessPcs => call[<<r, i>>].pc \in AccessPcs,
             UNCHANGED <<world, active, signed, approved>>,
             answer' \in [Requests -> {"none"} \cup Answers],
             \A q \in Requests : answer'[q] # "none" => Made(q),
             items' \subseteq items, responses' \subseteq responses, listed' \subseteq Origins
      PROVE  TypeInv'
    <2>1. PICK c \in [pc : CallPcs, list : SUBSET Origins] :
              c.pc \in {pc, "idle"} /\ CallSet(r, i, c)
        BY <1>4, CallGoesOn, IdleIsCall DEF CallEnds, CallSet
    <2>2. c.pc \in AccessPcs => kind[r] \in AccessKinds
        BY <1>4, <2>1 DEF TypeInv, TypeOK, AccessPcs
    <2> QED BY <1>0, <1>4, <2>1, <2>2, CallMoves DEF world
<1>5. CASE AddToken(r, i)
    BY <1>0, <1>4, <1>5 DEF AddToken, CallPcs, AccessPcs
<1>6. CASE TokenAdded(r, i)
    <2>1. PICK outcome \in Answers : Resolve({r} \cap responses, outcome)
        BY <1>6 DEF TokenAdded, Answers
    <2>2. answer' \in [Requests -> {"none"} \cup Answers] /\ \A q \in Requests : answer'[q] # "none" => Made(q)
        BY <1>0, <1>1, <2>1
    <2> QED BY <1>0, <1>4, <1>6, <2>2 DEF TokenAdded, CallPcs, AccessPcs
<1>7. CASE GrantAccess(r, i)
    BY <1>0, <1>4, <1>7 DEF GrantAccess, CallPcs, AccessPcs
<1>8. CASE SetAllowListDomain(r, i)
    <2>1. origin[r] \in Origins
        BY <1>0, <1>8 DEF SetAllowListDomain, TypeInv, MadeInv
    <2>2. listed' \subseteq Origins
        BY <1>0, <1>8, <2>1 DEF SetAllowListDomain
    <2> QED BY <1>0, <1>4, <1>8, <2>2 DEF SetAllowListDomain, CallPcs, AccessPcs, queues
<1>9. CASE AnswerGrant(r, i)
    <2>1. PICK a \in Answers : Resolve({r}, a)
        BY <1>9 DEF AnswerGrant, Answers
    <2>2. answer' \in [Requests -> {"none"} \cup Answers] /\ \A q \in Requests : answer'[q] # "none" => Made(q)
        BY <1>0, <1>1, <1>9, <2>1 DEF AnswerGrant
    <2> QED BY <1>0, <1>4, <1>9, <2>2 DEF AnswerGrant, CallPcs, AccessPcs, queues
<1> QED BY <1>3, <1>5, <1>6, <1>7, <1>8, <1>9

LEMMA DappKeepsTypes == TypeInv /\ Dapp => TypeInv'
<1> SUFFICES ASSUME TypeInv, NEW r \in Requests, NEW o \in Origins,
                    \/ SubmitTransaction(r, o) \/ SubmitBlob(r, o) \/ SubmitAuthEntry(r, o)
                    \/ SubmitToken(r, o) \/ RequestAccess(r, o) \/ SetAllowedStatus(r, o)
             PROVE  TypeInv'
    BY DEF Dapp
<1>1. ASSUME NEW k \in ItemKinds, Ask(r, k, o), Enqueue(r) PROVE TypeInv'
    <2>1. k \in Kinds
        BY DEF Kinds
    <2>2. /\ window' \in [Requests -> {"none", "creating", "shown", "closed"}]
          /\ \A q \in Requests : q # r => window'[q] = window[q]
          /\ answer' = answer /\ answer \in [Requests -> {"none"} \cup Answers]
        BY <1>1 DEF Enqueue, CreateWindow, TypeInv, TypeOK, Answers
    <2> QED BY <1>1, <2>1, <2>2, AskedKeeps DEF Enqueue
<1>2. ASSUME NEW k \in AccessKinds, Ask(r, k, o), items' = items,
             responses' \in {responses, responses \cup {r}},
             \/ Resolve({r}, "granted") /\ UNCHANGED window
             \/ CreateWindow(r) /\ UNCHANGED answer
      PROVE  TypeInv'
    <2>1. k \in Kinds
        BY DEF Kinds
    <2>2. answer' \in [Requests -> {"none"} \cup Answers]
          /\ \A q \in Requests : q # r => answer'[q] = answer[q]
        BY <1>2, Resolved DEF Answers, TypeInv, TypeOK
    <2>3. window' \in [Requests -> {"none", "creating", "shown", "closed"}]
          /\ \A q \in Requests : q # r => window'[q] = window[q]
        BY <1>2 DEF CreateWindow, TypeInv, TypeOK
    <2>4. r \notin items
        BY <1>2, <2>1, Asked DEF TypeInv, TypeOK, Made, ItemKinds, SigningKinds
    <2> QED BY <1>2, <2>1, <2>2, <2>3, <2>4, AskedKeeps
<1> QED BY <1>1, <1>2 DEF SubmitTransaction, SubmitBlob, SubmitAuthEntry, SubmitToken, RequestAccess,
        SetAllowedStatus, ItemKinds, SigningKinds, AccessKinds

LEMMA StepKeepsTypes == TypeInv /\ [Next]_vars => TypeInv'
<1> SUFFICES ASSUME TypeInv, [Next]_vars PROVE TypeInv'
    OBVIOUS
<1> USE DEF TypeInv
<1>1. CASE Dapp
    BY <1>1, DappKeepsTypes
<1>2. CASE Background
    BY <1>2, BackgroundKeepsTypes
<1>0. responses \subseteq {q \in Requests : Made(q)} /\ Listening \subseteq {q \in Requests : Made(q)}
    BY DEF TypeOK, Made, Listening, ItemKinds, SigningKinds
<1>3. ASSUME NEW rs \in SUBSET {q \in Requests : Made(q)}, NEW a \in Answers, Resolve(rs, a)
      PROVE  answer' \in [Requests -> {"none"} \cup Answers] /\ \A q \in Requests : answer'[q] # "none" => Made(q)
    BY <1>3, Resolved DEF MadeInv
<1>4. ASSUME NEW r \in Requests,
             \/ WindowCreated(r) \/ WindowRefused(r) \/ WindowMissing(r) \/ CloseWindow(r)
             \/ Mount(r) \/ Unmount(r) \/ RejectAccess(r) \/ HandleSignedHwPayload(r)
             \/ \E i \in Approvals[r] : Approve(r, i)
      PROVE  TypeInv'
    <2>0. window[r] # "none" => Made(r)
        BY DEF MadeInv
    <2>1. CASE WindowCreated(r)
        BY <2>0, <2>1 DEF WindowCreated, PushResponse, TypeOK, MadeInv, Made, signed
    <2>2. CASE WindowRefused(r)
        <3>1. answer' \in [Requests -> {"none"} \cup Answers] /\ \A q \in Requests : answer'[q] # "none" => Made(q)
            BY <1>3, <2>0, <2>2 DEF WindowRefused, Answers
        <3> QED BY <2>0, <2>2, <3>1 DEF WindowRefused, TypeOK, MadeInv, Made, queues, Answers, signed
    <2>3. CASE CloseWindow(r)
        <3>1. answer' \in [Requests -> {"none"} \cup Answers] /\ \A q \in Requests : answer'[q] # "none" => Made(q)
            BY <1>0, <1>3, <2>3 DEF CloseWindow, Answers
        <3> QED BY <2>0, <2>3, <3>1 DEF CloseWindow, TypeOK, MadeInv, Made, queues, Answers, signed
    <2>5. CASE RejectAccess(r)
        <3>1. answer' \in [Requests -> {"none"} \cup Answers] /\ \A q \in Requests : answer'[q] # "none" => Made(q)
            BY <1>0, <1>3, <2>5 DEF RejectAccess, Answers
        <3> QED BY <2>0, <2>5, <3>1 DEF RejectAccess, TypeOK, MadeInv, Made, world, Answers, signed
    <2>6. CASE Mount(r) \/ Unmount(r)
        BY <2>6 DEF Mount, Unmount, MarkQueueActive, TypeOK, MadeInv, Made, world, signed
    <2>7. CASE WindowMissing(r)
        <3>1. answer' \in [Requests -> {"none"} \cup Answers] /\ \A q \in Requests : answer'[q] # "none" => Made(q)
            BY <1>3, <2>0, <2>7 DEF WindowMissing, Answers
        <3> QED BY <2>0, <2>7, <3>1 DEF WindowMissing, PushResponse, TypeOK, MadeInv, Made, Answers, signed
    <2>8. CASE HandleSignedHwPayload(r)
        <3>1. answer' \in [Requests -> {"none"} \cup Answers] /\ \A q \in Requests : answer'[q] # "none" => Made(q)
            BY <1>0, <1>3, <2>8, HandedOver DEF HandleSignedHwPayload, Answers
        <3> QED BY <2>0, <2>8, <3>1, HandedOver DEF HandleSignedHwPayload, TypeOK, MadeInv, Made,
                   world, Answers
    <2>9. ASSUME NEW i \in Approvals[r], Approve(r, i) PROVE TypeInv'
        <3>1. Made(r) /\ HandlerOf(kind[r]) \in CallPcs
              /\ (HandlerOf(kind[r]) \in AccessPcs => kind[r] \in AccessKinds)
            BY <2>0, <2>9 DEF Approve, HandlerOf, CallPcs, AccessPcs, TypeOK, Made, ItemKinds, SigningKinds
        <3>2. PICK c \in [pc : CallPcs, list : SUBSET Origins] :
                  c.pc = HandlerOf(kind[r]) /\ CallSet(r, i, c)
            BY <2>9, <3>1, CallGoesOn DEF Approve
        <3>3. answer \in [Requests -> {"none"} \cup Answers] /\ listed \subseteq Origins
              /\ \A q \in Requests : answer[q] # "none" => Made(q)
            BY DEF TypeOK, MadeInv, Answers
        <3>4. UNCHANGED <<kind, origin, window, active, signed, answer, items, responses, listed>>
              /\ approved' = approved \cup {r}
            BY <2>9 DEF Approve, world, queues
        <3> QED BY <3>1, <3>2, <3>3, <3>4, CallMoves
    <2> QED BY <1>4, <2>1, <2>2, <2>3, <2>5, <2>6, <2>7, <2>8, <2>9
<1>5. CASE Popup
    BY <1>4, <1>5 DEF Popup
<1>6. CASE CloseOther
    <2>1. answer' \in [Requests -> {"none"} \cup Answers] /\ \A q \in Requests : answer'[q] # "none" => Made(q)
        BY <1>0, <1>3, <1>6 DEF CloseOther, Answers
    <2> QED BY <1>6, <2>1 DEF CloseOther, TypeOK, MadeInv, Made, world, queues, Answers, signed
<1>7. ASSUME NEW old, NEW older, CleanupQueues(old, older) PROVE TypeInv'
    BY <1>7 DEF CleanupQueues, TypeOK, MadeInv, Made, world, signed
<1>8. CASE Restart
    <2>1. answer' \in [Requests -> {"none"} \cup Answers] /\ \A q \in Requests : answer'[q] # "none" => Made(q)
        BY <1>3, <1>8 DEF Restart, Answers, Made
    <2>2. /\ call' \in [Handlers -> [pc : CallPcs, list : SUBSET Origins]]
          /\ \A r \in Requests : \A i \in Approvals[r] : call'[<<r, i>>].pc = "idle"
        BY <1>8, IdleIsCall, IsHandler DEF Restart
    <2> QED BY <1>8, <2>1, <2>2 DEF Restart, TypeOK, MadeInv, Made, Answers, AccessPcs, signed
<1>9. CASE UNCHANGED vars
    BY <1>9 DEF vars, world, queues, TypeOK, MadeInv, Made, signed
<1> QED BY <1>1, <1>2, <1>5, <1>6, <1>7, <1>8, <1>9 DEF Next

(* TypeOK, for any number of requests, domains and restarts.               *)
THEOREM QueueTypes == Spec => []TypeOK
<1>1. Init => TypeInv
    BY InitHolds
<1>2. TypeInv /\ [Next]_vars => TypeInv'
    BY StepKeepsTypes
<1>3. TypeInv => TypeOK
    BY DEF TypeInv
<1> QED BY <1>1, <1>2, <1>3, PTL DEF Spec

----------------------------------------------------------------------------
\* An item that is still in its queue has not been signed by the wallet, and a
\* dapp whose response is queued, or yet to be, has been handed nothing.
SignedInv ==
    \A r \in Requests :
        /\ signatures[r] <= 1 /\ (r \in items => signatures[r] = 0)
        /\ handed[r] <= 1 /\ (window[r] \in {"none", "creating"} \/ r \in responses => handed[r] = 0)
        /\ r \in responses /\ kind[r] # "allowed" => window[r] \notin {"none", "creating"}

\* The response that is called leaves its queue.
LEMMA Handed ==
    ASSUME TypeInv, SignedInv, NEW r \in Requests, kind[r] \in SigningKinds, HandOver(r), window' = window
    PROVE  \A q \in Requests :
               handed'[q] <= 1 /\ (window'[q] \in {"none", "creating"} \/ q \in responses' => handed'[q] = 0)
<1> SUFFICES ASSUME NEW q \in Requests
             PROVE  handed'[q] <= 1 /\ (window'[q] \in {"none", "creating"} \/ q \in responses' => handed'[q] = 0)
    OBVIOUS
<1>1. CASE q = r
    <2>1. responses' = responses \ {r} /\ handed'[r] = IF r \in responses THEN handed[r] + 1 ELSE handed[r]
        BY HandedOver
    <2>2. r \in responses => window[r] \notin {"none", "creating"}
        BY DEF SignedInv, SigningKinds
    <2> QED BY <1>1, <2>1, <2>2 DEF SignedInv, TypeInv, TypeOK
<1>2. CASE q # r
    BY <1>2, HandedOver DEF SignedInv
<1> QED BY <1>1, <1>2

LEMMA StepKeepsSigned == TypeInv /\ SignedInv /\ [Next]_vars => SignedInv'
<1> SUFFICES ASSUME TypeInv, SignedInv, [Next]_vars PROVE SignedInv'
    OBVIOUS
<1> USE DEF SignedInv
<1>0. ASSUME items' \subseteq items, responses' \subseteq responses, UNCHANGED <<kind, window, signed>>
      PROVE  SignedInv'
    BY <1>0 DEF signed
<1>1. ASSUME NEW r \in Requests, NEW i \in Approvals[r], NEW k \in SigningKinds, Sign(r, i, k) PROVE SignedInv'
    <2>1. CASE UNCHANGED <<responses, answer, signed>>
        BY <1>0, <1>1, <2>1 DEF Sign, world
    <2>2. CASE r \in items /\ items' = items \ {r} /\ signatures' = [signatures EXCEPT ![r] = @ + 1] /\ HandOver(r)
        <3>1. signatures'[r] = signatures[r] + 1 /\ \A q \in Requests : q # r => signatures'[q] = signatures[q]
            BY <2>2 DEF TypeInv, TypeOK
        <3>2. UNCHANGED <<kind, window>> /\ kind[r] \in SigningKinds /\ responses' \subseteq responses
            BY <1>1, <2>2, HandedOver DEF Sign, world
        <3>3. signatures[r] = 0 /\ r \notin items' /\ \A q \in Requests : q # r => (q \in items' <=> q \in items)
            BY <2>2
        <3> QED BY <2>2, <3>1, <3>2, <3>3, Handed
    <2> QED BY <1>1, <2>1, <2>2 DEF Sign
<1>2. ASSUME NEW r \in Requests, NEW k \in Kinds, NEW o \in Origins, Ask(r, k, o),
             items' \subseteq items \cup {r},
             responses' = responses \/ (k = "allowed" /\ responses' = responses \cup {r}),
             CreateWindow(r) \/ UNCHANGED window
      PROVE  SignedInv'
    <2>1. /\ signatures[r] = 0 /\ handed[r] = 0 /\ UNCHANGED signed /\ r \notin responses
          /\ kind'[r] = k /\ \A q \in Requests : q # r => kind'[q] = kind[q]
        BY <1>2, Asked DEF TypeInv, TypeOK, Made
    <2>2. \A q \in Requests : q # r => window'[q] = window[q]
        BY <1>2 DEF CreateWindow, TypeInv, TypeOK
    <2> QED BY <1>2, <2>1, <2>2 DEF signed
<1>3. ASSUME NEW r \in Requests, window[r] = "creating", items' \subseteq items, PushResponse(r) \/ UNCHANGED responses,
             window' \in {[window EXCEPT ![r] = "shown"], [window EXCEPT ![r] = "closed"]},
             UNCHANGED <<kind, signed>>
      PROVE  SignedInv'
    <2>1. window'[r] \in {"shown", "closed"} /\ \A q \in Requests : q # r => window'[q] = window[q]
        BY <1>3 DEF TypeInv, TypeOK
    <2> QED BY <1>3, <2>1 DEF PushResponse, signed
<1>4. CASE Dapp
    <2> SUFFICES ASSUME NEW r \in Requests, NEW o \in Origins,
                        \/ SubmitTransaction(r, o) \/ SubmitBlob(r, o) \/ SubmitAuthEntry(r, o)
                        \/ SubmitToken(r, o) \/ RequestAccess(r, o) \/ SetAllowedStatus(r, o)
                 PROVE  SignedInv'
        BY <1>4 DEF Dapp
    <2>1. ASSUME NEW k \in ItemKinds, Ask(r, k, o), Enqueue(r) PROVE SignedInv'
        BY <1>2, <2>1 DEF Enqueue, Kinds
    <2>2. CASE RequestAccess(r, o)
        BY <1>2, <2>2 DEF RequestAccess, Kinds, AccessKinds
    <2>3. CASE SetAllowedStatus(r, o)
        BY <1>2, <2>3 DEF SetAllowedStatus, Kinds, AccessKinds
    <2> QED BY <2>1, <2>2, <2>3 DEF SubmitTransaction, SubmitBlob, SubmitAuthEntry, SubmitToken,
            ItemKinds, SigningKinds
<1>5. CASE Background
    <2>1. ASSUME NEW r \in Requests, NEW i \in Approvals[r],
                 \/ AddToken(r, i) \/ TokenAdded(r, i)
                 \/ GrantAccess(r, i) \/ SetAllowListDomain(r, i) \/ AnswerGrant(r, i)
          PROVE  SignedInv'
        BY <1>0, <2>1 DEF AddToken, TokenAdded, GrantAccess, SetAllowListDomain, AnswerGrant, queues, world
    <2> QED BY <1>1, <1>5, <2>1 DEF Background, SignTransaction, SignBlob, SignAuthEntry, SigningKinds
<1>6. CASE Popup
    <2> SUFFICES ASSUME NEW r \in Requests,
                        \/ WindowCreated(r) \/ WindowRefused(r) \/ WindowMissing(r) \/ CloseWindow(r)
                        \/ Mount(r) \/ Unmount(r) \/ RejectAccess(r) \/ HandleSignedHwPayload(r)
                        \/ \E i \in Approvals[r] : Approve(r, i)
                 PROVE  SignedInv'
        BY <1>6 DEF Popup
    <2>1. CASE WindowCreated(r) \/ WindowRefused(r) \/ WindowMissing(r)
        BY <1>3, <2>1 DEF WindowCreated, WindowRefused, WindowMissing, queues
    <2>2. CASE CloseWindow(r)
        <3>1. window'[r] = "closed" /\ window[r] = "shown" /\ \A q \in Requests : q # r => window'[q] = window[q]
            BY <2>2 DEF CloseWindow, TypeInv, TypeOK
        <3> QED BY <2>2, <3>1 DEF CloseWindow, queues, signed
    <2>3. CASE HandleSignedHwPayload(r)
        <3>1. /\ HandOver(r) /\ kind[r] \in SigningKinds /\ responses' \subseteq responses
              /\ UNCHANGED <<kind, window, items, signatures>>
            BY <2>3, HandedOver DEF HandleSignedHwPayload, world
        <3> QED BY <3>1, Handed
    <2>4. CASE Mount(r) \/ Unmount(r) \/ RejectAccess(r) \/ \E i \in Approvals[r] : Approve(r, i)
        BY <1>0, <2>4 DEF Mount, Unmount, RejectAccess, Approve, queues, world
    <2> QED BY <2>1, <2>2, <2>3, <2>4
<1>7. ASSUME NEW old, NEW older, CleanupQueues(old, older) PROVE SignedInv'
    BY <1>0, <1>7 DEF CleanupQueues, world
<1>8. CASE CloseOther \/ Restart \/ UNCHANGED vars
    BY <1>0, <1>8 DEF CloseOther, Restart, queues, vars, world
<1> QED BY <1>4, <1>5, <1>6, <1>7, <1>8 DEF Next

(* SignedOnce: however many approvals are handled at once, a payload is    *)
(* signed once by the wallet's keys, and one is handed to the dapp.        *)
THEOREM PayloadsSignedOnce == Spec => []SignedOnce
<1>1. Init => TypeInv /\ SignedInv
    BY InitHolds DEF Init, SignedInv
<1>2. TypeInv /\ SignedInv /\ [Next]_vars => TypeInv' /\ SignedInv'
    BY StepKeepsTypes, StepKeepsSigned
<1>3. SignedInv => SignedOnce
    BY DEF SignedInv, SignedOnce
<1> QED BY <1>1, <1>2, <1>3, PTL DEF Spec

----------------------------------------------------------------------------
\* A request loses its window in the step that answers it.
LEMMA StepKeepsWindows == TypeInv /\ WaitingHasWindow /\ [Next]_vars => WaitingHasWindow'
<1> SUFFICES ASSUME TypeInv, WaitingHasWindow, [Next]_vars PROVE WaitingHasWindow'
    OBVIOUS
<1> USE DEF WaitingHasWindow
<1>1. ASSUME NEW rs, NEW a \in Answers, Resolve(rs, a), UNCHANGED <<kind, window>>
      PROVE  WaitingHasWindow'
    BY <1>1, Resolved
<1>2. ASSUME UNCHANGED <<kind, window, answer>> PROVE WaitingHasWindow'
    BY <1>2
<1>3. CASE Dapp
    <2> SUFFICES ASSUME NEW r \in Requests, NEW o \in Origins,
                        \/ SubmitTransaction(r, o) \/ SubmitBlob(r, o) \/ SubmitAuthEntry(r, o)
                        \/ SubmitToken(r, o) \/ RequestAccess(r, o) \/ SetAllowedStatus(r, o)
                 PROVE  WaitingHasWindow'
        BY <1>3 DEF Dapp
    <2>1. ASSUME NEW k \in ItemKinds, Ask(r, k, o), Enqueue(r) PROVE WaitingHasWindow'
        BY <2>1, Asked DEF Enqueue, CreateWindow, Kinds, TypeInv, TypeOK
    <2>2. ASSUME NEW k \in AccessKinds, Ask(r, k, o),
                 \/ Resolve({r}, "granted") /\ UNCHANGED window
                 \/ CreateWindow(r) /\ UNCHANGED answer
          PROVE  WaitingHasWindow'
        <3>1. kind'[r] = k /\ k \notin ItemKinds
              /\ \A q \in Requests : q # r => kind'[q] = kind[q]
            BY <2>2, Asked DEF Kinds, AccessKinds, ItemKinds, SigningKinds
        <3>2. \A q \in Requests : q # r => answer'[q] = answer[q] /\ window'[q] = window[q]
            BY <2>2, Resolved DEF Answers, CreateWindow, TypeInv, TypeOK
        <3> QED BY <3>1, <3>2
    <2> QED BY <2>1, <2>2 DEF SubmitTransaction, SubmitBlob, SubmitAuthEntry, SubmitToken, RequestAccess,
            SetAllowedStatus, ItemKinds, SigningKinds, AccessKinds
<1>4. CASE Background
    BY <1>1, <1>2, <1>4 DEF Background, SignTransaction, SignBlob, SignAuthEntry, Sign, HandOver, AddToken,
        TokenAdded, GrantAccess, SetAllowListDomain, AnswerGrant, Answers, world
<1>5. ASSUME NEW r \in Requests, WindowCreated(r) PROVE WaitingHasWindow'
    BY <1>5 DEF WindowCreated, TypeInv, TypeOK
<1>6. ASSUME NEW r \in Requests, WindowRefused(r) \/ WindowMissing(r) PROVE WaitingHasWindow'
    <2>1. kind[r] \in ItemKinds => answer'[r] # "none"
        BY <1>6, Resolved DEF WindowRefused, WindowMissing, Answers, ItemKinds, SigningKinds
    <2>2. \A q \in Requests : answer[q] # "none" => answer'[q] # "none"
        BY <1>6, Resolved DEF WindowRefused, WindowMissing, Answers
    <2> QED BY <1>6, <2>1, <2>2 DEF WindowRefused, WindowMissing, TypeInv, TypeOK
<1>7. ASSUME NEW r \in Requests, CloseWindow(r) PROVE WaitingHasWindow'
    <2>1. kind[r] \in ItemKinds => answer'[r] # "none"
        BY <1>7, Resolved DEF CloseWindow, Answers, Listening
    <2>2. \A q \in Requests : answer[q] # "none" => answer'[q] # "none"
        BY <1>7, Resolved DEF CloseWindow, Answers
    <2> QED BY <1>7, <2>1, <2>2 DEF CloseWindow, TypeInv, TypeOK
<1>8. CASE Popup
    BY <1>1, <1>2, <1>5, <1>6, <1>7, <1>8 DEF Popup, Approve, RejectAccess, HandleSignedHwPayload,
        HandOver, Mount, Unmount, Answers, world
<1>9. CASE CloseOther \/ Restart \/ UNCHANGED vars \/ (\E old \in SUBSET Requests : \E older \in SUBSET old : CleanupQueues(old, older))
    BY <1>1, <1>2, <1>9 DEF CloseOther, CleanupQueues, Restart, Answers, world, vars
<1> QED BY <1>3, <1>4, <1>8, <1>9 DEF Next

(* WaitingHasWindow: a dapp that waits for a signature or a token has a    *)
(* popup that can still answer it.                                         *)
THEOREM WaitingDappsHaveWindows == Spec => []WaitingHasWindow
<1>1. Init => TypeInv /\ WaitingHasWindow
    BY InitHolds DEF Init, WaitingHasWindow, ItemKinds, SigningKinds
<1>2. TypeInv /\ WaitingHasWindow /\ [Next]_vars => TypeInv' /\ WaitingHasWindow'
    BY StepKeepsTypes, StepKeepsWindows
<1> QED BY <1>1, <1>2, PTL DEF Spec

\* A request stays of its kind.
LEMMA KindStays ==
    ASSUME TypeInv, [Next]_vars, NEW r \in Requests, kind[r] \in ItemKinds
    PROVE  kind'[r] = kind[r]
<1>1. kind[r] # "none"
    BY DEF ItemKinds, SigningKinds
<1>2. ASSUME NEW q \in Requests, NEW k, NEW o, Ask(q, k, o) PROVE kind'[r] = kind[r]
    BY <1>1, <1>2 DEF Ask, TypeInv, TypeOK
<1>3. CASE Dapp
    BY <1>2, <1>3 DEF Dapp, SubmitTransaction, SubmitBlob, SubmitAuthEntry, SubmitToken,
       RequestAccess, SetAllowedStatus
<1>4. CASE Popup
    BY <1>4 DEF Popup, WindowCreated, WindowRefused, WindowMissing, CloseWindow, Mount, Unmount,
       Approve, RejectAccess, HandleSignedHwPayload, world
<1>5. CASE Background
    BY <1>5 DEF Background, SignTransaction, SignBlob, SignAuthEntry, Sign, AddToken, TokenAdded,
       GrantAccess, SetAllowListDomain, AnswerGrant, world
<1>6. CASE CloseOther \/ Restart \/ UNCHANGED vars \/ (\E old \in SUBSET Requests : \E older \in SUBSET old : CleanupQueues(old, older))
    BY <1>6 DEF CloseOther, CleanupQueues, Restart, world, vars
<1> QED BY <1>3, <1>4, <1>5, <1>6 DEF Next

\* Whatever became of a request meanwhile, its dapp is answered when the popup
\* is closed.
LEMMA ClosedMeansAnswered ==
    ASSUME NEW r \in Requests
    PROVE  Spec => ((kind[r] \in ItemKinds ~> window[r] = "closed")
                        => (kind[r] \in ItemKinds ~> answer[r] # "none"))
<1>1. Init => TypeInv /\ WaitingHasWindow
    BY InitHolds DEF Init, WaitingHasWindow, ItemKinds, SigningKinds
<1>2. TypeInv /\ WaitingHasWindow /\ [Next]_vars => TypeInv' /\ WaitingHasWindow'
    BY StepKeepsTypes, StepKeepsWindows
<1>3. TypeInv /\ kind[r] \in ItemKinds /\ [Next]_vars => (kind[r] \in ItemKinds)'
    BY KindStays
<1>4. WaitingHasWindow /\ kind[r] \in ItemKinds /\ window[r] = "closed" => answer[r] # "none"
    BY DEF WaitingHasWindow
<1> QED BY <1>1, <1>2, <1>3, <1>4, PTL DEF Spec

\* What SigningAnswered wants of the browser and the user is only that popups
\* are closed in the end, approved or not (freighterApiMessageListener.ts:369).
THEOREM AnsweredOncePopupsClose ==
    Spec => ((\A r \in Requests : kind[r] \in ItemKinds ~> window[r] = "closed")
                 => SigningAnswered)
BY ClosedMeansAnswered DEF SigningAnswered

----------------------------------------------------------------------------
\* A domain of which the user has approved a request.
Vouched(o) == \E q \in approved : origin[q] = o

\* Only what was approved is being handled, and only vouched domains are listed
\* or about to be.
GrantInv ==
    /\ \A r \in Requests : \A i \in Approvals[r] :
          (call[<<r, i>>].pc # "idle" => r \in approved) /\ \A o \in call[<<r, i>>].list : Vouched(o)
    /\ \A o \in listed : Vouched(o)
    /\ \A r \in Requests : answer[r] = "granted" =>
          r \in approved \/ (kind[r] \in AccessKinds /\ Vouched(origin[r]))

\* A step that makes no request, grants what was approved and lists what is vouched for.
LEMMA GrantStep ==
    ASSUME TypeInv, GrantInv, UNCHANGED <<kind, origin>>, approved \subseteq approved',
           \A r \in Requests : \A i \in Approvals[r] :
               /\ call'[<<r, i>>].pc # "idle" => r \in approved'
               /\ \A o \in call'[<<r, i>>].list : o \in listed \/ o \in call[<<r, i>>].list,
           \A o \in listed' : o \in listed \/ Vouched(o),
           \A r \in Requests : answer'[r] = "granted" => answer[r] = "granted" \/ r \in approved'
    PROVE  GrantInv'
<1>1. \A o : Vouched(o) => Vouched(o)'
    BY DEF Vouched
<1> QED BY <1>1 DEF GrantInv

\* Declining or failing grants nothing.
LEMMA OthersGrantNothing ==
    ASSUME TypeInv, NEW rs, NEW a \in {"declined", "failed"}, Resolve(rs, a)
    PROVE  \A r \in Requests : answer'[r] = "granted" => answer[r] = "granted"
BY Resolved DEF Answers

LEMMA StepKeepsGrants == TypeInv /\ GrantInv /\ [Next]_vars => GrantInv'
<1> SUFFICES ASSUME TypeInv, GrantInv, [Next]_vars PROVE GrantInv'
    OBVIOUS
<1>0. \A r \in Requests : \A i \in Approvals[r] : call[<<r, i>>].pc # "idle" => r \in approved
    BY DEF GrantInv
<1>1. CASE Dapp
    <2> SUFFICES ASSUME NEW r \in Requests, NEW o \in Origins,
                        \/ SubmitTransaction(r, o) \/ SubmitBlob(r, o) \/ SubmitAuthEntry(r, o)
                        \/ SubmitToken(r, o) \/ RequestAccess(r, o) \/ SetAllowedStatus(r, o)
                 PROVE  GrantInv'
        BY <1>1 DEF Dapp
    <2>1. PICK k \in Kinds :
              /\ Ask(r, k, o)
              /\ \/ UNCHANGED answer
                 \/ k \in AccessKinds /\ o \in listed /\ Resolve({r}, "granted")
        BY DEF SubmitTransaction, SubmitBlob, SubmitAuthEntry, SubmitToken, Enqueue, RequestAccess,
           SetAllowedStatus, Kinds, ItemKinds, SigningKinds, AccessKinds
    <2>2. /\ r \notin approved /\ kind'[r] = k /\ origin'[r] = o /\ answer[r] = "none"
          /\ \A q \in Requests : q # r => kind'[q] = kind[q] /\ origin'[q] = origin[q]
          /\ UNCHANGED <<listed, call, approved>>
        BY <2>1, Asked
    <2>3. \A d : Vouched(d) => Vouched(d)'
        BY <2>2 DEF Vouched, TypeInv, TypeOK
    <2>4. \A q \in Requests : answer'[q] = "granted" =>
              (answer[q] = "granted" /\ q # r) \/ (q = r /\ k \in AccessKinds /\ o \in listed)
        BY <2>1, <2>2, Resolved DEF Answers
    <2> QED BY <2>2, <2>3, <2>4 DEF GrantInv
<1>2. ASSUME NEW r \in Requests, NEW i \in Approvals[r], NEW k, Sign(r, i, k) PROVE GrantInv'
    <2>1. r \in approved /\ UNCHANGED <<kind, origin, approved, listed>>
        BY <1>0, <1>2 DEF Sign, world
    <2>2. \A q \in Requests : \A j \in Approvals[q] : call'[<<q, j>>] \in {call[<<q, j>>], Idle}
        <3>1. CallSet(r, i, Idle)
            BY <1>2 DEF Sign, CallEnds, CallSet
        <3>2. \A q \in Requests : \A j \in Approvals[q] :
                  call'[<<q, j>>] = call[<<q, j>>] \/ (q = r /\ call'[<<q, j>>] = Idle)
            BY <3>1, CallMoved, IdleIsCall
        <3> QED BY <3>2
    <2>3. \A q \in Requests : answer'[q] = "granted" => answer[q] = "granted" \/ q = r
        BY <1>2, Resolved DEF Sign, HandOver, Answers
    <2> QED BY <1>0, <2>1, <2>2, <2>3, GrantStep, IdleIsCall
<1>3. ASSUME NEW r \in Requests, NEW i \in Approvals[r], NEW pc \in CallPcs, NEW list \in SUBSET Origins,
             CallGoes(r, i, pc, list) \/ CallEnds(r, i), call[<<r, i>>].pc # "idle",
             list \subseteq listed, UNCHANGED <<kind, origin, approved>>,
             \A o \in listed' : o \in listed \cup call[<<r, i>>].list \cup {origin[r]},
             \A q \in Requests : answer'[q] = "granted" => answer[q] = "granted" \/ q = r
      PROVE  GrantInv'
    <2>1. r \in approved
        BY <1>0, <1>3
    <2>2. \A o \in listed' : o \in listed \/ Vouched(o)
        BY <1>3, <2>1 DEF GrantInv, Vouched
    <2>4. PICK c \in [pc : CallPcs, list : SUBSET Origins] :
              c.list \subseteq listed /\ CallSet(r, i, c)
        BY <1>3, CallGoesOn, IdleIsCall DEF CallEnds, CallSet
    <2>3. \A q \in Requests : \A j \in Approvals[q] :
              call'[<<q, j>>] = call[<<q, j>>] \/ (q = r /\ call'[<<q, j>>].list \subseteq listed)
        <3>1. \A q \in Requests : \A j \in Approvals[q] :
                  call'[<<q, j>>] = call[<<q, j>>] \/ (q = r /\ call'[<<q, j>>] = c)
            BY <2>4, CallMoved
        <3> QED BY <2>4, <3>1
    <2> QED BY <1>0, <1>3, <2>1, <2>2, <2>3, GrantStep
<1>4. CASE Background
    <2> SUFFICES ASSUME NEW r \in Requests, NEW i \in Approvals[r],
                        \/ SignTransaction(r, i) \/ SignBlob(r, i) \/ SignAuthEntry(r, i)
                        \/ AddToken(r, i) \/ TokenAdded(r, i)
                        \/ GrantAccess(r, i) \/ SetAllowListDomain(r, i) \/ AnswerGrant(r, i)
                 PROVE  GrantInv'
        BY <1>4 DEF Background
    <2>0. listed \in SUBSET Origins /\ {} \in SUBSET Origins
        BY DEF TypeInv, TypeOK
    <2>1. CASE SignTransaction(r, i) \/ SignBlob(r, i) \/ SignAuthEntry(r, i)
        BY <1>2, <2>1 DEF SignTransaction, SignBlob, SignAuthEntry
    <2>2. CASE AddToken(r, i)
        BY <1>3, <2>0, <2>2 DEF AddToken, CallPcs, world
    <2>3. CASE TokenAdded(r, i)
        BY <1>3, <2>0, <2>3, Resolved DEF TokenAdded, CallPcs, world, Answers
    <2>4. CASE GrantAccess(r, i)
        BY <1>3, <2>0, <2>4 DEF GrantAccess, CallPcs, AccessPcs, world
    <2>5. CASE SetAllowListDomain(r, i)
        BY <1>3, <2>0, <2>5 DEF SetAllowListDomain, CallPcs, AccessPcs, world
    <2>6. CASE AnswerGrant(r, i)
        <3>1. \A q \in Requests : answer'[q] = "granted" => answer[q] = "granted" \/ q = r
            BY <2>6, Resolved DEF AnswerGrant, Answers
        <3> QED BY <1>3, <2>0, <2>6, <3>1 DEF AnswerGrant, CallPcs, AccessPcs, world
    <2> QED BY <2>1, <2>2, <2>3, <2>4, <2>5, <2>6
<1>5. CASE Popup
    <2> SUFFICES ASSUME NEW r \in Requests,
                        \/ WindowCreated(r) \/ WindowRefused(r) \/ WindowMissing(r) \/ CloseWindow(r)
                        \/ Mount(r) \/ Unmount(r) \/ RejectAccess(r) \/ HandleSignedHwPayload(r)
                        \/ \E i \in Approvals[r] : Approve(r, i)
                 PROVE  GrantInv'
        BY <1>5 DEF Popup
    <2>1. ASSUME NEW i \in Approvals[r], Approve(r, i) PROVE GrantInv'
        <3>0. HandlerOf(kind[r]) \in CallPcs
            BY DEF HandlerOf, CallPcs, AccessPcs
        <3>2. PICK c \in [pc : CallPcs, list : SUBSET Origins] :
                  c.list = {} /\ CallSet(r, i, c)
            BY <2>1, <3>0, CallGoesOn DEF Approve
        <3>1. \A q \in Requests : \A j \in Approvals[q] :
                  call'[<<q, j>>] = call[<<q, j>>] \/ (q = r /\ call'[<<q, j>>].list = {})
            <4>1. \A q \in Requests : \A j \in Approvals[q] :
                      call'[<<q, j>>] = call[<<q, j>>] \/ (q = r /\ call'[<<q, j>>] = c)
                BY <3>2, CallMoved
            <4> QED BY <3>2, <4>1
        <3> QED BY <1>0, <2>1, <3>1, GrantStep DEF Approve, world
    <2>2. CASE HandleSignedHwPayload(r)
        <3>1. \A q \in Requests : answer'[q] = "granted" => answer[q] = "granted" \/ q = r
            BY <2>2, Resolved DEF HandleSignedHwPayload, HandOver, Answers
        <3> QED BY <1>0, <2>2, <3>1, GrantStep DEF HandleSignedHwPayload, world
    <2>3. CASE WindowRefused(r) \/ WindowMissing(r) \/ CloseWindow(r) \/ RejectAccess(r)
        <3>1. \A q \in Requests : answer'[q] = "granted" => answer[q] = "granted"
            BY <2>3, OthersGrantNothing DEF WindowRefused, WindowMissing, CloseWindow, RejectAccess
        <3> QED BY <1>0, <2>3, <3>1, GrantStep DEF WindowRefused, WindowMissing, CloseWindow,
                RejectAccess, world
    <2>4. CASE WindowCreated(r) \/ Mount(r) \/ Unmount(r)
        BY <1>0, <2>4, GrantStep DEF WindowCreated, Mount, Unmount, world
    <2> QED BY <2>1, <2>2, <2>3, <2>4
<1>6. CASE CloseOther
    BY <1>0, <1>6, GrantStep, OthersGrantNothing DEF CloseOther, world
<1>7. CASE UNCHANGED vars \/ (\E old \in SUBSET Requests : \E older \in SUBSET old : CleanupQueues(old, older))
    BY <1>0, <1>7, GrantStep DEF CleanupQueues, vars, world
<1>8. CASE Restart
    <2>1. \A r \in Requests : \A i \in Approvals[r] : call'[<<r, i>>].pc = "idle" /\ call'[<<r, i>>].list = {}
        BY <1>8, IdleIsCall, IsHandler DEF Restart
    <2> QED BY <1>8, <2>1, GrantStep, OthersGrantNothing DEF Restart
<1> QED BY <1>1, <1>4, <1>5, <1>6, <1>7, <1>8 DEF Next

(* GrantedMeansApproved: whatever is interleaved, closed, cleaned up or     *)
(* restarted, a dapp hears yes only about a request the user approved, or   *)
(* access for a domain the user approved before.                            *)
THEOREM GrantsAreApproved == Spec => []GrantedMeansApproved
<1>1. Init => TypeInv /\ GrantInv
    <2> SUFFICES ASSUME Init PROVE GrantInv
        BY InitHolds
    <2>1. \A r \in Requests : \A i \in Approvals[r] : call[<<r, i>>] = Idle
        BY IsHandler DEF Init
    <2> QED BY <2>1, IdleIsCall DEF Init, GrantInv
<1>2. TypeInv /\ GrantInv /\ [Next]_vars => TypeInv' /\ GrantInv'
    BY StepKeepsTypes, StepKeepsGrants
<1>3. GrantInv => GrantedMeansApproved
    BY DEF GrantInv, GrantedMeansApproved, Vouched
<1> QED BY <1>1, <1>2, <1>3, PTL DEF Spec

\* While r is marked active it leaves a queue only for a decision about it.
Kept(r) ==
    /\ r \in items \ items' => \E i \in Approvals[r] : call[<<r, i>>].pc # "idle"
    /\ r \in responses \ responses' =>
        answer'[r] # "none" \/ \E i \in Approvals[r] : call'[<<r, i>>].pc = "listing"

(* KeptWhileShown: neither age nor the decision about another request      *)
(* takes a request that is on screen out of its queues.                    *)
THEOREM ShownRequestsAreKept == Spec => KeptWhileShown
<1>1. TypeInv /\ [Next]_vars => [\A r \in active \cap active' : Kept(r)]_vars
    <2> SUFFICES ASSUME TypeInv, Next, NEW r \in active, r \in active' PROVE Kept(r)
        OBVIOUS
    <2>0. r \in Requests /\ answer \in [Requests -> {"none"} \cup Answers]
        BY DEF TypeInv, TypeOK, Answers
    \* The answer of a response that is taken is settled by who takes it.
    <2>1. ASSUME NEW q \in Requests, NEW a \in Answers, responses' = responses \ {q},
                 Resolve({q} \cap responses, a), items' \in {items, items \ {q}},
                 items' = items \/ \E i \in Approvals[q] : call[<<q, i>>].pc # "idle"
          PROVE  Kept(r)
        BY <2>0, <2>1 DEF Kept, Resolve, Answers
    <2>2. ASSUME items \subseteq items', responses \subseteq responses' PROVE Kept(r)
        BY <2>2 DEF Kept
    <2>3. CASE Dapp
        BY <2>2, <2>3 DEF Dapp, SubmitTransaction, SubmitBlob, SubmitAuthEntry, SubmitToken, Enqueue,
           RequestAccess, SetAllowedStatus
    <2>4. CASE Popup
        <3>1. ASSUME NEW q \in Requests, RejectAccess(q) \/ HandleSignedHwPayload(q) PROVE Kept(r)
            BY <2>1, <3>1 DEF RejectAccess, HandleSignedHwPayload, HandOver, Answers
        <3> QED BY <2>2, <2>4, <3>1 DEF Popup, WindowCreated, WindowRefused, WindowMissing, PushResponse,
                CloseWindow, Mount, Unmount, Approve, queues
    <2>5. CASE Background
        <3>1. ASSUME NEW q \in Requests, NEW i \in Approvals[q], NEW k, Sign(q, i, k) PROVE Kept(r)
            <4>1. CASE responses' = responses
                BY <3>1, <4>1 DEF Sign, Kept
            <4>2. CASE responses' # responses
                BY <2>1, <3>1, <4>2 DEF Sign, HandOver, Answers
            <4> QED BY <4>1, <4>2
        <3>2. ASSUME NEW q \in Requests, NEW i \in Approvals[q], AddToken(q, i) PROVE Kept(r)
            BY <3>2 DEF AddToken, Kept
        <3>3. ASSUME NEW q \in Requests, NEW i \in Approvals[q], TokenAdded(q, i) PROVE Kept(r)
            BY <2>1, <3>3 DEF TokenAdded, Answers
        <3>4. ASSUME NEW q \in Requests, NEW i \in Approvals[q], GrantAccess(q, i) PROVE Kept(r)
            <4>1. q \in responses => call'[<<q, i>>].pc = "listing"
                BY <3>4, IsHandler DEF GrantAccess, CallGoes, TypeInv, TypeOK
            <4> QED BY <2>0, <3>4, <4>1 DEF GrantAccess, Kept
        <3>5. ASSUME NEW q \in Requests, NEW i \in Approvals[q],
                     SetAllowListDomain(q, i) \/ AnswerGrant(q, i)
              PROVE  Kept(r)
            BY <2>2, <3>5 DEF SetAllowListDomain, AnswerGrant, queues
        <3> QED BY <2>5, <3>1, <3>2, <3>3, <3>4, <3>5
                DEF Background, SignTransaction, SignBlob, SignAuthEntry
    <2>6. CASE CloseOther \/ Restart \/ (\E old \in SUBSET Requests : \E older \in SUBSET old : CleanupQueues(old, older))
        BY <2>6 DEF CloseOther, CleanupQueues, Restart, Kept, queues
    <2> QED BY <2>3, <2>4, <2>5, <2>6 DEF Next
<1>2. Spec => []TypeInv
    BY InitHolds, StepKeepsTypes, PTL DEF Spec
<1> QED BY <1>1, <1>2, PTL DEF Spec, KeptWhileShown, Kept
=============================================================================
