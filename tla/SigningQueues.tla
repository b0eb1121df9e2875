---------------------------- MODULE SigningQueues ----------------------------
(***************************************************************************)
(* The requests dapps make of the wallet's background worker, and the      *)
(* module-level queues they wait in.  A request to sign or to add a token  *)
(* is pushed on the queue of its type, then its popup is created, then the *)
(* callback that answers it is pushed on responseQueue; a request for      *)
(* access has only the callback.  The popup's approval takes both out by   *)
(* the request's uuid, here the request itself.  The dapp's answer is a    *)
(* promise: the first resolution counts, later ones do nothing.            *)
(*                                                                         *)
(* The background is one thread; a handler is interrupted at each await.   *)
(* A popup that is reloaded may approve again while the handler of its     *)
(* first approval is still waiting: a request has several handlers.        *)
(***************************************************************************)
EXTENDS Naturals

CONSTANTS
    Requests,       \* requests, by their uuid
    Origins,        \* domains of the dapps
    Wants,          \* the kinds and domains each request may have
    Approvals,      \* of each request, those that may be handled at a time
    MaxRestarts     \* restarts of the service worker

Handlers == UNION {{r} \X Approvals[r] : r \in Requests}

SigningKinds == {"transaction", "blob", "authEntry"}
ItemKinds == SigningKinds \cup {"token"}
AccessKinds == {"access", "allowed"}

ASSUME QueuesAssumption ==
    /\ Wants \in [Requests -> SUBSET ((ItemKinds \cup AccessKinds) \X Origins)]
    /\ Approvals \in [Requests -> SUBSET Nat]
    /\ MaxRestarts \in Nat

VARIABLES
    kind, origin,   \* of each request, once it is made
    window,         \* the popup of each request
    answer,         \* what its dapp has been told
    items,          \* requests in transactionQueue, blobQueue, authEntryQueue, tokenQueue
    responses,      \* requests in responseQueue
    active,         \* activeQueueUuids
    listed,         \* domains on the allow list of the account
    call,           \* the handlers of each request's approvals
    approved,       \* requests the user has approved
    signatures,     \* how often the wallet's keys have signed each payload
    handed,         \* how often each dapp was handed its signed payload
    restarts

queues == <<items, responses, active>>
world == <<kind, origin, window, restarts>>
signed == <<signatures, handed>>
vars == <<world, answer, queues, listed, call, approved, signed>>

Idle == [pc |-> "idle", list |-> {}]

Init ==
    /\ kind = [r \in Requests |-> "none"] /\ origin = [r \in Requests |-> "none"]
    /\ window = [r \in Requests |-> "none"]
    /\ answer = [r \in Requests |-> "none"]
    /\ items = {} /\ responses = {} /\ active = {}
    /\ listed = {}
    /\ call = [h \in Handlers |-> Idle]
    /\ approved = {}
    /\ signatures = [r \in Requests |-> 0] /\ handed = [r \in Requests |-> 0]
    /\ restarts = 0

\* A promise keeps its first resolution.
Resolve(rs, a) ==
    answer' = [r \in Requests |-> IF r \in rs /\ answer[r] = "none" THEN a ELSE answer[r]]

-----------------------------------------------------------------------------
(* The dapp's side.                                                        *)
Ask(r, k, o) ==
    /\ kind[r] = "none" /\ <<k, o>> \in Wants[r]
    /\ kind' = [kind EXCEPT ![r] = k] /\ origin' = [origin EXCEPT ![r] = o]
    /\ UNCHANGED <<active, listed, call, approved, signed, restarts>>

CreateWindow(r) == window' = [window EXCEPT ![r] = "creating"]

Enqueue(r) == CreateWindow(r) /\ items' = items \cup {r} /\ UNCHANGED <<answer, responses>>

SubmitTransaction(r, o) == Ask(r, "transaction", o) /\ Enqueue(r)
SubmitBlob(r, o) == Ask(r, "blob", o) /\ Enqueue(r)
SubmitAuthEntry(r, o) == Ask(r, "authEntry", o) /\ Enqueue(r)
SubmitToken(r, o) == Ask(r, "token", o) /\ Enqueue(r)

\* A listed domain is asked again when the wallet is locked.
RequestAccess(r, o) ==
    /\ Ask(r, "access", o)
    /\ UNCHANGED <<items, responses>>
    /\ \/ o \in listed /\ Resolve({r}, "granted") /\ UNCHANGED window
       \/ CreateWindow(r) /\ UNCHANGED answer

\* Does not wait for its window; the list a locked wallet reads is empty.
SetAllowedStatus(r, o) ==
    /\ Ask(r, "allowed", o)
    /\ UNCHANGED items
    /\ \/ o \in listed /\ Resolve({r}, "granted") /\ UNCHANGED <<window, responses>>
       \/ CreateWindow(r) /\ responses' = responses \cup {r} /\ UNCHANGED answer

MarkQueueActive(r, isActive) == active' = IF isActive THEN active \cup {r} ELSE active \ {r}

\* The handler, unless a restart has ended it, goes on.
PushResponse(r) ==
    responses' = responses \cup (IF kind[r] # "allowed" /\ answer[r] = "none" THEN {r} ELSE {})

WindowCreated(r) ==
    /\ window[r] = "creating"
    /\ window' = [window EXCEPT ![r] = "shown"]
    /\ PushResponse(r)
    /\ UNCHANGED <<kind, origin, restarts, answer, items, active, listed, call, approved,
                   signed>>

\* The rejection of windows.create goes nowhere.
WindowRefusedSilently(r) ==
    /\ window[r] = "creating"
    /\ window' = [window EXCEPT ![r] = "closed"]
    /\ UNCHANGED <<kind, origin, restarts, answer, queues, listed, call, approved, signed>>

\* The queue item stays.
WindowRefused(r) ==
    /\ window[r] = "creating"
    /\ window' = [window EXCEPT ![r] = "closed"]
    /\ Resolve({r} \ {q \in Requests : kind[q] = "allowed"}, "failed")
    /\ UNCHANGED <<kind, origin, restarts, queues, listed, call, approved, signed>>

\* No error and no window: the response is queued for an answered dapp, and a
\* request for access waits.
WindowMissing(r) ==
    /\ window[r] = "creating"
    /\ window' = [window EXCEPT ![r] = "closed"]
    /\ PushResponse(r)
    /\ Resolve({r} \cap {q \in Requests : kind[q] \in ItemKinds}, "failed")
    /\ UNCHANGED <<kind, origin, restarts, items, active, listed, call, approved, signed>>

\* Requests whose promise listens to windows being closed, whichever they are.
Listening == {r \in Requests : kind[r] \in ItemKinds /\ window[r] # "creating"}

-----------------------------------------------------------------------------
(* The popup.                                                              *)
\* A popup marks its request as active when it is mounted and takes the mark
\* back when it goes, reloaded or closed, if its last message still gets through.
Mount(r) ==
    /\ window[r] = "shown"
    /\ MarkQueueActive(r, TRUE)
    /\ UNCHANGED <<world, answer, items, responses, listed, call, approved, signed>>

Unmount(r) ==
    /\ window[r] \in {"shown", "closed"}
    /\ MarkQueueActive(r, FALSE)
    /\ UNCHANGED <<world, answer, items, responses, listed, call, approved, signed>>

\* Without the listener.
CloseQuietly(r) ==
    /\ window[r] = "shown"
    /\ window' = [window EXCEPT ![r] = "closed"]
    /\ UNCHANGED <<kind, origin, restarts, answer, queues, listed, call, approved, signed>>

CloseWindow(r) ==
    /\ window[r] = "shown"
    /\ window' = [window EXCEPT ![r] = "closed"]
    /\ Resolve(Listening, "declined")
    /\ UNCHANGED <<kind, origin, restarts, queues, listed, call, approved, signed>>

CloseOther ==
    /\ Resolve(Listening, "declined")
    /\ UNCHANGED <<world, queues, listed, call, approved, signed>>

\* Everything that is not signed is granted.
SignOrGrant(k) == IF k \in SigningKinds THEN "signing" ELSE "granting"

HandlerOf(k) ==
    CASE k \in SigningKinds -> "signing" [] k = "token" -> "adding" [] OTHER -> "granting"

CallGoes(r, i, pc, list) == call' = [call EXCEPT ![<<r, i>>] = [pc |-> pc, list |-> list]]

Approve(r, i) ==
    /\ window[r] = "shown" /\ call[<<r, i>>].pc = "idle"
    /\ CallGoes(r, i, HandlerOf(kind[r]), {})
    /\ approved' = approved \cup {r}
    /\ UNCHANGED <<world, answer, queues, listed, signed>>

\* The popup sends this for every kind of request; the queue item stays.
RejectAccess(r) ==
    /\ window[r] = "shown"
    /\ responses' = responses \ {r}
    /\ Resolve({r} \cap responses, "declined")
    /\ UNCHANGED <<world, items, active, listed, call, approved, signed>>

\* The response of a request, if it still waits, is taken and called with what
\* was signed.
HandOver(r) ==
    /\ responses' = responses \ {r}
    /\ Resolve({r} \cap responses, "granted")
    /\ handed' = [handed EXCEPT ![r] = @ + (IF r \in responses THEN 1 ELSE 0)]

\* Signed on a hardware wallet by the popup; the queue item stays.
HandleSignedHwPayload(r) ==
    /\ window[r] = "shown" /\ kind[r] \in SigningKinds
    /\ approved' = approved \cup {r}
    /\ HandOver(r)
    /\ UNCHANGED <<world, items, active, listed, call, signatures>>

-----------------------------------------------------------------------------
(* Handlers of approvals, after their awaits.                              *)
CallEnds(r, i) == call' = [call EXCEPT ![<<r, i>>] = Idle]

\* Leaves the item for the cleaner.
SignAndKeep(r, i, k) ==
    /\ call[<<r, i>>].pc = "signing" /\ kind[r] = k
    /\ CallEnds(r, i)
    /\ r \in items
    /\ signatures' = [signatures EXCEPT ![r] = @ + 1]
    /\ HandOver(r)
    /\ UNCHANGED <<world, items, active, listed, approved>>

\* Answers with whatever response is at hand.
SignForAnyone(r, i, k) ==
    /\ call[<<r, i>>].pc = "signing" /\ kind[r] = k
    /\ CallEnds(r, i)
    /\ r \in items
    /\ items' = items \ {r}
    /\ signatures' = [signatures EXCEPT ![r] = @ + 1]
    /\ \E q \in responses : HandOver(q)
    /\ UNCHANGED <<world, active, listed, approved>>

\* The wallet may be locked and the item gone.  Otherwise the item is taken and
\* signed in one stretch, and the response with it; a signature that fails
\* leaves the response.
Sign(r, i, k) ==
    /\ call[<<r, i>>].pc = "signing" /\ kind[r] = k
    /\ CallEnds(r, i)
    /\ \/ UNCHANGED <<items, responses, answer, signed>>
       \/ /\ r \in items /\ items' = items \ {r}
          /\ \/ UNCHANGED <<responses, answer, signed>>
             \/ signatures' = [signatures EXCEPT ![r] = @ + 1] /\ HandOver(r)
    /\ UNCHANGED <<world, active, listed, approved>>

SignTransaction(r, i) == Sign(r, i, "transaction")
SignBlob(r, i) == Sign(r, i, "blob")
SignAuthEntry(r, i) == Sign(r, i, "authEntry")

\* Nobody may be logged in and the item may be gone.
AddToken(r, i) ==
    /\ call[<<r, i>>].pc = "adding"
    /\ \/ CallEnds(r, i) /\ UNCHANGED items
       \/ r \in items /\ items' = items \ {r} /\ CallGoes(r, i, "subscribing", {})
    /\ UNCHANGED <<world, answer, responses, active, listed, approved, signed>>

TokenAdded(r, i) ==
    /\ call[<<r, i>>].pc = "subscribing"
    /\ CallEnds(r, i)
    /\ responses' = responses \ {r}
    /\ \E outcome \in {"granted", "declined"} : Resolve({r} \cap responses, outcome)
    /\ UNCHANGED <<world, items, active, listed, approved, signed>>

\* Takes the response and reads the allow list.
GrantAccess(r, i) ==
    /\ call[<<r, i>>].pc = "granting"
    /\ responses' = responses \ {r}
    /\ IF r \in responses
       THEN CallGoes(r, i, "listing", listed)
       ELSE CallEnds(r, i)
    /\ UNCHANGED <<world, answer, items, active, listed, approved, signed>>

\* The whole list is written back.
SetAllowListDomain(r, i) ==
    /\ call[<<r, i>>].pc = "listing"
    /\ listed' = IF origin[r] \in call[<<r, i>>].list THEN listed
                                                 ELSE call[<<r, i>>].list \cup {origin[r]}
    /\ CallGoes(r, i, "answering", {})
    /\ UNCHANGED <<world, answer, queues, approved, signed>>

AnswerGrant(r, i) ==
    /\ call[<<r, i>>].pc = "answering"
    /\ CallEnds(r, i)
    /\ Resolve({r}, IF kind[r] = "allowed" /\ origin[r] \notin listed THEN "declined" ELSE "granted")
    /\ UNCHANGED <<world, queues, listed, approved, signed>>

-----------------------------------------------------------------------------
(* The cleaner and the worker.                                             *)
\* Drops the expired, on screen or not.
CleanupAll(old, older) ==
    /\ items' = items \ old
    /\ responses' = responses \ older
    /\ UNCHANGED <<world, answer, active, listed, call, approved, signed>>

\* Forgets the queues of the types.
CleanupResponses(old, older) ==
    /\ responses' = responses \ (older \ active)
    /\ UNCHANGED <<world, answer, items, active, listed, call, approved, signed>>

\* The items of old, and the responses of older, which were pushed after them,
\* have expired.
CleanupQueues(old, older) ==
    /\ items' = items \ (old \ active)
    /\ responses' = responses \ (older \ active)
    /\ UNCHANGED <<world, answer, active, listed, call, approved, signed>>

\* Queues, handlers and promises are gone; the popups stay on screen, and the
\* content script tells the dapps that their messages failed.
Restart ==
    /\ restarts < MaxRestarts /\ restarts' = restarts + 1
    /\ items' = {} /\ responses' = {} /\ active' = {}
    /\ call' = [h \in Handlers |-> Idle]
    /\ Resolve({r \in Requests : kind[r] # "none"}, "failed")
    /\ UNCHANGED <<kind, origin, window, listed, approved, signed>>

-----------------------------------------------------------------------------
Dapp ==
    \E r \in Requests, o \in Origins :
        \/ SubmitTransaction(r, o) \/ SubmitBlob(r, o) \/ SubmitAuthEntry(r, o)
        \/ SubmitToken(r, o) \/ RequestAccess(r, o) \/ SetAllowedStatus(r, o)

Popup ==
    \E r \in Requests :
        \/ WindowCreated(r) \/ WindowRefused(r) \/ WindowMissing(r) \/ CloseWindow(r)
        \/ Mount(r) \/ Unmount(r) \/ RejectAccess(r) \/ HandleSignedHwPayload(r)
        \/ \E i \in Approvals[r] : Approve(r, i)

Background ==
    \E r \in Requests : \E i \in Approvals[r] :
        \/ SignTransaction(r, i) \/ SignBlob(r, i) \/ SignAuthEntry(r, i)
        \/ AddToken(r, i) \/ TokenAdded(r, i)
        \/ GrantAccess(r, i) \/ SetAllowListDomain(r, i) \/ AnswerGrant(r, i)

Next ==
    \/ Dapp \/ Popup \/ Background
    \/ \E old \in SUBSET Requests : \E older \in SUBSET old : CleanupQueues(old, older)
    \/ CloseOther \/ Restart

Spec == Init /\ [][Next]_vars

\* The browser answers windows.create, windows are closed in the end (a popup
\* closes itself when the user has decided), and whatever waits is expired by
\* some tick of the cleaner's timer.  The user need not decide anything.
Fairness ==
    /\ \A r \in Requests :
        /\ WF_vars(WindowCreated(r) \/ WindowRefused(r) \/ WindowMissing(r))
        /\ WF_vars(CloseWindow(r))
    /\ WF_vars(CleanupQueues(Requests, Requests))

FairSpec == Spec /\ Fairness

-----------------------------------------------------------------------------
(* Properties.                                                             *)
AccessPcs == {"granting", "listing", "answering"}
CallPcs == {"idle", "signing", "adding", "subscribing"} \cup AccessPcs

\* Every entry of a queue is a request that was made; a handler works on a
\* request of its own kind.
TypeOK ==
    /\ kind \in [Requests -> ItemKinds \cup AccessKinds \cup {"none"}]
    /\ window \in [Requests -> {"none", "creating", "shown", "closed"}]
    /\ answer \in [Requests -> {"none", "granted", "declined", "failed"}]
    /\ items \subseteq {r \in Requests : kind[r] \in ItemKinds}
    /\ responses \subseteq {r \in Requests : kind[r] # "none"}
    /\ active \subseteq Requests /\ approved \subseteq Requests
    /\ signatures \in [Requests -> Nat] /\ handed \in [Requests -> Nat]
    /\ listed \subseteq Origins
    /\ call \in [Handlers -> [pc : CallPcs, list : SUBSET Origins]]
    /\ \A r \in Requests : \A i \in Approvals[r] : call[<<r, i>>].pc \in AccessPcs => kind[r] \in AccessKinds

\* A dapp is told yes only about the request the user approved; access alone
\* is also given to a domain that was approved before.  Handlers of several
\* popups share the queues and are interrupted between their reads and writes
\* (signTransaction.ts:73, grantAccess.ts:39).
GrantedMeansApproved ==
    \A r \in Requests :
        answer[r] = "granted" =>
            \/ r \in approved
            \/ kind[r] \in AccessKinds /\ \E q \in approved : origin[q] = origin[r]

\* However many approvals of a popup and its reloads are handled at once, the
\* wallet's keys sign the payload once, for the item leaves the queue in the
\* stretch that signs it (signTransaction.ts:61); and the dapp is handed one
\* signed payload, be it the hardware wallet's (handleSignedHwPayload.ts:22).
SignedOnce == \A r \in Requests : signatures[r] <= 1 /\ handed[r] <= 1

\* A dapp that waits for a signature or a token has its popup in front of the
\* user: whatever the cleaner, a failed signature or a locked wallet took out
\* of the queues, closing the popup still answers it
\* (freighterApiMessageListener.ts:369).
WaitingHasWindow ==
    \A r \in Requests :
        kind[r] \in ItemKinds /\ answer[r] = "none" => window[r] \in {"creating", "shown"}

\* While its popup is marked active, a request leaves a queue only for a
\* decision about it, never for its age (queueCleanup.ts:39) nor for another
\* request's decision.
KeptWhileShown ==
    [][\A r \in active \cap active' :
        /\ r \in items \ items' => \E i \in Approvals[r] : call[<<r, i>>].pc # "idle"
        /\ r \in responses \ responses' =>
            answer'[r] # "none" \/ \E i \in Approvals[r] : call'[<<r, i>>].pc = "listing"]_vars

\* Every dapp that asks for a signature or a token is answered in the end.
SigningAnswered ==
    \A r \in Requests : kind[r] \in ItemKinds ~> answer[r] # "none"

\* No request stays in the queues for ever (queueCleanup.ts:69), but for one
\* whose closed popup has left its mark behind (useMarkQueueActive.ts:31).
QueuesDrain ==
    \A r \in Requests :
        []<>(r \notin items \cup responses \/ (r \in active /\ window[r] = "closed"))

\* "The user rejected this request." (@shared/api/helpers/extensionMessaging.ts:127):
\* a dapp that is told so had its popup closed or its response taken.
DeclinedMeansRejected ==
    \A r \in Requests :
        answer[r] = "declined" => window[r] = "closed" \/ r \notin responses
=============================================================================
