---------------------------- MODULE WalletSession ----------------------------
(***************************************************************************)
(* The wallet's session: the redux state with the active account and the   *)
(* session's hash key, kept in storage.session, and the temporary store,   *)
(* where every secret is encrypted with a hash key and which outlives the  *)
(* worker as well.  Each message to the background builds a store of its   *)
(* own from the saved state and every dispatch saves the whole of it.      *)
(*                                                                         *)
(* A call is interrupted at each await.  Accounts are numbered in the      *)
(* order in which the wallet SDK derives them, hash keys in the order in   *)
(* which they are derived (their salt is random); 0 is none of either.     *)
(* Encrypting an empty phrase is writing 0: both read back as no phrase.   *)
(***************************************************************************)
EXTENDS Naturals, Sequences, SequencesExt

CONSTANTS
    MaxAccounts,    \* accounts the SDK may derive
    MaxCalls,       \* messages to the background
    MaxDisturbances \* overlapping calls, failing awaits and losses of the worker

ASSUME SessionAssumption ==
    MaxAccounts \in Nat \ {0} /\ MaxCalls \in Nat /\ MaxDisturbances \in Nat

Accounts == 1 .. MaxAccounts
Secret(a) == <<"secret", a>>        \* stored by its public key
KeyStore(a) == <<"keyStore", a>>    \* stored by the id of its key store
Phrase == <<"phrase", 0>>
Names == {Phrase} \cup {Secret(a) : a \in Accounts} \cup {KeyStore(a) : a \in Accounts}

VARIABLES
    stored,         \* session-store
    temp,           \* the temporary store: the key each secret is encrypted with
    vault,          \* accounts of the SDK's stored wallet
    keyIds, keyId,  \* KEY_ID_LIST and KEY_ID
    alarm,          \* session-timer is set
    keys,           \* hash keys derived so far
    call,           \* the messages being handled, one of each type at most
    signed,         \* signatures: the account shown and the account that signed
    written,        \* keys whose call has been through all the secrets it stores
    calls, disturbances

bounds == <<calls, disturbances>>
wallet == <<vault, keyIds, keyId>>
vars == <<stored, temp, wallet, alarm, keys, call, signed, written, bounds>>

Types == {"create", "login", "add", "switch", "sign", "signOut", "timeout"}
initialState == [account |-> 0, allAccounts |-> <<>>, hashKey |-> 0]
Erased == [n \in Names |-> 0]
Idle == [pc |-> "idle", state |-> initialState, account |-> 0, key |-> 0, phrase |-> "unknown",
         todo |-> <<>>, view |-> Erased, ids |-> <<>>, part |-> "login"]
AccountsFromZero(n) == [i \in 1 .. n |-> i - 1]
FirstAccounts(n) == [i \in 1 .. n |-> i]

Init ==
    /\ stored = initialState /\ temp = Erased
    /\ vault = 0 /\ keyIds = <<>> /\ keyId = 0
    /\ alarm = FALSE /\ keys = 0
    /\ call = [t \in Types |-> Idle]
    /\ signed = {} /\ written = {}
    /\ calls = 0 /\ disturbances = 0
Stores(t) == call[t].part = "store"       \* it has come to storeAccount

Quiet == \A t \in Types : call[t].pc = "idle"
At(t, pc) == call[t].pc = pc

\* Something goes wrong, or the worker is not idle, as far as MaxDisturbances lets it.
Disturbance == disturbances < MaxDisturbances /\ disturbances' = disturbances + 1
Disturbed == IF Quiet THEN UNCHANGED disturbances ELSE Disturbance
undisturbed == disturbances = 0     \* every call so far ran alone, to its end, with no failure

Becomes(t, c) == call' = [call EXCEPT ![t] = c]
End(t) == Becomes(t, Idle)
Goto(t, pc) == Becomes(t, [call[t] EXCEPT !.pc = pc])

\* A message arrives: its store is hydrated from the saved state.
buildStore(t, c) ==
    /\ At(t, "idle") /\ calls < MaxCalls
    /\ calls' = calls + 1
    /\ Becomes(t, c)
    /\ Disturbed

Loaded(pc) == [Idle EXCEPT !.pc = pc, !.state = stored]

\* A dispatch on the call's own store, saved over whatever is there.
Dispatch(t, state, pc) ==
    /\ stored' = state
    /\ Becomes(t, [call[t] EXCEPT !.state = state, !.pc = pc])

----------------------------------------------------------------------------
(* Unlocking: loginToAllAccounts.                                          *)

ConfirmPassword ==
    /\ vault > 0
    /\ buildStore("login", Loaded("restore"))
    /\ UNCHANGED <<stored, temp, wallet, alarm, keys, signed, written>>

\* The SDK decrypts its vault and a new hash key is derived.
RestoreWallet(t) ==
    /\ At(t, "restore")
    /\ keys' = keys + 1
    /\ LET s == call[t].state
           known == s.account # 0 /\ s.allAccounts # <<>>
       IN  Becomes(t, [call[t] EXCEPT
               !.key = keys + 1,
               !.todo = [i \in 1 .. vault |-> Secret(i)],
               !.account = 1,
               !.pc = IF known THEN "removeTemporary" ELSE "logIn"])
    /\ UNCHANGED <<stored, temp, wallet, alarm, signed, written, bounds>>

LogInPending(t) ==
    /\ At(t, "logIn")
    /\ Dispatch(t, call[t].state, "loggingIn")
    /\ UNCHANGED <<temp, wallet, alarm, keys, signed, written, bounds>>

\* The accounts the call lists: the SDK's, or the ones it had and the new one.
AllAccounts(t) ==
    IF Stores(t) THEN Append(call[t].state.allAccounts, call[t].account)
    ELSE FirstAccounts(Len(call[t].todo))

LogInFulfilled(t) ==
    /\ At(t, "loggingIn")
    /\ Dispatch(t, [call[t].state EXCEPT !.account = call[t].account,
                                         !.allAccounts = AllAccounts(t)],
                IF Stores(t) THEN "read" ELSE "removeTemporary")
    /\ UNCHANGED <<temp, wallet, alarm, keys, signed, written, bounds>>

\* What signing out, the alarm and a failed addAccount do after their dispatch.
OnlyClears(t) == t \in {"signOut", "timeout"} \/ (t = "add" /\ Stores(t))

UnlockWithoutSecrets(t) ==
    /\ At(t, "removeTemporary")
    /\ temp' = Erased
    /\ CASE OnlyClears(t) -> End(t)
         [] t = "create" -> Goto(t, "logIn")
         [] OTHER -> Goto(t, "setKey")
    /\ UNCHANGED <<stored, wallet, alarm, keys, signed, written, bounds>>

RemoveTemporary(t) ==
    /\ At(t, "removeTemporary")
    /\ temp' = Erased
    /\ CASE OnlyClears(t) -> End(t)
         [] t = "create" -> Goto(t, "logIn")
         [] OTHER -> Goto(t, "read")
    /\ UNCHANGED <<stored, wallet, alarm, keys, signed, written, bounds>>

\* storeEncryptedTemporaryData reads the store, then writes all of it back.
ReadTemporary(t) ==
    /\ At(t, "read")
    /\ Becomes(t, [call[t] EXCEPT !.view = temp, !.pc = "write"])
    /\ UNCHANGED <<stored, temp, wallet, alarm, keys, signed, written, bounds>>

KeyFor(t, name) == IF name = Phrase /\ call[t].phrase = "unknown" THEN 0 ELSE call[t].key

NextSecret(t) ==
    LET last == Len(call[t].todo) = 1
    IN  /\ written' = IF last THEN written \cup {call[t].key} ELSE written
        /\ Becomes(t, [call[t] EXCEPT !.todo = Tail(call[t].todo), !.view = Erased,
                                      !.pc = IF last THEN "setKey" ELSE "read"])

WriteTemporary(t) ==
    /\ At(t, "write")
    /\ LET name == Head(call[t].todo)
       IN  temp' = [call[t].view EXCEPT ![name] = KeyFor(t, name)]
    /\ NextSecret(t)
    /\ UNCHANGED <<stored, wallet, alarm, keys, signed, bounds>>

\* A login catches the failure of storing one secret and goes on with the next.
SkipSecret(t) ==
    /\ At(t, "write") /\ ~Stores(t)
    /\ Disturbance
    /\ NextSecret(t)
    /\ UNCHANGED <<stored, temp, wallet, alarm, keys, signed, calls>>

AfterKey(t) ==
    IF Stores(t) THEN "list" ELSE IF t = "add" THEN "askAgain" ELSE "end"

\* startSession follows the login's dispatch at once.
StoreActiveHashKey(t) ==
    /\ At(t, "setKey")
    /\ LET s == [call[t].state EXCEPT !.hashKey = call[t].key]
       IN  IF AfterKey(t) = "end" THEN stored' = s /\ End(t)
           ELSE Dispatch(t, s, AfterKey(t))
    /\ alarm' = (alarm \/ ~Stores(t))
    /\ UNCHANGED <<temp, wallet, keys, signed, written, bounds>>

----------------------------------------------------------------------------
(* New accounts: createAccount, addAccount and the storeAccount they share. *)

\* The first account; overwriting a wallet with a new one is left out.
CreateAccount ==
    /\ vault = 0
    /\ buildStore("create", Loaded("sdkCreate"))
    /\ UNCHANGED <<stored, temp, wallet, alarm, keys, signed, written>>

\* storeAccount's part of the call: what it will list and what it will write.
Storing(t, account, key) ==
    [call[t] EXCEPT !.account = account, !.key = key, !.part = "store",
                    !.todo = <<Phrase, KeyStore(account)>>]

SdkCreate ==
    /\ At("create", "sdkCreate")
    /\ vault' = 1
    /\ keys' = keys + 1
    /\ Becomes("create", [Storing("create", 1, keys + 1) EXCEPT !.phrase = "known", !.pc = "clear"])
    /\ UNCHANGED <<stored, temp, keyIds, keyId, alarm, signed, written, bounds>>

ClearBefore ==
    /\ At("create", "clear")
    /\ Dispatch("create", [call["create"].state EXCEPT !.hashKey = 0], "removeTemporary")
    /\ UNCHANGED <<temp, wallet, alarm, keys, signed, written, bounds>>

AddAccount ==
    /\ vault \in 1 .. MaxAccounts - 1
    /\ buildStore("add", Loaded("ask"))
    /\ UNCHANGED <<stored, temp, wallet, alarm, keys, signed, written>>

Readable(name, key) == key # 0 /\ temp[name] = key
Unreadable(name, key) == key # 0 /\ temp[name] \notin {0, key}

\* Without the phrase the call logs in first; a secret under another key throws.
AskPhrase ==
    /\ \/ At("add", "ask") \/ At("add", "askAgain")
    /\ LET key == call["add"].state.hashKey
           found == Readable(Phrase, key)
       IN  IF Unreadable(Phrase, key) THEN End("add")
           ELSE Becomes("add", [call["add"] EXCEPT
                    !.phrase = IF found THEN "known" ELSE "unknown",
                    !.pc = IF found \/ At("add", "askAgain") THEN "derive" ELSE "restore"])
    /\ UNCHANGED <<stored, temp, wallet, alarm, keys, signed, written, bounds>>

\* The SDK refuses a wallet without a phrase of its own, or derives the next account.
DeriveAccount ==
    /\ At("add", "derive")
    /\ \/ End("add") /\ UNCHANGED vault
       \/ /\ vault' = vault + 1
          /\ Becomes("add", [Storing("add", vault + 1, call["add"].state.hashKey)
                                 EXCEPT !.pc = "logIn"])
    /\ UNCHANGED <<stored, temp, keyIds, keyId, alarm, keys, signed, written, bounds>>

\* The key store joins the list, becomes the active one and gets a name.
ReadKeyIdList(t) ==
    /\ At(t, "list")
    /\ Becomes(t, [call[t] EXCEPT !.ids = keyIds, !.pc = "writeList"])
    /\ UNCHANGED <<stored, temp, wallet, alarm, keys, signed, written, bounds>>

WriteKeyIdList(t) ==
    /\ At(t, "writeList")
    /\ keyIds' = Append(call[t].ids, call[t].account)
    /\ Goto(t, "writeKeyId")
    /\ UNCHANGED <<stored, temp, vault, keyId, alarm, keys, signed, written, bounds>>

WriteKeyId(t) ==
    /\ At(t, "writeKeyId")
    /\ keyId' = call[t].account
    /\ Goto(t, "nameAccount")
    /\ UNCHANGED <<stored, temp, vault, keyIds, alarm, keys, signed, written, bounds>>

NameWithoutTimer(t) ==
    /\ At(t, "nameAccount")
    /\ End(t)
    /\ UNCHANGED <<stored, temp, wallet, alarm, keys, signed, written, bounds>>

\* createAccount starts the session only now.
NameAccount(t) ==
    /\ At(t, "nameAccount")
    /\ alarm' = (alarm \/ t = "create")
    /\ End(t)
    /\ UNCHANGED <<stored, temp, wallet, keys, signed, written, bounds>>

----------------------------------------------------------------------------
(* The active account, and a dapp's transaction signed with its key.       *)

MakeAccountActive ==
    /\ \E i \in DOMAIN stored.allAccounts :
           /\ stored.allAccounts[i] # stored.account
           /\ buildStore("switch", [Loaded("keyId") EXCEPT !.account = stored.allAccounts[i]])
    /\ UNCHANGED <<stored, temp, wallet, alarm, keys, signed, written>>

ActivateInStateOnly ==
    /\ At("switch", "keyId")
    /\ Goto("switch", "pending")
    /\ UNCHANGED <<stored, temp, wallet, alarm, keys, signed, written, bounds>>

\* KEY_ID is the key store at the place of the account in the list.
ActivatePublicKey ==
    /\ At("switch", "keyId")
    /\ LET list == call["switch"].state.allAccounts
           i == CHOOSE j \in DOMAIN list : list[j] = call["switch"].account
       IN  keyId' = IF i \in DOMAIN keyIds THEN keyIds[i] ELSE 0
    /\ Goto("switch", "pending")
    /\ UNCHANGED <<stored, temp, vault, keyIds, alarm, keys, signed, written, bounds>>

SetActivePublicKey ==
    /\ \/ /\ At("switch", "pending")
          /\ Dispatch("switch", call["switch"].state, "fulfilled")
       \/ /\ At("switch", "fulfilled")
          /\ stored' = [call["switch"].state EXCEPT !.account = call["switch"].account]
          /\ End("switch")
    /\ UNCHANGED <<temp, wallet, alarm, keys, signed, written, bounds>>

\* popupMessageListener refuses a message whose account is not the active one.
\* The queue the transaction is taken from is in SigningQueues.
SignTransaction ==
    /\ stored.account # 0
    /\ buildStore("sign", [Loaded("readKeyId") EXCEPT !.account = stored.account])
    /\ UNCHANGED <<stored, temp, wallet, alarm, keys, signed, written>>

ReadKeyId ==
    /\ At("sign", "readKeyId")
    /\ Becomes("sign", [call["sign"] EXCEPT !.key = keyId, !.pc = "sign"])
    /\ UNCHANGED <<stored, temp, wallet, alarm, keys, signed, written, bounds>>

\* Without a readable secret the dapp is told that the session timed out.
SignWithKey ==
    /\ At("sign", "sign")
    /\ LET c == call["sign"]
       IN  IF c.key # 0 /\ Readable(KeyStore(c.key), c.state.hashKey)
           THEN signed' = signed \cup {<<c.account, c.key>>}
           ELSE UNCHANGED signed
    /\ End("sign")
    /\ UNCHANGED <<stored, temp, wallet, alarm, keys, written, bounds>>

----------------------------------------------------------------------------
(* Locking, failing and losing the worker.                                 *)

SignOut ==
    /\ stored.account # 0
    /\ buildStore("signOut", [Idle EXCEPT !.pc = "removeTemporary"])
    /\ stored' = initialState
    /\ UNCHANGED <<temp, wallet, alarm, keys, signed, written>>

TimeoutKeepsSecrets ==
    /\ alarm /\ At("timeout", "idle")
    /\ alarm' = FALSE
    /\ stored' = [stored EXCEPT !.hashKey = 0]
    /\ Disturbed
    /\ UNCHANGED <<temp, call, wallet, keys, signed, written, calls>>

\* The alarm is the browser's: it fires once and counts as no message.
ClearSession ==
    /\ alarm /\ At("timeout", "idle")
    /\ alarm' = FALSE
    /\ stored' = [stored EXCEPT !.hashKey = 0]
    /\ Goto("timeout", "removeTemporary")
    /\ Disturbed
    /\ UNCHANGED <<temp, wallet, keys, signed, written, calls>>

\* An await throws and the call ends with an error; when it was storing its account,
\* addAccount clears the session first, on its own state.  SkipSecret is what a login's
\* secrets do.
CallFails(t) ==
    /\ ~At(t, "idle") /\ (Stores(t) \/ call[t].pc \notin {"read", "write", "setKey"})
    /\ Disturbance
    /\ IF t = "add" /\ Stores(t) /\ ~At(t, "removeTemporary")
       THEN Dispatch(t, [call[t].state EXCEPT !.hashKey = 0], "removeTemporary")
       ELSE End(t) /\ UNCHANGED stored
    /\ UNCHANGED <<temp, wallet, alarm, keys, signed, written, calls>>

Restart ==
    /\ ~Quiet /\ Disturbed
    /\ call' = [t \in Types |-> Idle]
    /\ UNCHANGED <<stored, temp, wallet, alarm, keys, signed, written, calls>>

----------------------------------------------------------------------------
LogIn(t) == LogInPending(t) \/ LogInFulfilled(t)
StoreSecrets(t) == ReadTemporary(t) \/ WriteTemporary(t) \/ StoreActiveHashKey(t)
ListKeyStore(t) == ReadKeyIdList(t) \/ WriteKeyIdList(t) \/ WriteKeyId(t) \/ NameAccount(t)
Fails(t) == SkipSecret(t) \/ CallFails(t)

Step(t) ==
    \/ RestoreWallet(t) \/ LogIn(t) \/ RemoveTemporary(t) \/ StoreSecrets(t)
    \/ ListKeyStore(t)
    \/ t = "create" /\ (SdkCreate \/ ClearBefore)
    \/ t = "add" /\ (AskPhrase \/ DeriveAccount)
    \/ t = "switch" /\ (ActivatePublicKey \/ SetActivePublicKey)
    \/ t = "sign" /\ (ReadKeyId \/ SignWithKey)

Message ==
    \/ ConfirmPassword \/ CreateAccount \/ AddAccount
    \/ MakeAccountActive \/ SignTransaction \/ SignOut

Next == Message \/ (\E t \in Types : Step(t) \/ Fails(t)) \/ ClearSession \/ Restart
Spec == Init /\ [][Next]_vars

\* The worker takes up every call it was interrupted in; the browser's alarm fires.
FairSpec == Spec /\ (\A t \in Types : WF_vars(Step(t))) /\ WF_vars(ClearSession)

----------------------------------------------------------------------------
Pcs == {"idle", "restore", "logIn", "loggingIn", "removeTemporary", "read", "write", "setKey",
        "sdkCreate", "clear", "ask", "askAgain", "derive", "list", "writeList", "writeKeyId", "nameAccount",
        "keyId", "pending", "fulfilled", "readKeyId", "sign"}
Session == [account : 0 .. MaxAccounts, allAccounts : Seq(Accounts), hashKey : Nat]
Call == [pc : Pcs, state : Session, account : 0 .. MaxAccounts, key : Nat,
         phrase : {"known", "unknown"}, todo : Seq(Names), view : [Names -> Nat],
         ids : Seq(Accounts), part : {"login", "store"}]

\* The state has its shape, in particular the state that every call carries.
TypeOK ==
    /\ stored \in Session
    /\ temp \in [Names -> Nat] /\ keys \in Nat /\ written \subseteq Nat
    /\ vault \in 0 .. MaxAccounts /\ keyIds \in Seq(Accounts) /\ keyId \in 0 .. MaxAccounts
    /\ alarm \in BOOLEAN
    /\ call \in [Types -> Call]
    /\ signed \subseteq (0 .. MaxAccounts) \X Nat

(* The saved state says "unlocked" only with the key of a login or a       *)
(* creation that is through with its secrets, stored or given up one by    *)
(* one (login-all-accounts.ts:93), however calls overlap, fail or are lost. *)
UnlockFollowsSecrets == stored.hashKey \in {0} \cup written

(* Between calls that ran alone and did not fail, the temporary store      *)
(* holds nothing but secrets of this session, and those of every account   *)
(* in the list: what signing after a restart of the worker relies on.      *)
SecretsMatchSession ==
    undisturbed /\ Quiet =>
        /\ \A n \in Names : temp[n] \in {0, stored.hashKey}
        /\ stored.hashKey # 0 =>
               \A i \in DOMAIN stored.allAccounts :
                   \E n \in {Secret(stored.allAccounts[i]), KeyStore(stored.allAccounts[i])} :
                       temp[n] = stored.hashKey

(* A dapp's transaction is signed by the account the popup showed: KEY_ID  *)
(* names another one at times (after a sign-out, a login goes back to the  *)
(* first account), but then the store has no secret under it.              *)
SignedByShown == undisturbed => \A s \in signed : s[1] = s[2]

(* A session ends by its alarm at the latest.                              *)
SessionEnds == stored.hashKey # 0 ~> (stored.hashKey = 0 \/ ~undisturbed)
=============================================================================
