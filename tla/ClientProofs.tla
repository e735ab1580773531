---------------------------- MODULE ClientProofs ----------------------------
(***************************************************************************)
(* Proofs about the receiving page, for any number of overlapping calls of *)
(* the decryption and whether or not frames are late; about the sending    *)
(* page, for any number of overlapping calls of sendSecret, any texts and  *)
(* passwords; and about a window of client.js that shows either page.      *)
(***************************************************************************)
EXTENDS Client, TLAPS


(* The invariant: every step that opens or closes the dialogue also stores  *)
(* or clears the pending secret, and nothing runs in a page put away.       *)
AtStart == recv = "init" => page = "shown" /\ keyBytes = "none" /\ ~card
PInv ==
  /\ CardForPending /\ SecretHasNoTone /\ KeysCleared /\ AtStart
  /\ NothingLeftBehind

USE DEF PInv, CardForPending, SecretHasNoTone, KeysCleared, AtStart,
        NothingLeftBehind

(* Nothing is pending or shown when the page is loaded. *)
LEMMA InitPInv == Init => PInv
  BY DEF Init

(* Closing the dialogue and clearing the pending secret go together. *)
LEMMA ScrubStep ==
  ASSUME PInv, scrubSensitiveUi, UNCHANGED <<recv, keyBytes>>, recv # "init"
  PROVE  /\ PInv'
         /\ view' # "secret" /\ password' = "" /\ ~pending' /\ bytes' # "good"
  BY DEF scrubSensitiveUi, setDecryptionCardVisible, clearPendingSecret

(* Ending tryToReceiveSecret with an error keeps the invariant. *)
LEMMA CaughtStep ==
  ASSUME PInv, Caught, page = "shown", page' = page
  PROVE  PInv'
  BY DEF Caught, setViewerText, setDecryptionCardVisible, clearPendingSecret

(* A step of a page that is shown may leave the dialogue alone ... *)
LEMMA CardKept ==
  ASSUME PInv, page = "shown", page' = page,
         card' = card, pending' = pending, bytes' = bytes,
         SecretHasNoTone', KeysCleared', AtStart'
  PROVE  PInv'
<1>1. CardForPending'
  BY Zenon
<1>2. NothingLeftBehind'
  BY Zenon
<1> QED
  BY <1>1, <1>2, Zenon

(* ... or open it together with a secret. *)
LEMMA CardOpened ==
  ASSUME page = "shown", page' = page,
         card' = TRUE, pending' = TRUE, bytes' = "good",
         SecretHasNoTone', KeysCleared', AtStart'
  PROVE  PInv'
  OBVIOUS

(* Every step of the page keeps the invariant. *)
LEMMA StepPInv == PInv /\ [Next]_vars => PInv'
<1> SUFFICES ASSUME PInv, [Next]_vars PROVE PInv'
  OBVIOUS
<1>1. CASE tryToReceiveSecret
  <2>1. page = "shown" /\ page' = page
    BY <1>1 DEF tryToReceiveSecret, pageVars
  <2>2. CASE Caught
    BY <2>1, <2>2, CaughtStep
  <2>3. CASE link = "none" /\ ~Caught
    <3>1. card' = card /\ pending' = pending /\ bytes' = bytes
      BY <1>1, <2>3 DEF tryToReceiveSecret, secretVars
    <3>2. SecretHasNoTone' /\ KeysCleared' /\ AtStart'
      BY <1>1, <2>3 DEF tryToReceiveSecret, setViewerText, secretVars
    <3> QED
      BY <2>1, <3>1, <3>2, CardKept
  <2>4. CASE link = "good" /\ ~Caught
    <3>1. card' = card /\ recv = "init"
      BY <1>1, <2>4 DEF tryToReceiveSecret, Caught
    <3>2. ~card'
      BY <3>1, Zenon
    <3>3. /\ pending' = FALSE /\ bytes' # "good"
          /\ SecretHasNoTone' /\ recv' = "fetch"
      BY <1>1, <2>4 DEF tryToReceiveSecret, setViewerText, clearPendingSecret
    <3> QED
      BY <2>1, <3>2, <3>3
  <2> QED
    BY <1>1, <2>2, <2>3, <2>4 DEF tryToReceiveSecret
<1>2. CASE fetched
  <2>1. page = "shown" /\ page' = page
    BY <1>2 DEF fetched, Settles, pageVars
  <2>2. CASE Caught
    BY <2>1, <2>2, CaughtStep
  <2>3. CASE ~Caught
    <3>1. card' = card /\ pending' = pending /\ bytes' = bytes
      BY <1>2, <2>3 DEF fetched, secretVars, uiVars
    <3>2. SecretHasNoTone' /\ KeysCleared' /\ AtStart'
      BY <1>2, <2>3 DEF fetched, secretVars, uiVars
    <3> QED
      BY <2>1, <3>1, <3>2, CardKept
  <2> QED
    BY <2>2, <2>3
<1>3. CASE Receive
  <2>1. page = "shown" /\ page' = page
    BY <1>3 DEF Receive, bodyRead, idDerived, keyImported, decrypted, Settles,
                pageVars
  <2>2. CASE Caught
    BY <2>1, <2>2, CaughtStep
  <2>3. CASE ~Caught /\ ~decrypted
    <3>1. card' = card /\ pending' = pending /\ bytes' = bytes
      BY <1>3, <2>3 DEF Receive, bodyRead, idDerived, keyImported, secretVars,
                        uiVars
    <3>2. SecretHasNoTone' /\ KeysCleared' /\ AtStart'
      BY <1>3, <2>3 DEF Receive, bodyRead, idDerived, keyImported, secretVars,
                        uiVars
    <3> QED
      BY <2>1, <3>1, <3>2, CardKept
  <2>4. CASE ~Caught /\ decrypted
    <3>1. SecretHasNoTone' /\ KeysCleared' /\ AtStart'
      BY <2>4 DEF decrypted, setViewerText
    <3>2. CASE blob = "text"
      BY <2>1, <2>4, <3>1, <3>2, CardKept DEF decrypted
    <3>3. CASE blob = "password"
      BY <2>1, <2>4, <3>1, <3>3, CardOpened DEF decrypted, StoredBytes
    <3> QED
      BY <2>4, <3>2, <3>3 DEF decrypted
  <2> QED
    BY <2>2, <2>3, <2>4
<1>4. ASSUME NEW c \in Calls, decryptPendingSecretWithPassword(c)
      PROVE  PInv'
  BY <1>4 DEF decryptPendingSecretWithPassword, UserActs, setViewerText,
              secretVars, pageVars
<1>5. ASSUME NEW c \in Calls, Decrypt(c)
      PROVE  PInv'
  <2>1. page = "shown" /\ page' = page /\ recv' = recv
    BY <1>5 DEF Decrypt, passwordImported, passwordKeyDerived, opened,
                notOpened, Settles, pageVars
  <2>2. CASE passwordImported(c) \/ passwordKeyDerived(c)
    <3>1. card' = card /\ pending' = pending /\ bytes' = bytes
      BY <2>2 DEF passwordImported, passwordKeyDerived, secretVars, uiVars
    <3>2. keyBytes' = keyBytes /\ view' = view /\ tone' = tone
      BY <2>2 DEF passwordImported, passwordKeyDerived, secretVars, uiVars
    <3>3. SecretHasNoTone' /\ KeysCleared' /\ AtStart'
      BY <2>1, <3>1, <3>2, Zenon
    <3> QED
      BY <2>1, <3>1, <3>3, CardKept
  <2>3. CASE opened(c)
    BY <2>1, <2>3 DEF opened, setViewerText, setDecryptionCardVisible,
                      clearPendingSecret
  <2>4. CASE notOpened(c)
    BY <2>1, <2>4 DEF notOpened, setViewerText, AfterFailure
  <2> QED
    BY <1>5, <2>2, <2>3, <2>4 DEF Decrypt
<1>6. CASE typePassword
  BY <1>6 DEF typePassword, UserActs, secretVars, pageVars
<1>7. CASE animationFrame
  BY <1>7, ScrubStep DEF animationFrame
<1>8. CASE pagehide
  <2>1. scrubSensitiveUi /\ UNCHANGED <<recv, keyBytes>> /\ recv # "init"
    BY <1>8 DEF pagehide
  <2> QED
    BY <2>1, ScrubStep
<1>9. CASE pageshow
  BY <1>9 DEF pageshow, secretVars, uiVars
<1>10. CASE UNCHANGED vars
  BY <1>10 DEF vars, secretVars, uiVars, pageVars
<1> QED
  BY <1>1, <1>2, <1>3, <1>4, <1>5, <1>6, <1>7, <1>8, <1>9, <1>10 DEF Next

(* The password dialogue is open exactly while a secret waits behind it,    *)
(* however many calls of the decryption overlap.                            *)
THEOREM CardCorrect == Spec => []CardForPending
<1>1. PInv => CardForPending
  OBVIOUS
<1> QED
  BY <1>1, InitPInv, StepPInv, PTL DEF Spec

(* A page in the back/forward cache holds no secret, no password and no key *)
(* of a finished call.                                                      *)
THEOREM PutAwayClean == Spec => []NothingLeftBehind
<1>1. PInv => NothingLeftBehind
  OBVIOUS
<1> QED
  BY <1>1, InitPInv, StepPInv, PTL DEF Spec

(***************************************************************************)
(* Why a secret that arrived stays: its frame has been painted, so that    *)
(* only leaving the page scrubs it; the one decryption under way ends by   *)
(* showing the secret or leaves it pending; and no second call is under    *)
(* way that could fail after it.                                           *)
(***************************************************************************)
UnderWay(c) == dec[c].pc # "idle"
Call == [pc : {"idle", "import", "derive", "decrypt"},
         password : {"", "right", "wrong"}, salt : BOOLEAN, text : BOOLEAN]
DecTypes ==
  /\ dec \in [Calls -> Call]
  /\ password \in {"", "right", "wrong"}
  /\ got \in BOOLEAN /\ raced \in BOOLEAN /\ left \in BOOLEAN
  /\ frame \in BOOLEAN /\ pending \in BOOLEAN /\ card \in BOOLEAN
InOrder ==
  /\ frame = FALSE
  /\ view = "secret" \/ pending = TRUE
  /\ \A c \in Calls : UnderWay(c) => pending = TRUE
  /\ \A c, d \in Calls : UnderWay(c) /\ UnderWay(d) => c = d
KInv ==
  /\ DecTypes
  /\ got = TRUE => recv = "done"
  /\ got = FALSE => pending = FALSE /\ \A c \in Calls : ~UnderWay(c)
  /\ left = FALSE => page = "shown"
  /\ got = TRUE /\ left = FALSE /\ raced = FALSE => InOrder

(* The calls of decryptPendingSecretWithPassword keep their types. *)
LEMMA DecTypesStep ==
  ASSUME DecTypes, [Next]_vars
  PROVE  DecTypes'
<1>1. dec' \in [Calls -> Call]
  <2>1. ASSUME NEW c \in Calls, decryptPendingSecretWithPassword(c)
        PROVE  dec' = dec \/ \E x \in Call : dec' = [dec EXCEPT ![c] = x]
    <3>1. dec' # dec =>
            dec' = [dec EXCEPT ![c] = [pc |-> "import", password |-> password,
                                       salt |-> FALSE, text |-> FALSE]]
      BY <2>1 DEF decryptPendingSecretWithPassword, Idle
    <3> QED
      BY <3>1 DEF DecTypes, Call
  <2>2. ASSUME NEW c \in Calls, Decrypt(c)
        PROVE  \E x \in Call : dec' = [dec EXCEPT ![c] = x]
    <3>1. /\ Idle \in Call
          /\ [dec[c] EXCEPT !.pc = "derive", !.salt = (bytes = "good")] \in Call
          /\ [dec[c] EXCEPT !.pc = "decrypt", !.text = (bytes = "good")]
               \in Call
      BY DEF DecTypes, Call, Idle
    <3>2. \/ dec' = [dec EXCEPT ![c] = Idle]
          \/ dec' = [dec EXCEPT ![c] =
               [dec[c] EXCEPT !.pc = "derive", !.salt = (bytes = "good")]]
          \/ dec' = [dec EXCEPT ![c] =
               [dec[c] EXCEPT !.pc = "decrypt", !.text = (bytes = "good")]]
      BY <2>2 DEF Decrypt, passwordImported, passwordKeyDerived, opened,
                  notOpened
    <3> QED
      BY <3>1, <3>2
  <2>3. ~(\E c \in Calls : decryptPendingSecretWithPassword(c) \/ Decrypt(c))
          => dec' = dec
    BY DEF Next, vars, tryToReceiveSecret, fetched, Receive, bodyRead,
           idDerived, keyImported, decrypted, typePassword, animationFrame,
           pagehide, pageshow
  <2> QED
    BY <2>1, <2>2, <2>3 DEF DecTypes
<1>2. password' \in {"", "right", "wrong"}
  BY DEF DecTypes, Next, vars, uiVars, tryToReceiveSecret, fetched, Receive,
         bodyRead, idDerived, keyImported, decrypted, typePassword,
         animationFrame, pagehide, pageshow, Decrypt, passwordImported,
         passwordKeyDerived, opened, notOpened, Caught, scrubSensitiveUi,
         decryptPendingSecretWithPassword, setDecryptionCardVisible
<1>3. got' \in BOOLEAN /\ raced' \in BOOLEAN /\ left' \in BOOLEAN
  BY DEF DecTypes, Next, vars, historyVars, pageVars, tryToReceiveSecret,
         fetched, Receive, bodyRead, idDerived, keyImported, decrypted,
         typePassword, animationFrame, pagehide, pageshow, Decrypt,
         passwordImported, passwordKeyDerived, opened, notOpened,
         decryptPendingSecretWithPassword
<1>4. frame' \in BOOLEAN
  BY DEF DecTypes, Next, vars, pageVars, tryToReceiveSecret,
         fetched, Receive, bodyRead, idDerived, keyImported, decrypted,
         typePassword, animationFrame, pagehide, pageshow, Decrypt,
         passwordImported, passwordKeyDerived, opened, notOpened,
         decryptPendingSecretWithPassword
<1>5. pending' \in BOOLEAN
  BY DEF DecTypes, Next, vars, secretVars, tryToReceiveSecret, fetched,
         Receive, bodyRead, idDerived, keyImported, decrypted, typePassword,
         animationFrame, pagehide, pageshow, Decrypt, passwordImported,
         passwordKeyDerived, opened, notOpened, Caught, scrubSensitiveUi,
         decryptPendingSecretWithPassword, clearPendingSecret, AfterFailure
<1>6. card' \in BOOLEAN
  BY DEF DecTypes, Next, vars, uiVars, tryToReceiveSecret, fetched, Receive,
         bodyRead, idDerived, keyImported, decrypted, typePassword,
         animationFrame, pagehide, pageshow, Decrypt, passwordImported,
         passwordKeyDerived, opened, notOpened, Caught, scrubSensitiveUi,
         decryptPendingSecretWithPassword, setDecryptionCardVisible
<1> QED
  BY <1>1, <1>2, <1>3, <1>4, <1>5, <1>6 DEF DecTypes

(* Before the secret is here nothing can be decrypted ... *)
LEMMA BeforeStep ==
  ASSUME KInv, PInv, tryToReceiveSecret \/ fetched \/ Receive
  PROVE  KInv'
<1>1. DecTypes' /\ DecTypes
  BY DecTypesStep DEF KInv, Next
<1>2. recv # "done" /\ UNCHANGED <<dec, frame, page, left>>
  BY DEF tryToReceiveSecret, fetched, Receive, bodyRead, idDerived,
         keyImported, decrypted, pageVars
<1>3. got = FALSE /\ pending = FALSE /\ \A c \in Calls : ~UnderWay(c)
  BY <1>1, <1>2 DEF KInv, DecTypes
<1>4. \A c \in Calls : ~UnderWay(c)'
  BY <1>2, <1>3 DEF UnderWay
<1>5. left' = FALSE => page' = "shown"
  BY <1>2 DEF KInv
<1>6. CASE got' = FALSE
  <2>1. pending' = FALSE
    BY <1>3, <1>6 DEF tryToReceiveSecret, fetched, Receive, bodyRead,
         idDerived, keyImported, decrypted, Caught, clearPendingSecret,
         secretVars
  <2> QED
    BY <1>1, <1>4, <1>5, <1>6, <2>1 DEF KInv
<1>7. CASE got' = TRUE
  <2>1. /\ decrypted /\ recv' = "done" /\ raced' = frame
        /\ view' = "secret" \/ pending' = TRUE
    BY <1>3, <1>7 DEF tryToReceiveSecret, fetched, Receive, bodyRead,
         idDerived, keyImported, decrypted, historyVars, setViewerText
  <2>2. raced' = FALSE => frame' = FALSE
    BY <1>2, <2>1
  <2> QED
    BY <1>1, <1>4, <1>5, <1>7, <2>1, <2>2 DEF KInv, InOrder
<1> QED
  BY <1>1, <1>6, <1>7 DEF DecTypes

(* ... and then one call at a time, whatever password it is given. *)
LEMMA StartStep ==
  ASSUME KInv, PInv, NEW c \in Calls, decryptPendingSecretWithPassword(c)
  PROVE  KInv'
<1>1. DecTypes' /\ DecTypes
  BY DecTypesStep DEF KInv, Next
<1>2. card = TRUE /\ pending = TRUE
  BY <1>1, Zenon DEF decryptPendingSecretWithPassword, UserActs, DecTypes
<1>3. /\ UNCHANGED <<recv, pending, got>> /\ UNCHANGED <<frame, page, left>>
      /\ raced' = (raced \/ \E d \in Calls : UnderWay(d))
  BY <1>2 DEF decryptPendingSecretWithPassword, secretVars, pageVars, UnderWay
<1>4. \A d \in Calls : d # c => dec'[d] = dec[d]
  BY <1>1 DEF decryptPendingSecretWithPassword, DecTypes
<1>5. got = TRUE
  BY <1>1, <1>2 DEF KInv, DecTypes
<1>6. ASSUME left' = FALSE, raced' = FALSE
      PROVE  InOrder'
  <2>1. raced = FALSE /\ \A d \in Calls : ~UnderWay(d)
    BY <1>1, <1>3, <1>6, Zenon DEF DecTypes
  <2>2. frame = FALSE
    BY <1>3, <1>5, <1>6, <2>1 DEF KInv, InOrder
  <2>3. \A d \in Calls : UnderWay(d)' => d = c
    BY <1>4, <2>1 DEF UnderWay
  <2> QED
    BY <1>2, <1>3, <2>2, <2>3 DEF InOrder
<1> QED
  BY <1>1, <1>3, <1>5, <1>6 DEF KInv

(* Every step of a decryption keeps the order of what is kept. *)
LEMMA DecryptStep ==
  ASSUME KInv, PInv, NEW c \in Calls, Decrypt(c)
  PROVE  KInv'
<1>1. DecTypes' /\ DecTypes
  BY DecTypesStep DEF KInv, Next
<1>2. UNCHANGED <<recv, got, raced, frame, page, left>>
  BY DEF Decrypt, passwordImported, passwordKeyDerived, opened, notOpened,
         pageVars, historyVars
<1>3. UnderWay(c) /\ \A d \in Calls : UnderWay(d)' => UnderWay(d)
  <2>1. UnderWay(c)
    BY DEF Decrypt, passwordImported, passwordKeyDerived, opened, notOpened,
           UnderWay
  <2>2. \A d \in Calls \ {c} : dec'[d] = dec[d]
    BY <1>1 DEF Decrypt, passwordImported, passwordKeyDerived, opened,
                notOpened, DecTypes
  <2> QED
    BY <2>1, <2>2 DEF UnderWay
<1>4. got = TRUE
  BY <1>1, <1>3 DEF KInv, DecTypes
<1>5. ASSUME left = FALSE, raced = FALSE
      PROVE  InOrder'
  <2>1. InOrder
    BY <1>4, <1>5 DEF KInv
  <2>2. pending = TRUE /\ \A d \in Calls : UnderWay(d) => d = c
    BY <1>3, <2>1 DEF InOrder
  <2>3. CASE opened(c)
    <3>1. view' = "secret" /\ ~UnderWay(c)'
      BY <1>1, <2>3 DEF opened, setViewerText, UnderWay, Idle, DecTypes
    <3> QED
      BY <1>2, <1>3, <2>1, <2>2, <3>1 DEF InOrder
  <2>4. CASE ~opened(c)
    <3>1. pending' = pending
      BY <2>4 DEF Decrypt, passwordImported, passwordKeyDerived, notOpened,
                  secretVars, AfterFailure
    <3> QED
      BY <1>2, <1>3, <2>1, <2>2, <3>1 DEF InOrder
  <2> QED
    BY <2>3, <2>4
<1> QED
  BY <1>1, <1>2, <1>4, <1>5 DEF KInv

(* So does everything else that can happen to the page. *)
LEMMA PageStep ==
  ASSUME KInv, PInv,
         \/ typePassword \/ animationFrame \/ pagehide \/ pageshow
         \/ UNCHANGED vars
  PROVE  KInv'
<1>1. DecTypes' /\ DecTypes
  BY DecTypesStep DEF KInv, Next
<1>2. UNCHANGED <<recv, dec, got, raced>>
  BY DEF typePassword, animationFrame, pagehide, pageshow, vars, historyVars
<1>3. \A c \in Calls : UnderWay(c)' <=> UnderWay(c)
  BY <1>2 DEF UnderWay
<1>4. pending' = pending \/ pending' = FALSE
  BY DEF typePassword, animationFrame, pagehide, pageshow, vars, secretVars,
         scrubSensitiveUi, clearPendingSecret
<1>5. left' = FALSE => page' = "shown" /\ left = FALSE /\ page = "shown"
  BY <1>1 DEF typePassword, animationFrame, pagehide, pageshow, vars,
              pageVars, KInv, DecTypes
<1>6. ASSUME got = TRUE, left' = FALSE, raced = FALSE
      PROVE  InOrder'
  <2>1. InOrder
    BY <1>5, <1>6 DEF KInv
  <2>2. UNCHANGED <<frame, view>> /\ pending' = pending
    <3>1. ~animationFrame /\ ~pagehide /\ ~pageshow
      BY <1>5, <1>6, <2>1 DEF animationFrame, pagehide, pageshow, InOrder
    <3> QED
      BY <3>1 DEF typePassword, vars, pageVars, secretVars, uiVars
  <2> QED
    BY <1>3, <2>1, <2>2 DEF InOrder
<1> QED
  BY <1>1, <1>2, <1>3, <1>4, <1>5, <1>6 DEF KInv

(* A good secret that arrived after its frame stays shown or pending while  *)
(* the user stays and tries one password at a time: no number of wrong      *)
(* passwords loses it.                                                      *)
THEOREM KeptInOrder == Spec => []SecretKeptInOrder
<1>1. Init => KInv
  <2> SUFFICES ASSUME Init PROVE KInv
    OBVIOUS
  <2>1. dec \in [Calls -> Call] /\ \A c \in Calls : ~UnderWay(c)
    BY DEF Init, Call, Idle, UnderWay
  <2>2. /\ got = FALSE /\ raced = FALSE /\ left = FALSE /\ frame = TRUE
        /\ pending = FALSE /\ card = FALSE
        /\ password = "" /\ page = "shown"
    BY DEF Init
  <2>3. DecTypes
    BY <2>1, <2>2 DEF DecTypes
  <2> QED
    BY <2>1, <2>2, <2>3 DEF KInv
<1>2. KInv /\ PInv /\ [Next]_vars => KInv'
  BY BeforeStep, StartStep, DecryptStep, PageStep DEF Next
<1>3. KInv /\ PInv => SecretKeptInOrder
  <2> SUFFICES ASSUME KInv, PInv, ~raced, got, ~left
               PROVE  view = "secret" \/ (pending /\ bytes = "good")
    BY DEF SecretKeptInOrder, SecretKept
  <2>1. raced = FALSE /\ got = TRUE /\ left = FALSE
    BY DEF KInv, DecTypes
  <2>2. view = "secret" \/ pending = TRUE
    BY <2>1 DEF KInv, InOrder
  <2> QED
    BY <2>2
<1> QED
  BY <1>1, <1>2, <1>3, InitPInv, StepPInv, PTL DEF Spec

-----------------------------------------------------------------------------
HIDE DEF PInv, CardForPending, SecretHasNoTone, KeysCleared, AtStart,
         NothingLeftBehind

(***************************************************************************)
(* The sending page.                                                       *)
(***************************************************************************)
Active(c) == sends[c].pc # "idle"
Sync(c) == sends[c].pc \in Synchronous
Before == {"locked", "begin", "id", "wrap", "encrypt", "post", "reason"}
Waiting == {"id", "wrap", "encrypt", "post", "reason", "copy"}
Unlocked == {"unlocked", "restore"}

SendCall ==
  [pc : {"idle", "locked", "begin", "finally"} \cup Waiting \cup Unlocked,
   text : Texts \cup {""}, password : Passwords \cup {""}]

SendTypes ==
  /\ sends \in [Sends -> SendCall]
  /\ text \in Texts \cup {""} /\ optionalPassword \in Passwords \cup {""}
  /\ readonly \in BOOLEAN /\ disabled \in BOOLEAN /\ tick \in BOOLEAN
  /\ away \in BOOLEAN /\ overlapped \in BOOLEAN
  /\ suppressGeneratedStateReset \in BOOLEAN

(* The text area was not locked before the page first locked it, so         *)
(* unlocking unlocks; and what locks the page is a call that will end.      *)
LockInv ==
  /\ originalReadonly \in {"null", "no"}
  /\ originalReadonly = "null" => readonly = FALSE
  /\ readonly = TRUE \/ disabled = TRUE => \E c \in Sends : Active(c)
  /\ \A c \in Sends : sends[c].pc \in Unlocked => readonly = FALSE

(***************************************************************************)
(* One call at a time is between two awaits, and the flag is set exactly   *)
(* while one has unlocked and not ended: so the event of an unlocking      *)
(* finds it set, and every other event finds it dropped.                   *)
(***************************************************************************)
ThreadInv ==
  /\ \A c, e \in Sends : Sync(c) /\ Sync(e) => c = e
  /\ \A c \in Sends : sends[c].pc \in Unlocked =>
       suppressGeneratedStateReset = TRUE
  /\ suppressGeneratedStateReset = TRUE =>
       \E c \in Sends : sends[c].pc \in Unlocked

(* What was accepted is shown, and a call that starts has given it up. *)
AcceptedInv ==
  /\ accepted # NoLink => generated = accepted
  /\ \A c \in Sends : sends[c].pc = "locked" => accepted = NoLink

(* A lone call has nothing accepted before the answer of the daemon, and    *)
(* says so once it has tried to copy the link.                              *)
LabelInv ==
  /\ \A c, e \in Sends : Active(c) /\ Active(e) => c = e
  /\ \A c \in Sends : sends[c].pc \in Before => accepted = NoLink
  /\ accepted # NoLink => \/ label \in {"success", "ready"}
                          \/ \E c \in Sends : sends[c].pc = "copy"

(***************************************************************************)
(* While the user stays and starts no second call: a call that waits holds *)
(* the text that is shown, and the lock keeps it from being edited.        *)
(***************************************************************************)
OneCall ==
  /\ tick = TRUE => /\ \A c \in Sends : ~Active(c)
                    /\ generated = NoLink /\ label = ""
  /\ \A c \in Sends : sends[c].pc \in {"locked", "begin"} => readonly = TRUE
  /\ \A c \in Sends : sends[c].pc \in Waiting =>
       /\ readonly = TRUE /\ disabled = TRUE
       /\ sends[c].text = text /\ text # ""
       /\ label = "busy"
       /\ sends[c].pc = "copy" => generated = Contents(c)
  /\ generated # NoLink => generated.text = text
  /\ label = "success" => generated # NoLink /\ clipboard = generated

SInv ==
  /\ SendTypes /\ LockInv /\ ThreadInv /\ AcceptedInv
  /\ overlapped = FALSE => LabelInv
  /\ overlapped = FALSE /\ away = FALSE => window = "shown" /\ OneCall

(* Only the call that takes a step changes, and only where it is. *)
Moves(c, q) ==
  /\ sends'[c].pc = q
  /\ sends'[c].text = sends[c].text /\ sends'[c].password = sends[c].password
  /\ \A e \in Sends \ {c} : sends'[e] = sends[e]

(* Goes moves a call. *)
LEMMA GoesMoves ==
  ASSUME SendTypes, NEW c \in Sends,
         NEW q \in {"locked", "begin", "finally"} \cup Waiting \cup Unlocked,
         Goes(c, q)
  PROVE  Moves(c, q) /\ sends' \in [Sends -> SendCall]
<1> DEFINE x == [sends[c] EXCEPT !.pc = q]
<1>1. /\ x \in SendCall /\ x.pc = q
      /\ x.text = sends[c].text /\ x.password = sends[c].password
  BY DEF SendTypes, SendCall
<1>2. sends' = [sends EXCEPT ![c] = x]
  BY DEF Goes
<1> HIDE DEF x
<1> QED
  BY <1>1, <1>2 DEF SendTypes, Moves

(* What a call that starts to wait has taken from the page. *)
Takes(c) ==
  /\ sends'[c].pc = "id" /\ sends'[c].text = text /\ text # ""
  /\ \A e \in Sends \ {c} : sends'[e] = sends[e]

(* Where every step takes a call from and to. *)
LEMMA SendMoves ==
  ASSUME SendTypes, NEW c \in Sends
  PROVE  /\ sendSecret(c) => sends[c].pc = "idle" /\ Moves(c, "locked")
         /\ inputEvent(c) =>
              \/ sends[c].pc = "locked" /\ Moves(c, "begin")
              \/ sends[c].pc = "unlocked" /\ Moves(c, "restore")
         /\ begin(c) => /\ sends[c].pc = "begin"
                        /\ Moves(c, "finally") \/ Takes(c)
         /\ idReady(c) => /\ sends[c].pc = "id"
                          /\ Moves(c, "wrap") \/ Moves(c, "encrypt")
         /\ wrapped(c) => sends[c].pc = "wrap" /\ Moves(c, "encrypt")
         /\ encrypted(c) => /\ sends[c].pc = "encrypt"
                            /\ Moves(c, "finally") \/ Moves(c, "post")
         /\ posted(c) => sends[c].pc = "post" /\ Moves(c, "copy")
         /\ refused(c) => sends[c].pc = "post" /\ Moves(c, "reason")
         /\ sendFails(c) => /\ sends[c].pc \in Waiting \ {"copy"}
                            /\ Moves(c, "finally")
         /\ copied(c) => sends[c].pc = "copy" /\ Moves(c, "finally")
         /\ unlock(c) => sends[c].pc = "finally" /\ Moves(c, "unlocked")
         /\ restore(c) => /\ sends[c].pc = "restore" /\ sends'[c].pc = "idle"
                          /\ \A e \in Sends \ {c} : sends'[e] = sends[e]
         /\ sendSecret(c) \/ Send(c) => sends' \in [Sends -> SendCall]
<1>1. ASSUME NEW q \in {"locked", "begin", "finally"} \cup Waiting
                        \cup Unlocked,
             Goes(c, q)
      PROVE  Moves(c, q) /\ sends' \in [Sends -> SendCall]
  BY <1>1, GoesMoves
<1>2. ASSUME begin(c)
      PROVE  /\ Moves(c, "finally") \/ Takes(c)
             /\ sends' \in [Sends -> SendCall]
  <2>1. CASE origin = "refused" \/ text = ""
    BY <1>1, <1>2, <2>1 DEF begin
  <2>2. CASE ~(origin = "refused" \/ text = "")
    <3> DEFINE x == [pc |-> "id", text |-> text,
                     password |-> optionalPassword]
    <3>1. sends' = [sends EXCEPT ![c] = x]
      BY <1>2, <2>2 DEF begin
    <3>2. x \in SendCall /\ x.pc = "id" /\ x.text = text
      BY DEF SendTypes, SendCall, Waiting
    <3> HIDE DEF x
    <3> QED
      BY <2>2, <3>1, <3>2 DEF SendTypes, Takes
  <2> QED
    BY <2>1, <2>2
<1>3. ASSUME restore(c)
      PROVE  /\ sends'[c].pc = "idle"
             /\ \A e \in Sends \ {c} : sends'[e] = sends[e]
             /\ sends' \in [Sends -> SendCall]
  <2>1. NoSend \in SendCall /\ NoSend.pc = "idle"
    BY DEF NoSend, SendCall
  <2>2. sends' = [sends EXCEPT ![c] = NoSend]
    BY <1>3 DEF restore, Ends
  <2> QED
    BY <2>1, <2>2 DEF SendTypes
<1>4. /\ sendSecret(c) => sends[c].pc = "idle" /\ Goes(c, "locked")
      /\ inputEvent(c) =>
           \/ sends[c].pc = "locked" /\ Goes(c, "begin")
           \/ sends[c].pc = "unlocked" /\ Goes(c, "restore")
      /\ begin(c) => sends[c].pc = "begin"
      /\ idReady(c) => /\ sends[c].pc = "id"
                       /\ Goes(c, "wrap") \/ Goes(c, "encrypt")
      /\ wrapped(c) => sends[c].pc = "wrap" /\ Goes(c, "encrypt")
      /\ encrypted(c) => /\ sends[c].pc = "encrypt"
                         /\ Goes(c, "finally") \/ Goes(c, "post")
      /\ posted(c) => sends[c].pc = "post" /\ Goes(c, "copy")
      /\ refused(c) => sends[c].pc = "post" /\ Goes(c, "reason")
      /\ sendFails(c) => /\ sends[c].pc \in Waiting \ {"copy"}
                         /\ Goes(c, "finally")
      /\ copied(c) => sends[c].pc = "copy" /\ Goes(c, "finally")
      /\ unlock(c) => sends[c].pc = "finally" /\ Goes(c, "unlocked")
      /\ restore(c) => sends[c].pc = "restore"
  BY DEF sendSecret, inputEvent, begin, idReady, wrapped, encrypted, posted,
         refused, sendFails, copied, unlock, restore, Waiting
<1>5. {"locked", "begin", "finally", "id", "wrap", "encrypt", "post",
       "reason", "copy", "unlocked", "restore"}
        = {"locked", "begin", "finally"} \cup Waiting \cup Unlocked
  BY DEF Waiting, Unlocked
<1> QED
  BY <1>1, <1>2, <1>3, <1>4, <1>5 DEF Send

(* The steps of the user and the browser start and end no call. *)
User ==
  \/ typeText \/ typeOptionalPassword \/ copyLink
  \/ nextFrame \/ hidden \/ shownAgain

(* They leave the calls, the lock and the flag alone. *)
LEMMA UserLeaves ==
  ASSUME User
  PROVE  UNCHANGED <<sends, readonly, originalReadonly, disabled, overlapped,
                     suppressGeneratedStateReset>>
BY DEF User, typeText, typeOptionalPassword, copyLink, nextFrame, hidden,
       shownAgain, Scrub, lockVars, pastVars

(* Every call holds a text and a password the user has typed. *)
LEMMA SendTypesStep ==
  ASSUME SendTypes, SendNext
  PROVE  SendTypes'
<1>1. sends' \in [Sends -> SendCall]
  BY SendMoves, UserLeaves DEF SendNext, SendTypes, User
<1>2. /\ text' \in Texts \cup {""}
      /\ optionalPassword' \in Passwords \cup {""}
  BY DEF SendTypes, SendNext, sendSecret, Send, inputEvent, begin, idReady,
         wrapped, encrypted, posted, refused, sendFails, copied, unlock,
         restore, typeText, typeOptionalPassword, copyLink, nextFrame, hidden,
         shownAgain, Scrub, fieldVars
<1>3. /\ readonly' \in BOOLEAN /\ disabled' \in BOOLEAN
      /\ suppressGeneratedStateReset' \in BOOLEAN
  BY DEF SendTypes, SendNext, sendSecret, Send, inputEvent, begin, idReady,
         wrapped, encrypted, posted, refused, sendFails, copied, unlock,
         restore, typeText, typeOptionalPassword, copyLink, nextFrame, hidden,
         shownAgain, Scrub, lockVars, lockTextarea, setInputsDisabled
<1>4. tick' \in BOOLEAN /\ away' \in BOOLEAN /\ overlapped' \in BOOLEAN
  BY DEF SendTypes, SendNext, sendSecret, Send, inputEvent, begin, idReady,
         wrapped, encrypted, posted, refused, sendFails, copied, unlock,
         restore, typeText, typeOptionalPassword, copyLink, nextFrame, hidden,
         shownAgain, Scrub, windowVars, pastVars
<1> QED
  BY <1>1, <1>2, <1>3, <1>4 DEF SendTypes

(* Only a call locks, and the end of any call unlocks. *)
LEMMA LockStep ==
  ASSUME SendTypes, LockInv, SendNext
  PROVE  LockInv'
<1>1. ASSUME NEW c \in Sends, sendSecret(c)
      PROVE  LockInv'
  <2>1. originalReadonly' = "no"
    BY <1>1 DEF sendSecret, lockTextarea, LockInv
  <2>2. sends'[c].pc = "locked" /\ \A e \in Sends \ {c} : sends'[e] = sends[e]
    BY <1>1, SendMoves DEF Moves
  <2>3. \A e \in Sends : sends'[e].pc \notin Unlocked
    BY <1>1, <2>2 DEF sendSecret, Acts, Free, Synchronous, Unlocked
  <2> QED
    BY <2>1, <2>2, <2>3 DEF LockInv, Active
<1>2. ASSUME NEW c \in Sends, unlock(c)
      PROVE  LockInv'
  <2>1. originalReadonly' = "no" /\ readonly' = FALSE
    BY <1>2 DEF unlock, lockTextarea, LockInv
  <2>2. sends'[c].pc = "unlocked"
    BY <1>2, SendMoves DEF Moves
  <2> QED
    BY <2>1, <2>2 DEF LockInv, Active
<1>3. ASSUME NEW c \in Sends, restore(c)
      PROVE  LockInv'
  <2>1. readonly = FALSE
    BY <1>3 DEF restore, LockInv, Unlocked
  <2>2. readonly' = FALSE /\ disabled' = FALSE
        /\ originalReadonly' = originalReadonly
    BY <1>3, <2>1 DEF restore, setInputsDisabled
  <2> QED
    BY <2>2 DEF LockInv
<1>4. ASSUME NEW c \in Sends, Send(c), ~unlock(c), ~restore(c)
      PROVE  LockInv'
  <2>1. UNCHANGED <<readonly, originalReadonly>>
    BY <1>4 DEF Send, inputEvent, begin, idReady, wrapped, encrypted, posted,
                refused, sendFails, copied, lockVars
  <2>2. /\ Active(c)'
        /\ sends'[c].pc \in Unlocked => sends[c].pc \in Unlocked
        /\ \A e \in Sends \ {c} : sends'[e] = sends[e]
    BY <1>4, SendMoves DEF Send, Moves, Takes, Active, Unlocked, Waiting
  <2> QED
    BY <2>1, <2>2 DEF LockInv
<1>5. CASE User
  BY <1>5, UserLeaves DEF LockInv, Active
<1> QED
  BY <1>1, <1>2, <1>3, <1>4, <1>5 DEF SendNext, User

(* A step that finds no call between two awaits finds the flag dropped. *)
LEMMA FreeUnflagged ==
  ASSUME SendTypes, ThreadInv, Free
  PROVE  suppressGeneratedStateReset = FALSE
BY DEF SendTypes, ThreadInv, Free, Synchronous, Unlocked

(* So does the event of a locking. *)
LEMMA LockedUnflagged ==
  ASSUME SendTypes, ThreadInv, NEW c \in Sends, Sync(c),
         sends[c].pc \notin Unlocked
  PROVE  suppressGeneratedStateReset = FALSE
<1>1. \A e \in Sends : sends[e].pc \in Unlocked => Sync(e)
  BY DEF Sync, Synchronous, Unlocked
<1> QED
  BY <1>1 DEF SendTypes, ThreadInv

(* The flag is set and dropped around the event of an unlocking.            *)
LEMMA ThreadStep ==
  ASSUME SendTypes, ThreadInv, SendNext
  PROVE  ThreadInv'
<1>1. ASSUME NEW c \in Sends, Send(c), ~inputEvent(c), ~begin(c), ~unlock(c),
             ~restore(c)
      PROVE  ThreadInv'
  <2>1. /\ \A e \in Sends : ~Sync(e)
        /\ suppressGeneratedStateReset' = suppressGeneratedStateReset
    BY <1>1 DEF Send, idReady, wrapped, encrypted, posted, refused, sendFails,
                copied, Runs, Free, Sync
  <2>2. suppressGeneratedStateReset = FALSE
    BY <2>1, FreeUnflagged DEF Free, Sync
  <2>3. /\ sends'[c].pc \in Waiting \cup {"finally"}
        /\ \A e \in Sends \ {c} : sends'[e] = sends[e]
    BY <1>1, SendMoves DEF Send, Moves, Waiting
  <2>4. \A e \in Sends : sends'[e].pc \notin Unlocked
    BY <2>1, <2>3 DEF Sync, Synchronous, Unlocked, Waiting
  <2>5. \A e \in Sends : Sync(e)' => e = c
    BY <2>1, <2>3 DEF Sync
  <2> QED
    BY <2>1, <2>2, <2>4, <2>5 DEF ThreadInv
<1>2. ASSUME NEW c \in Sends, sendSecret(c)
      PROVE  ThreadInv'
  <2>1. /\ \A e \in Sends : ~Sync(e)
        /\ suppressGeneratedStateReset' = suppressGeneratedStateReset
    BY <1>2 DEF sendSecret, Acts, Free, Sync
  <2>2. suppressGeneratedStateReset = FALSE
    BY <2>1, FreeUnflagged DEF Free, Sync
  <2>3. /\ sends'[c].pc = "locked"
        /\ \A e \in Sends \ {c} : sends'[e] = sends[e]
    BY <1>2, SendMoves DEF Moves
  <2>4. \A e \in Sends : sends'[e].pc \notin Unlocked
    BY <2>1, <2>3 DEF Sync, Synchronous, Unlocked
  <2>5. \A e \in Sends : Sync(e)' => e = c
    BY <2>1, <2>3 DEF Sync
  <2> QED
    BY <2>1, <2>2, <2>4, <2>5 DEF ThreadInv
<1>3. ASSUME NEW c \in Sends,
             inputEvent(c) \/ begin(c) \/ unlock(c) \/ restore(c)
      PROVE  ThreadInv'
  <2>1. /\ Sync(c) /\ \A e \in Sends \ {c} : sends'[e] = sends[e]
        /\ \/ /\ sends[c].pc \in Unlocked /\ sends'[c].pc \in Unlocked
              /\ suppressGeneratedStateReset' = suppressGeneratedStateReset
           \/ /\ sends[c].pc \notin Unlocked /\ sends'[c].pc \notin Unlocked
              /\ suppressGeneratedStateReset' = suppressGeneratedStateReset
           \/ /\ sends'[c].pc \in Unlocked
              /\ suppressGeneratedStateReset' = TRUE
           \/ /\ sends'[c].pc \notin Unlocked
              /\ suppressGeneratedStateReset' = FALSE
    BY <1>3, SendMoves DEF inputEvent, begin, unlock, restore, Moves, Takes,
                           Sync, Synchronous, Unlocked
  <2>2. \A e \in Sends : Sync(e) => e = c
    BY <2>1 DEF ThreadInv
  <2>3. \A e \in Sends : Sync(e)' => e = c
    BY <2>1, <2>2 DEF Sync
  <2>4. \A e \in Sends \ {c} : sends'[e].pc \notin Unlocked
    BY <2>3 DEF Sync, Synchronous, Unlocked
  <2>5. CASE sends'[c].pc \in Unlocked
    <3>1. suppressGeneratedStateReset' = TRUE
      BY <2>1, <2>5 DEF ThreadInv
    <3> QED
      BY <2>3, <2>5, <3>1 DEF ThreadInv
  <2>6. CASE sends'[c].pc \notin Unlocked
    <3>1. suppressGeneratedStateReset' = FALSE
      BY <2>1, <2>6, LockedUnflagged
    <3> QED
      BY <2>3, <2>4, <2>6, <3>1 DEF ThreadInv
  <2> QED
    BY <2>5, <2>6
<1>4. CASE User
  BY <1>4, UserLeaves DEF ThreadInv, Sync
<1> QED
  BY <1>1, <1>2, <1>3, <1>4 DEF SendNext, User

(* What the handler of the input event does: nothing while a call unlocks,  *)
(* and taking the link away at every other time.                            *)
LEMMA EventEffect ==
  ASSUME SendTypes, ThreadInv
  PROVE  /\ \A c \in Sends : inputEvent(c) =>
              \/ sends[c].pc = "unlocked" /\ UNCHANGED <<generated, label>>
              \/ /\ sends[c].pc = "locked"
                 /\ generated' = NoLink /\ label' = ""
         /\ typeText \/ typeOptionalPassword =>
              generated' = NoLink /\ label' = ""
<1>1. ASSUME NEW c \in Sends, inputEvent(c), sends[c].pc = "unlocked"
      PROVE  UNCHANGED <<generated, label>>
  <2>1. suppressGeneratedStateReset = TRUE
    BY <1>1 DEF ThreadInv, Unlocked
  <2> QED
    BY <1>1, <2>1 DEF inputEvent, clearGeneratedState, linkVars
<1>2. ASSUME NEW c \in Sends, inputEvent(c), sends[c].pc = "locked"
      PROVE  generated' = NoLink /\ label' = ""
  <2>1. suppressGeneratedStateReset = FALSE
    BY <1>2, LockedUnflagged DEF Sync, Synchronous, Unlocked
  <2> QED
    BY <1>2, <2>1 DEF inputEvent, clearGeneratedState
<1>3. ASSUME typeText \/ typeOptionalPassword
      PROVE  generated' = NoLink /\ label' = ""
  <2>1. suppressGeneratedStateReset = FALSE
    BY <1>3, FreeUnflagged DEF typeText, typeOptionalPassword, Acts
  <2> QED
    BY <1>3, <2>1 DEF typeText, typeOptionalPassword, clearGeneratedState
<1> QED
  BY <1>1, <1>2, <1>3 DEF inputEvent

(* What was accepted stays on the page through every step of every call. *)
LEMMA AcceptedStep ==
  ASSUME SendTypes, ThreadInv, AcceptedInv, SendNext
  PROVE  AcceptedInv'
<1>1. ASSUME NEW c \in Sends, sendSecret(c)
      PROVE  AcceptedInv'
  BY <1>1 DEF sendSecret, AcceptedInv
<1>2. ASSUME NEW c \in Sends, inputEvent(c)
      PROVE  AcceptedInv'
  <2>1. /\ accepted' = accepted
        /\ sends'[c].pc # "locked"
        /\ \A e \in Sends \ {c} : sends'[e] = sends[e]
    BY <1>2, SendMoves DEF inputEvent, Moves, pastVars
  <2>2. accepted # NoLink => generated' = generated
    BY <1>2, EventEffect DEF AcceptedInv
  <2> QED
    BY <2>1, <2>2 DEF AcceptedInv
<1>3. ASSUME NEW c \in Sends, posted(c)
      PROVE  AcceptedInv'
  <2>1. /\ generated' = accepted'
        /\ \A e \in Sends : sends[e].pc # "locked"
    BY <1>3 DEF posted, Runs, Free, Synchronous
  <2>2. \A e \in Sends : sends'[e].pc # "locked"
    BY <1>3, <2>1, SendMoves DEF Moves
  <2> QED
    BY <2>1, <2>2 DEF AcceptedInv
<1>4. ASSUME NEW c \in Sends, Send(c), ~inputEvent(c), ~posted(c)
      PROVE  AcceptedInv'
  <2>1. UNCHANGED <<generated, accepted>>
    BY <1>4 DEF Send, begin, idReady, wrapped, encrypted, refused, sendFails,
                copied, unlock, restore, linkVars, pastVars
  <2>2. /\ sends'[c].pc # "locked"
        /\ \A e \in Sends \ {c} : sends'[e] = sends[e]
    BY <1>4, SendMoves DEF Send, Moves, Takes
  <2> QED
    BY <2>1, <2>2 DEF AcceptedInv
<1>5. CASE User
  <2>1. \/ accepted' = NoLink
        \/ UNCHANGED <<generated, accepted>>
    BY <1>5 DEF User, typeText, typeOptionalPassword, copyLink, nextFrame,
                hidden, shownAgain, Scrub, linkVars, pastVars
  <2> QED
    BY <1>5, <2>1, UserLeaves DEF AcceptedInv
<1> QED
  BY <1>1, <1>2, <1>3, <1>4, <1>5 DEF SendNext, User

(* Neither history is ever taken back, and the first call is alone. *)
LEMMA HistoryStays ==
  ASSUME SendTypes, SendNext, overlapped' = FALSE
  PROVE  /\ overlapped = FALSE
         /\ \A c \in Sends : sendSecret(c) => \A e \in Sends : ~Active(e)
         /\ away' = FALSE => away = FALSE
<1>1. away' = FALSE => away = FALSE
  BY DEF SendTypes, SendNext, sendSecret, Send, inputEvent, begin, idReady,
         wrapped, encrypted, posted, refused, sendFails, copied, unlock,
         restore, typeText, typeOptionalPassword, copyLink, nextFrame, hidden,
         shownAgain, Scrub, windowVars
<1>2. ASSUME NEW c \in Sends, sendSecret(c)
      PROVE  overlapped = FALSE /\ \A e \in Sends : ~Active(e)
  <2>1. ~(overlapped \/ \E e \in Sends : sends[e].pc # "idle")
    BY <1>2, Zenon DEF sendSecret
  <2> QED
    BY <2>1 DEF SendTypes, Active
<1>3. CASE ~\E c \in Sends : sendSecret(c)
  <2>1. overlapped' = overlapped
    BY <1>3, UserLeaves DEF SendNext, User, Send, inputEvent, begin, idReady,
         wrapped, encrypted, posted, refused, sendFails, copied, unlock,
         restore, pastVars
  <2> QED
    BY <1>1, <1>3, <2>1
<1> QED
  BY <1>1, <1>2, <1>3

(* A step of a call is a step of the only one, as long as there is no other. *)
LEMMA OnlyCall ==
  ASSUME SendTypes, \A d, e \in Sends : Active(d) /\ Active(e) => d = e,
         NEW c \in Sends, Send(c)
  PROVE  /\ Active(c)
         /\ \A e \in Sends \ {c} : sends'[e] = sends[e] /\ ~Active(e)
         /\ \A d, e \in Sends : Active(d)' /\ Active(e)' => d = e
<1>1. Active(c) /\ \A e \in Sends \ {c} : sends'[e] = sends[e]
  BY SendMoves DEF Send, Moves, Takes, Active, Waiting
<1>2. \A e \in Sends \ {c} : ~Active(e)
  BY <1>1
<1>3. \A e \in Sends \ {c} : ~Active(e)'
  BY <1>1, <1>2 DEF Active
<1> QED
  BY <1>1, <1>2, <1>3

(* A lone call that was accepted ends with the button saying so. *)
LEMMA LabelStep ==
  ASSUME SendTypes, ThreadInv, LabelInv, SendNext, overlapped' = FALSE
  PROVE  LabelInv'
<1>1. ASSUME NEW c \in Sends, sendSecret(c)
      PROVE  LabelInv'
  <2>1. \A e \in Sends : ~Active(e)
    BY <1>1, HistoryStays
  <2>2. \A e \in Sends \ {c} : ~Active(e)'
    BY <1>1, <2>1, SendMoves DEF Moves, Active
  <2>3. accepted' = NoLink
    BY <1>1 DEF sendSecret
  <2> QED
    BY <2>2, <2>3 DEF LabelInv
<1>2. ASSUME NEW c \in Sends, Send(c)
      PROVE  LabelInv'
  <2>1. /\ \A e \in Sends \ {c} : sends'[e] = sends[e] /\ ~Active(e)
        /\ \A d, e \in Sends : Active(d)' /\ Active(e)' => d = e
    BY <1>2, OnlyCall DEF LabelInv
  <2>2. \A e \in Sends \ {c} : /\ sends'[e].pc = "idle"
                               /\ sends[e].pc = "idle"
    BY <2>1 DEF Active
  <2>3. CASE posted(c)
    <3>1. sends'[c].pc = "copy"
      BY <2>3, SendMoves DEF Moves
    <3> QED
      BY <2>1, <2>2, <3>1 DEF LabelInv, Before
  <2>4. CASE copied(c)
    <3>1. sends'[c].pc = "finally" /\ label' \in {"success", "ready"}
      BY <2>4, SendMoves DEF Moves, copied
    <3> QED
      BY <2>1, <2>2, <3>1 DEF LabelInv, Before
  <2>5. CASE sends[c].pc \in Before /\ ~posted(c)
    <3>1. accepted = NoLink
      BY <2>5 DEF LabelInv
    <3>2. accepted' = accepted
      BY <1>2, <2>5 DEF Send, inputEvent, begin, idReady, wrapped, encrypted,
           refused, sendFails, copied, unlock, restore, pastVars
    <3> QED
      BY <2>1, <3>1, <3>2 DEF LabelInv
  <2>6. CASE \/ sends[c].pc = "unlocked" /\ inputEvent(c)
             \/ unlock(c) \/ restore(c)
    <3>1. sends[c].pc # "copy" /\ sends'[c].pc \notin Before
      BY <2>6, SendMoves DEF Moves, Before
    <3>2. UNCHANGED <<label, accepted>>
      BY <2>6, EventEffect DEF inputEvent, unlock, restore, linkVars, pastVars
    <3>3. ~\E e \in Sends : sends[e].pc = "copy"
      BY <2>2, <3>1
    <3> QED
      BY <2>1, <2>2, <3>1, <3>2, <3>3 DEF LabelInv, Before
  <2> QED
    BY <1>2, <2>3, <2>4, <2>5, <2>6, SendMoves DEF Send, Before, Waiting
<1>3. CASE User
  <2>1. \/ accepted' = NoLink
        \/ UNCHANGED <<label, accepted>>
    BY <1>3 DEF User, typeText, typeOptionalPassword, copyLink, nextFrame,
                hidden, shownAgain, Scrub, linkVars, pastVars
  <2> QED
    BY <1>3, <2>1, UserLeaves DEF LabelInv, Active
<1> QED
  BY <1>1, <1>2, <1>3 DEF SendNext, User

(* The first call locks what is shown. *)
LEMMA StartOne ==
  ASSUME SendTypes, OneCall, window = "shown", NEW c \in Sends, sendSecret(c),
         \A e \in Sends : ~Active(e)
  PROVE  window' = "shown" /\ OneCall'
<1>1. /\ UNCHANGED <<text, tick, window, clipboard, generated, label>>
      /\ tick = FALSE /\ readonly' = TRUE
  BY DEF sendSecret, windowVars, fieldVars, linkVars, Acts, SendTypes,
         lockTextarea
<1>2. /\ sends'[c].pc = "locked"
      /\ \A e \in Sends \ {c} : sends'[e].pc = "idle"
  BY SendMoves DEF Moves, Active
<1>3. \A e \in Sends : sends'[e].pc \notin Waiting
  BY <1>2 DEF Waiting
<1> QED
  BY <1>1, <1>3 DEF OneCall

(* It is alone until it ends, and then what is shown is its own. *)
LEMMA GoesOnAlone ==
  ASSUME SendTypes, ThreadInv, LabelInv, OneCall, window = "shown",
         NEW c \in Sends, Send(c)
  PROVE  window' = "shown" /\ OneCall'
<1>1. /\ Active(c)
      /\ \A e \in Sends \ {c} : sends'[e].pc = "idle"
  BY OnlyCall DEF LabelInv, Active
<1>2. UNCHANGED <<text, tick, window>> /\ tick = FALSE
  BY <1>1 DEF Send, inputEvent, begin, idReady, wrapped, encrypted, posted,
       refused, sendFails, copied, unlock, restore, windowVars, fieldVars,
       OneCall, SendTypes
<1>3. ASSUME sends'[c].pc \notin {"locked", "begin"} \cup Waiting,
             generated' # NoLink => generated'.text = text,
             label' = "success" =>
               generated' # NoLink /\ clipboard' = generated'
      PROVE  OneCall'
  <2>1. \A e \in Sends : sends'[e].pc \notin {"locked", "begin"} \cup Waiting
    BY <1>1, <1>3 DEF Waiting
  <2> QED
    BY <1>2, <1>3, <2>1 DEF OneCall
<1>4. CASE inputEvent(c)
  <2>1. UNCHANGED <<readonly, clipboard>>
    BY <1>4 DEF inputEvent, lockVars
  <2>2. CASE sends[c].pc = "locked"
    <3>1. generated' = NoLink /\ label' = "" /\ sends'[c].pc = "begin"
      BY <1>4, <2>2, EventEffect, SendMoves DEF Moves
    <3>2. readonly' = TRUE
      BY <2>1, <2>2 DEF OneCall
    <3>3. \A e \in Sends : sends'[e].pc \notin Waiting
      BY <1>1, <3>1 DEF Waiting
    <3> QED
      BY <1>2, <3>1, <3>2, <3>3 DEF OneCall
  <2>3. CASE sends[c].pc = "unlocked"
    <3>1. UNCHANGED <<generated, label>> /\ sends'[c].pc = "restore"
      BY <1>4, <2>3, EventEffect, SendMoves DEF Moves
    <3> QED
      BY <1>2, <1>3, <2>1, <3>1 DEF OneCall, Waiting
  <2> QED
    BY <1>2, <1>4, <2>2, <2>3 DEF inputEvent
<1>5. CASE begin(c)
  <2>1. UNCHANGED <<readonly, clipboard, generated>> /\ readonly = TRUE
    BY <1>5, SendMoves DEF begin, OneCall
  <2>2. label' \in {"", "busy"} /\ disabled' = TRUE
    BY <1>5 DEF begin, setInputsDisabled
  <2>3. CASE Moves(c, "finally")
    BY <1>2, <1>3, <2>1, <2>2, <2>3 DEF Moves, OneCall, Waiting
  <2>4. CASE Takes(c) /\ ~Moves(c, "finally")
    <3>1. label' = "busy"
      <4>1. Goes(c, "finally") => Moves(c, "finally")
        BY GoesMoves DEF Unlocked, Waiting
      <4> QED
        BY <1>5, <2>4, <4>1 DEF begin
    <3>2. /\ sends'[c].pc = "id" /\ sends'[c].text = text /\ text # ""
      BY <2>4 DEF Takes
    <3> QED
      BY <1>1, <1>2, <2>1, <2>2, <3>1, <3>2 DEF OneCall, Waiting
  <2> QED
    BY <1>5, <1>2, <2>3, <2>4, SendMoves
<1>6. CASE sends[c].pc \in Waiting
  <2>1. /\ sends[c].text = text /\ text # "" /\ label = "busy"
        /\ readonly = TRUE /\ disabled = TRUE
        /\ generated # NoLink => generated.text = text
        /\ sends[c].pc = "copy" => generated = Contents(c)
        /\ UNCHANGED <<readonly, disabled>>
    BY <1>6 DEF OneCall, Send, inputEvent, begin, idReady, wrapped,
         encrypted, posted, refused, sendFails, copied, unlock, restore,
         Waiting, lockVars
  <2>2. Contents(c).text = text /\ Contents(c) # NoLink
    BY <2>1 DEF Contents, NoLink
  <2>3. CASE sends'[c].pc \in Waiting
    <3>1. /\ Moves(c, sends'[c].pc)
          /\ label' = label
          /\ \/ generated' = generated /\ sends'[c].pc # "copy"
             \/ generated' = Contents(c)
      <4>1. ~Moves(c, "finally")
        BY <2>3 DEF Moves, Waiting
      <4>2. Goes(c, "finally") => Moves(c, "finally")
        BY GoesMoves DEF Unlocked, Waiting
      <4>3. idReady(c) \/ wrapped(c) \/ encrypted(c) \/ posted(c)
            \/ refused(c)
        BY <1>6, <4>1, SendMoves DEF Send, Waiting
      <4>4. /\ Moves(c, sends'[c].pc)
            /\ ~posted(c) => sends'[c].pc # "copy"
        BY <4>1, <4>3, SendMoves DEF Moves
      <4>5. /\ label' = label
            /\ ~posted(c) => generated' = generated
            /\ posted(c) => generated' = Contents(c)
        BY <4>1, <4>2, <4>3 DEF idReady, wrapped, encrypted, posted, refused,
             linkVars
      <4> QED
        BY <4>4, <4>5
    <3>2. sends'[c].text = text /\ Contents(c)' = Contents(c)
      BY <2>1, <3>1 DEF Moves, Contents
    <3> HIDE DEF Contents
    <3> QED
      BY <1>1, <1>2, <2>1, <2>2, <2>3, <3>1, <3>2 DEF OneCall, Waiting
  <2>4. CASE sends'[c].pc \notin Waiting
    <3>1. /\ encrypted(c) \/ sendFails(c) \/ copied(c)
          /\ sends'[c].pc = "finally"
      BY <1>6, <2>4, SendMoves DEF Send, Moves, Waiting
    <3>2. /\ generated' = generated
          /\ label' = "success" => /\ sends[c].pc = "copy"
                                   /\ clipboard' = Contents(c)
      BY <2>1, <3>1 DEF encrypted, sendFails, copied
    <3> QED
      BY <1>2, <1>3, <2>1, <2>2, <3>1, <3>2 DEF Waiting
  <2> QED
    BY <1>2, <2>3, <2>4
<1>7. CASE unlock(c) \/ restore(c)
  <2>1. UNCHANGED <<generated, label, clipboard>>
    BY <1>7 DEF unlock, restore, linkVars
  <2>2. sends'[c].pc \in {"unlocked", "idle"}
    BY <1>7, SendMoves DEF Moves
  <2> QED
    BY <1>2, <1>3, <2>1, <2>2 DEF OneCall, Waiting
<1> QED
  BY <1>2, <1>4, <1>5, <1>6, <1>7, SendMoves DEF Send, Waiting

(* What is locked is not edited, and an edit takes the link away. *)
LEMMA UserStep ==
  ASSUME SendTypes, ThreadInv, OneCall, window = "shown", away' = FALSE, User
  PROVE  window' = "shown" /\ OneCall'
<1>1. /\ ~hidden /\ ~shownAgain
      /\ UNCHANGED window /\ Free
  BY DEF User, typeText, typeOptionalPassword, copyLink, nextFrame, hidden,
         shownAgain, Scrub, windowVars, Acts, Runs
<1>2. UNCHANGED <<sends, readonly, disabled>>
  BY UserLeaves
<1>3. CASE typeText \/ typeOptionalPassword \/ nextFrame
  <2>1. \A e \in Sends : sends[e].pc \notin Waiting
    BY <1>3 DEF OneCall, typeText, typeOptionalPassword, nextFrame, SendTypes,
                Active, Waiting
  <2>2. generated' = NoLink /\ label' = "" /\ tick' = FALSE
    <3>1. CASE typeText \/ typeOptionalPassword
      BY <3>1, EventEffect DEF typeText, typeOptionalPassword, Acts,
           windowVars, SendTypes
    <3>2. CASE nextFrame
      BY <3>2 DEF nextFrame, Scrub, OneCall, SendTypes
    <3> QED
      BY <1>3, <3>1, <3>2
  <2>3. \A e \in Sends : sends[e].pc \notin {"locked", "begin"}
    BY <1>1 DEF Free, Synchronous
  <2> QED
    BY <1>1, <1>2, <2>1, <2>2, <2>3 DEF OneCall
<1>4. CASE copyLink
  <2>1. /\ UNCHANGED <<text, generated, label, tick>>
        /\ clipboard' = generated /\ generated # NoLink
    BY <1>4 DEF copyLink, fieldVars, linkVars, windowVars
  <2>2. \A e \in Sends : sends[e].pc \notin Waiting
    BY <1>4 DEF copyLink, OneCall, SendTypes
  <2>3. \A e \in Sends : Active(e)' = Active(e)
    BY <1>2 DEF Active
  <2> QED
    BY <1>1, <1>2, <2>1, <2>2, <2>3 DEF OneCall
<1> QED
  BY <1>1, <1>3, <1>4 DEF User

(* The page starts unlocked, empty and without a call. *)
LEMMA SInvInit == SendInit => SInv
<1> SUFFICES ASSUME SendInit PROVE SInv
  OBVIOUS
<1>1. NoSend \in SendCall /\ NoSend.pc = "idle"
  BY DEF NoSend, SendCall
<1>2. SendTypes /\ \A c \in Sends : sends[c].pc = "idle"
  BY <1>1 DEF SendInit, SendTypes
<1>3. LockInv /\ ThreadInv
  BY <1>2 DEF SendInit, LockInv, ThreadInv, Sync, Synchronous, Unlocked
<1>4. AcceptedInv /\ LabelInv
  BY <1>2 DEF SendInit, AcceptedInv, LabelInv, Active, Before
<1>5. window = "shown" /\ OneCall
  BY <1>2 DEF SendInit, OneCall, Active, Waiting
<1> QED
  BY <1>2, <1>3, <1>4, <1>5 DEF SInv

(* Every step of the sending page keeps the invariant. *)
LEMMA SInvStep == SInv /\ [SendNext]_sendVars => SInv'
<1> SUFFICES ASSUME SInv, [SendNext]_sendVars PROVE SInv'
  OBVIOUS
<1>1. CASE SendNext
  <2>1. SendTypes' /\ LockInv' /\ ThreadInv' /\ AcceptedInv'
    BY <1>1, SendTypesStep, LockStep, ThreadStep, AcceptedStep DEF SInv
  <2>2. ASSUME overlapped' = FALSE
        PROVE  LabelInv'
    BY <1>1, <2>2, HistoryStays, LabelStep DEF SInv
  <2>3. ASSUME overlapped' = FALSE, away' = FALSE
        PROVE  window' = "shown" /\ OneCall'
    <3>1. /\ window = "shown" /\ OneCall /\ LabelInv
          /\ \A c \in Sends : sendSecret(c) => \A e \in Sends : ~Active(e)
      BY <1>1, <2>3, HistoryStays DEF SInv
    <3>2. \/ \E c \in Sends : sendSecret(c) \/ Send(c)
          \/ User
      BY <1>1 DEF SendNext, User
    <3> QED
      BY <2>3, <3>1, <3>2, StartOne, GoesOnAlone, UserStep DEF SInv
  <2> QED
    BY <2>1, <2>2, <2>3 DEF SInv
<1>2. CASE UNCHANGED sendVars
  <2>1. UNCHANGED <<text, optionalPassword, readonly, originalReadonly,
                    disabled, suppressGeneratedStateReset, generated, label,
                    clipboard, sends, tick, window, away, overlapped,
                    accepted>>
    BY <1>2 DEF sendVars, fieldVars, lockVars, linkVars, windowVars, pastVars
  <2>2. /\ SendTypes' = SendTypes /\ LockInv' = LockInv
        /\ ThreadInv' = ThreadInv /\ AcceptedInv' = AcceptedInv
    BY <2>1 DEF SendTypes, LockInv, ThreadInv, AcceptedInv, Active, Sync
  <2>3. LabelInv' = LabelInv
    BY <2>1 DEF LabelInv, Active
  <2>4. OneCall' = OneCall
    BY <2>1 DEF OneCall, Active, Contents
  <2> QED
    BY <2>1, <2>2, <2>3, <2>4 DEF SInv
<1> QED
  BY <1>1, <1>2

(* The invariant says what the user can rely on.                            *)
LEMMA SInvShows == SInv => NeverStuck /\ LinkIsForText /\ ResultStays
<1> SUFFICES ASSUME SInv PROVE NeverStuck /\ LinkIsForText /\ ResultStays
  OBVIOUS
<1>1. NeverStuck
  BY DEF SInv, LockInv, SendTypes, NeverStuck, Sending, Active
<1>2. LinkIsForText
  <2>1. CASE overlapped = FALSE /\ away = FALSE
    BY <2>1 DEF SInv, OneCall, LinkIsForText
  <2>2. CASE ~(overlapped = FALSE /\ away = FALSE)
    BY <2>2 DEF SInv, SendTypes, LinkIsForText
  <2> QED
    BY <2>1, <2>2
<1>3. ResultStays
  <2>1. accepted # NoLink => generated = accepted
    BY DEF SInv, AcceptedInv
  <2>2. ASSUME accepted # NoLink, ~Sending, ~overlapped
        PROVE  label \in {"success", "ready"}
    <3>1. LabelInv
      BY <2>2 DEF SInv, SendTypes
    <3> QED
      BY <2>2, <3>1 DEF LabelInv, Sending
  <2> QED
    BY <2>1, <2>2 DEF ResultStays
<1> QED
  BY <1>1, <1>2, <1>3

(* The page is only locked while a call of sendSecret is under way.         *)
THEOREM NeverStuckCorrect == SendSpec => []NeverStuck
BY SInvInit, SInvStep, SInvShows, PTL DEF SendSpec

(* A link shown leads to the text shown, and "Link copied!" is said of it,  *)
(* while the user stays and starts no second call.                          *)
THEOREM LinkCorrect == SendSpec => []LinkIsForText
BY SInvInit, SInvStep, SInvShows, PTL DEF SendSpec

(* The link to a secret the daemon has accepted stays on the page, whatever *)
(* calls of sendSecret end beside it or after it, until the user edits,     *)
(* sends again or leaves.                                                   *)
THEOREM ResultStaysCorrect == SendSpec => []ResultStays
BY SInvInit, SInvStep, SInvShows, PTL DEF SendSpec

-----------------------------------------------------------------------------
(***************************************************************************)
(* A window of client.js: each page keeps what it keeps alone.             *)
(***************************************************************************)
LEMMA WindowSteps ==
  [ReceivePage \/ SendPage]_clientVars =>
    [Next]_vars /\ [SendNext]_sendVars
BY DEF ReceivePage, SendPage, clientVars

(* The receiving page of a window asks for a password exactly when that can *)
(* work, is put away without the secret, and keeps the secret in order.     *)
THEOREM WindowReceives ==
  ClientSpec =>
    []CardForPending /\ []NothingLeftBehind /\ []SecretKeptInOrder
<1>1. ClientSpec => Spec
  <2>1. ClientInit => Init
    BY DEF ClientInit
  <2> QED
    BY <2>1, WindowSteps, PTL DEF ClientSpec, Spec
<1> QED
  BY <1>1, KeptInOrder, CardCorrect, PutAwayClean, PTL

(* The sending page of a window is locked by calls only, shows a link to    *)
(* the text shown, and keeps the one the daemon has accepted.               *)
THEOREM WindowSends ==
  ClientSpec => []NeverStuck /\ []LinkIsForText /\ []ResultStays
<1>1. ClientSpec => SendSpec
  <2>1. ClientInit => SendInit
    BY DEF ClientInit
  <2> QED
    BY <2>1, WindowSteps, PTL DEF ClientSpec, SendSpec
<1> QED
  BY <1>1, NeverStuckCorrect, LinkCorrect, ResultStaysCorrect, PTL
=============================================================================
