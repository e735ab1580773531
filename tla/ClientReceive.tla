--------------------------- MODULE ClientReceive ---------------------------
(***************************************************************************)
(* The receiving page, client-receive.js with the scrubbing of             *)
(* client-shared.js.  JavaScript runs to the next await, so an action is   *)
(* what happens between two of them; the promises of the fetch and of      *)
(* WebCrypto settle in any order relative to the user's clicks, to the     *)
(* animation frame that scrubs the page, and to the page being left and    *)
(* restored from the browser's cache.                                      *)
(*                                                                         *)
(* WebCrypto copies the bytes it is given when it is called: the salt of a *)
(* pending secret is read when the key derivation starts, its ciphertext   *)
(* and nonce when the decryption starts.                                   *)
(***************************************************************************)
EXTENDS FiniteSets

CONSTANTS
  Calls,      \* bound: overlapping calls of decryptPendingSecretWithPassword
  SlowFrames  \* a promise may settle before a pending animation frame: the
              \* page was opened in a background tab, or the answer is fast

ASSUME ClientReceiveConstants == SlowFrames \in BOOLEAN

VARIABLES
  link,      \* what location.hash holds
  blob,      \* what the blob decodes to
  server,    \* whether the daemon still has it
  recv,      \* where tryToReceiveSecret is
  keyBytes,  \* the arrays its finally clause clears
  pending,   \* state.pendingSecret is not null
  bytes,     \* the arrays of the pending secret
  view,      \* the text shown
  tone,      \* its receive-state class
  card,      \* the password dialogue is visible
  password,  \* the password field
  dec,       \* the calls of decryptPendingSecretWithPassword
  frame,     \* scrubSoon has asked for an animation frame
  page,      \* shown, or in the back/forward cache
  left,      \* history: the page was left
  got,       \* history: the secret arrived and was good
  raced      \* history: it did before a pending frame, or calls overlapped

secretVars == <<keyBytes, pending, bytes>>
uiVars == <<view, tone, card, password>>
pageVars == <<frame, page, left>>
fixedVars == <<link, blob>>
historyVars == <<got, raced>>
vars == <<fixedVars, server, recv, secretVars, uiVars, dec, pageVars,
          historyVars>>

Idle == [pc |-> "idle", password |-> "", salt |-> FALSE, text |-> FALSE]

(* The scripts are loaded and bindSensitiveUiScrubbing has run; without a   *)
(* pause tryToReceiveSecret is next.                                        *)
Init ==
  /\ link \in {"good", "malformed", "none"}
  /\ blob \in {"text", "password", "short", "foreign", "corrupt", "odd"}
  /\ server \in {"held", "gone"}
  /\ recv = "init" /\ keyBytes = "none"
  /\ pending = FALSE /\ bytes = "none"
  /\ view = "message" /\ tone = "info"
  /\ card = FALSE /\ password = ""
  /\ dec = [c \in Calls |-> Idle]
  /\ frame = TRUE /\ page = "shown" /\ left = FALSE
  /\ got = FALSE /\ raced = FALSE

(* A promise's continuation may run. *)
Settles == page = "shown" /\ (SlowFrames \/ ~frame)
(* The page has been painted, so the user may act. *)
UserActs == page = "shown" /\ ~frame

-----------------------------------------------------------------------------
(* Variant: the class of an earlier text is kept. *)
setViewerText_KeepsTone(text, t) ==
  view' = text /\ tone' = IF t = "" THEN tone ELSE t

setViewerText(text, t) == view' = text /\ tone' = t

setDecryptionCardVisible(visible) ==
  /\ card' = visible
  /\ password' = IF visible THEN password ELSE ""

(* Variant: the arrays are cleared but the reference is kept. *)
clearPendingSecret_Keeps ==
  /\ bytes' = IF pending THEN "zero" ELSE bytes
  /\ UNCHANGED pending

clearPendingSecret ==
  /\ bytes' = IF pending THEN "zero" ELSE bytes
  /\ pending' = FALSE

(* An empty field, and a text with a tone, is left as it is. *)
scrubSensitiveUi ==
  /\ IF tone \in {"info", "error"} THEN UNCHANGED <<view, tone>>
     ELSE view' = "empty" /\ UNCHANGED tone
  /\ setDecryptionCardVisible(FALSE)
  /\ clearPendingSecret

-----------------------------------------------------------------------------
(***************************************************************************)
(* tryToReceiveSecret                                                      *)
(***************************************************************************)
(* Variant: the error is logged and nothing is shown. *)
Caught_Silent ==
  /\ recv' = "done" /\ keyBytes' = "zero"
  /\ UNCHANGED <<view, tone>>
  /\ setDecryptionCardVisible(FALSE)
  /\ clearPendingSecret

(* The catch and the finally clause. *)
Caught ==
  /\ recv' = "done" /\ keyBytes' = "zero"
  /\ setViewerText("message", "error")
  /\ setDecryptionCardVisible(FALSE)
  /\ clearPendingSecret

(* Up to the fetch.  A link that is no link is reported and that is all. *)
tryToReceiveSecret ==
  /\ recv = "init"
  /\ \/ /\ link = "none"
        /\ setViewerText("message", "info")
        /\ recv' = "done"
        /\ UNCHANGED <<secretVars, card, password>>
     \/ link = "malformed" /\ Caught
     \/ /\ link = "good"
        /\ clearPendingSecret
        /\ setViewerText("receiving", "info")
        /\ recv' = "fetch" /\ keyBytes' = "live"
        /\ UNCHANGED <<card, password>>
  /\ UNCHANGED <<fixedVars, server, dec, pageVars, historyVars>>

(* The daemon gives the blob away; or it has none, or the network fails on  *)
(* the way there or back.                                                   *)
fetched ==
  /\ recv = "fetch" /\ Settles
  /\ \/ /\ server = "held" /\ server' = "gone"
        /\ recv' = "body"
        /\ UNCHANGED <<secretVars, uiVars>>
     \/ server' \in {server, "gone"} /\ Caught
  /\ UNCHANGED <<fixedVars, dec, pageVars, historyVars>>

(* From here on the network, or WebCrypto, may fail at every await. *)
bodyRead ==
  /\ recv = "body" /\ Settles
  /\ \/ blob # "short" /\ recv' = "derive" /\ UNCHANGED <<secretVars, uiVars>>
     \/ Caught
  /\ UNCHANGED <<fixedVars, server, dec, pageVars, historyVars>>

idDerived ==
  /\ recv = "derive" /\ Settles
  /\ \/ blob # "foreign" /\ recv' = "import"
        /\ UNCHANGED <<secretVars, uiVars>>
     \/ Caught
  /\ UNCHANGED <<fixedVars, server, dec, pageVars, historyVars>>

keyImported ==
  /\ recv = "import" /\ Settles
  /\ \/ recv' = "decrypt" /\ UNCHANGED <<secretVars, uiVars>>
     \/ Caught
  /\ UNCHANGED <<fixedVars, server, dec, pageVars, historyVars>>

(* Copies: the finally clause clears the originals. *)
StoredBytes == "good"

(* The text is shown, or kept until the user has given the password. *)
decrypted ==
  /\ recv = "decrypt" /\ Settles
  /\ \/ Caught /\ UNCHANGED historyVars
     \/ /\ blob = "text"
        /\ setViewerText("secret", "")
        /\ recv' = "done" /\ keyBytes' = "zero"
        /\ got' = TRUE /\ raced' = frame
        /\ UNCHANGED <<pending, bytes, card, password>>
     \/ /\ blob = "password"
        /\ pending' = TRUE /\ bytes' = StoredBytes
        /\ setViewerText("empty", "")
        /\ card' = TRUE /\ password' = ""
        /\ recv' = "done" /\ keyBytes' = "zero"
        /\ got' = TRUE /\ raced' = frame
  /\ UNCHANGED <<fixedVars, server, dec, pageVars>>

-----------------------------------------------------------------------------
(***************************************************************************)
(* decryptPendingSecretWithPassword, started by the button or by Enter.    *)
(* Nothing keeps a second call from starting while the first one waits.    *)
(***************************************************************************)
decryptPendingSecretWithPassword(c) ==
  /\ UserActs /\ card
  /\ dec[c].pc = "idle"
  /\ IF ~pending
     THEN setViewerText("message", "") /\ UNCHANGED <<dec, raced>>
     ELSE /\ password # ""
          /\ setViewerText("receiving", "info")
          /\ dec' = [dec EXCEPT ![c] = [Idle EXCEPT !.pc = "import",
                                                    !.password = password]]
          /\ raced' = (raced \/ \E d \in Calls : dec[d].pc # "idle")
  /\ UNCHANGED <<fixedVars, server, recv, secretVars, card, password, pageVars,
                 got>>

passwordImported(c) ==
  /\ dec[c].pc = "import" /\ Settles
  /\ dec' = [dec EXCEPT ![c].pc = "derive", ![c].salt = (bytes = "good")]
  /\ UNCHANGED <<fixedVars, server, recv, secretVars, uiVars, pageVars,
                 historyVars>>

passwordKeyDerived(c) ==
  /\ dec[c].pc = "derive" /\ Settles
  /\ dec' = [dec EXCEPT ![c].pc = "decrypt", ![c].text = (bytes = "good")]
  /\ UNCHANGED <<fixedVars, server, recv, secretVars, uiVars, pageVars,
                 historyVars>>

Opens(c) == dec[c].password = "right" /\ dec[c].salt /\ dec[c].text

opened(c) ==
  /\ dec[c].pc = "decrypt" /\ Settles /\ Opens(c)
  /\ setViewerText("secret", "")
  /\ setDecryptionCardVisible(FALSE)
  /\ clearPendingSecret
  /\ dec' = [dec EXCEPT ![c] = Idle]
  /\ UNCHANGED <<fixedVars, server, recv, keyBytes, pageVars, historyVars>>

(* Variant: the finally clause does not ask whether it was decrypted. *)
AfterFailure_Clears == clearPendingSecret

AfterFailure == UNCHANGED <<pending, bytes>>

notOpened(c) ==
  /\ dec[c].pc = "decrypt" /\ Settles /\ ~Opens(c)
  /\ setViewerText("wrong_password", "error")
  /\ AfterFailure
  /\ dec' = [dec EXCEPT ![c] = Idle]
  /\ UNCHANGED <<fixedVars, server, recv, keyBytes, card, password, pageVars,
                 historyVars>>

-----------------------------------------------------------------------------
(* The browser and the user. *)
typePassword ==
  /\ UserActs /\ card
  /\ password' \in {"right", "wrong"}
  /\ UNCHANGED <<fixedVars, server, recv, secretVars, view, tone, card, dec,
                 pageVars, historyVars>>

animationFrame ==
  /\ frame /\ page = "shown" /\ recv # "init"
  /\ scrubSensitiveUi
  /\ frame' = FALSE
  /\ UNCHANGED <<fixedVars, server, recv, keyBytes, dec, page, left,
                 historyVars>>

pagehide ==
  /\ page = "shown" /\ recv # "init"
  /\ scrubSensitiveUi
  /\ page' = "cached" /\ left' = TRUE
  /\ UNCHANGED <<fixedVars, server, recv, keyBytes, dec, frame, historyVars>>

pageshow ==
  /\ page = "cached"
  /\ page' = "shown" /\ frame' = TRUE
  /\ UNCHANGED <<fixedVars, server, recv, secretVars, uiVars, dec, left,
                 historyVars>>

Receive == bodyRead \/ idDerived \/ keyImported \/ decrypted
Decrypt(c) ==
  passwordImported(c) \/ passwordKeyDerived(c) \/ opened(c) \/ notOpened(c)

Next ==
  \/ tryToReceiveSecret \/ fetched \/ Receive
  \/ \E c \in Calls : decryptPendingSecretWithPassword(c) \/ Decrypt(c)
  \/ typePassword \/ animationFrame \/ pagehide \/ pageshow

Spec == Init /\ [][Next]_vars

(***************************************************************************)
(* WebCrypto answers and frames are painted while the page is shown; of    *)
(* the network and of the user nothing is assumed.                         *)
(***************************************************************************)
Fairness ==
  /\ WF_vars(animationFrame) /\ WF_vars(idDerived)
  /\ WF_vars(keyImported) /\ WF_vars(decrypted)
  /\ \A c \in Calls : WF_vars(Decrypt(c))

-----------------------------------------------------------------------------
TypeOK ==
  /\ link \in {"good", "malformed", "none"}
  /\ blob \in {"text", "password", "short", "foreign", "corrupt", "odd"}
  /\ server \in {"held", "gone"}
  /\ recv \in {"init", "fetch", "body", "derive", "import", "decrypt", "done"}
  /\ keyBytes \in {"none", "live", "zero"}
  /\ pending \in BOOLEAN /\ bytes \in {"none", "good", "zero"}
  /\ view \in {"message", "receiving", "empty", "secret", "wrong_password"}
  /\ tone \in {"", "info", "error"}
  /\ card \in BOOLEAN /\ password \in {"", "right", "wrong"}
  /\ dec \in [Calls -> [pc : {"idle", "import", "derive", "decrypt"},
                        password : {"", "right", "wrong"},
                        salt : BOOLEAN, text : BOOLEAN]]
  /\ frame \in BOOLEAN /\ page \in {"shown", "cached"}
  /\ left \in BOOLEAN /\ got \in BOOLEAN /\ raced \in BOOLEAN

(* The password dialogue is open exactly while there is a secret to open,   *)
(* with its bytes intact, so the user is never asked for a password that    *)
(* cannot work, nor left with a secret and no way to enter it.              *)
CardForPending == (card <=> pending) /\ (pending <=> bytes = "good")

(* A page put away holds no secret: not in the text, whatever was shown     *)
(* before, nor pending, nor a password, nor key bytes of a finished call.   *)
NothingLeftBehind ==
  page = "cached" =>
    /\ view # "secret" /\ password = ""
    /\ ~pending /\ bytes # "good"
    /\ recv = "done" => keyBytes # "live"

(* translations.tr, og_description_receive: "Open the link to read it."     *)
(* Once a good secret is here and the daemon's copy is gone, it is shown or *)
(* can be opened for as long as the user stays.                             *)
SecretKept ==
  got /\ ~left => view = "secret" \/ (pending /\ bytes = "good")

(* So it is when the frame that scrubs the page comes before the secret,    *)
(* and one password is tried at a time: the secret survives any number of   *)
(* wrong passwords.                                                         *)
SecretKeptInOrder == ~raced => SecretKept

(* translations.tr, wrong_password: "Check it and try again."  There is     *)
(* something to try again on.                                               *)
TryAgain == view = "wrong_password" /\ ~left => pending

(* What makes NothingLeftBehind inductive: the scrubbing passes over a text *)
(* with a tone, so the secret must never have one.                          *)
SecretHasNoTone == view = "secret" => tone = ""
KeysCleared == recv = "done" => keyBytes # "live"

(* "Receiving secret..." is not shown for ever, except while waiting for    *)
(* the network or when the page has been left.                              *)
AnswersUser ==
  (view = "receiving" /\ recv \notin {"fetch", "body"}) ~>
    (view # "receiving" \/ page = "cached")
=============================================================================
