----------------------------- MODULE ClientSend -----------------------------
(***************************************************************************)
(* The sending page, client-send.js with the locking, the link and the     *)
(* scrubbing of client-shared.js.  An action is what happens between two   *)
(* awaits that let others see or change the page; awaits of WebCrypto that *)
(* follow each other are one.  Locking and unlocking dispatch an input     *)
(* event, whose handler runs in the middle of sendSecret: there the code   *)
(* before, the handler and the code after are steps of their own, between  *)
(* which nothing else runs.                                                *)
(*                                                                         *)
(* sendSecret is started by the button, or by Ctrl+Enter in the text or in *)
(* the password field.  A locked text area still takes keys, so nothing    *)
(* keeps a second call from starting while the first one waits; each has   *)
(* its own arrays, but they share the fields, the lock and the link.       *)
(***************************************************************************)
EXTENDS FiniteSets

CONSTANTS
  Sends,      \* bound: overlapping calls of sendSecret
  Texts,      \* what the user may type
  TooLarge,   \* the texts whose blob is larger than BLOB_SIZE_MAX - 100
  Passwords   \* what the user may type as a password

VARIABLES
  origin,            \* whether getOrigin accepts where the page comes from
  text,              \* the text area
  optionalPassword,  \* the password field
  readonly,          \* the text area is locked
  originalReadonly,  \* state.originalReadonly
  disabled,          \* the buttons and the password field are
  suppressGeneratedStateReset,
  generated,         \* state.link: what the link leads to
  label,             \* the class of the button
  clipboard,         \* what the page last put there
  sends,             \* the calls of sendSecret
  tick,              \* scrubSoon has asked for an animation frame
  window,            \* shown, or in the back/forward cache
  away,              \* history: the page was left
  overlapped,        \* history: two calls were under way at once
  accepted           \* history: what the daemon last accepted, until an edit,
                     \* another call or a scrubbing

fieldVars == <<text, optionalPassword>>
lockVars == <<readonly, originalReadonly, disabled>>
linkVars == <<generated, label>>
pastVars == <<overlapped, accepted>>
windowVars == <<origin, tick, window, away>>
sendVars == <<fieldVars, lockVars, suppressGeneratedStateReset, linkVars,
              clipboard, sends, windowVars, pastVars>>

NoSend == [pc |-> "idle", text |-> "", password |-> ""]
NoLink == [text |-> "", password |-> ""]
Contents(c) == [text |-> sends[c].text, password |-> sends[c].password]

SendInit ==
  /\ origin \in {"https", "refused"}
  /\ text = "" /\ optionalPassword = ""
  /\ readonly = FALSE /\ originalReadonly = "null" /\ disabled = FALSE
  /\ suppressGeneratedStateReset = FALSE
  /\ generated = NoLink /\ label = "" /\ clipboard = NoLink
  /\ sends = [c \in Sends |-> NoSend]
  /\ tick = TRUE /\ window = "shown" /\ away = FALSE
  /\ overlapped = FALSE /\ accepted = NoLink

(* Where sendSecret is between two awaits; nothing else runs meanwhile. *)
Synchronous == {"locked", "begin", "finally", "unlocked", "restore"}
Free == \A c \in Sends : sends[c].pc \notin Synchronous

Runs == window = "shown" /\ Free
Acts == window = "shown" /\ Free /\ ~tick

-----------------------------------------------------------------------------
(* The handler of the input event of the text and of the password. *)
clearGeneratedState ==
  IF suppressGeneratedStateReset THEN UNCHANGED linkVars
  ELSE generated' = NoLink /\ label' = ""

(* Variant: what the text area was before is asked every time. *)
lockTextarea_AsksAgain(lock) ==
  /\ originalReadonly' =
       IF lock THEN (IF readonly THEN "yes" ELSE "no") ELSE originalReadonly
  /\ readonly' = (lock \/ originalReadonly' = "yes")

(* What the text area was before is only asked the first time.  The input   *)
(* event that lockTextarea dispatches is inputEvent.                        *)
lockTextarea(lock) ==
  /\ originalReadonly' =
       IF originalReadonly # "null" THEN originalReadonly
       ELSE IF readonly THEN "yes" ELSE "no"
  /\ readonly' = (lock \/ originalReadonly' = "yes")

setInputsDisabled(d) == disabled' = d

Ends(c) == sends' = [sends EXCEPT ![c] = NoSend]
Goes(c, pc) == sends' = [sends EXCEPT ![c].pc = pc]

-----------------------------------------------------------------------------
(* The text area is locked, ... *)
sendSecret(c) ==
  /\ Acts /\ sends[c].pc = "idle"
  /\ lockTextarea(TRUE)
  /\ Goes(c, "locked")
  /\ overlapped' = (overlapped \/ \E e \in Sends : sends[e].pc # "idle")
  /\ accepted' = NoLink
  /\ UNCHANGED <<fieldVars, disabled, suppressGeneratedStateReset, linkVars,
                 clipboard, windowVars>>

(* ... and its input event handled, as it is when it is unlocked; ... *)
inputEvent(c) ==
  /\ \/ sends[c].pc = "locked" /\ Goes(c, "begin")
     \/ sends[c].pc = "unlocked" /\ Goes(c, "restore")
  /\ clearGeneratedState
  /\ UNCHANGED <<fieldVars, lockVars, suppressGeneratedStateReset, clipboard,
                 windowVars, pastVars>>

(* ... without an https origin, or a text, there is only a message.  *)
begin(c) ==
  /\ sends[c].pc = "begin"
  /\ setInputsDisabled(TRUE)
  /\ IF origin = "refused" \/ text = ""
     THEN label' = "" /\ Goes(c, "finally")
     ELSE /\ label' = "busy"
          /\ sends' = [sends EXCEPT ![c] =
               [pc |-> "id", text |-> text, password |-> optionalPassword]]
  /\ UNCHANGED <<fieldVars, readonly, originalReadonly,
                 suppressGeneratedStateReset, generated, clipboard, windowVars,
                 pastVars>>

(* The identifier is derived; with a password the text is encrypted twice. *)
idReady(c) ==
  /\ Runs /\ sends[c].pc = "id"
  /\ Goes(c, IF sends[c].password # "" THEN "wrap" ELSE "encrypt")
  /\ UNCHANGED <<fieldVars, lockVars, suppressGeneratedStateReset, linkVars,
                 clipboard, windowVars, pastVars>>

wrapped(c) ==
  /\ Runs /\ sends[c].pc = "wrap"
  /\ Goes(c, "encrypt")
  /\ UNCHANGED <<fieldVars, lockVars, suppressGeneratedStateReset, linkVars,
                 clipboard, windowVars, pastVars>>

encrypted(c) ==
  /\ Runs /\ sends[c].pc = "encrypt"
  /\ IF sends[c].text \in TooLarge
     THEN Goes(c, "finally") /\ label' = ""
     ELSE Goes(c, "post") /\ UNCHANGED label
  /\ UNCHANGED <<fieldVars, lockVars, suppressGeneratedStateReset, generated,
                 clipboard, windowVars, pastVars>>

(* The daemon has accepted the blob: the password is forgotten, and the     *)
(* link shown and given to the clipboard.                                   *)
posted(c) ==
  /\ Runs /\ sends[c].pc = "post"
  /\ Goes(c, "copy")
  /\ optionalPassword' = ""
  /\ generated' = Contents(c) /\ accepted' = Contents(c)
  /\ UNCHANGED <<text, lockVars, suppressGeneratedStateReset, label, clipboard,
                 windowVars, overlapped>>

(* The daemon refuses, and the reason is read; *)
refused(c) ==
  /\ Runs /\ sends[c].pc = "post"
  /\ Goes(c, "reason")
  /\ UNCHANGED <<fieldVars, lockVars, suppressGeneratedStateReset, linkVars,
                 clipboard, windowVars, pastVars>>

(* it is reported, as is a network that fails or WebCrypto doing so. *)
sendFails(c) ==
  /\ Runs /\ sends[c].pc \in {"id", "wrap", "encrypt", "post", "reason"}
  /\ Goes(c, "finally") /\ label' = ""
  /\ UNCHANGED <<fieldVars, lockVars, suppressGeneratedStateReset, generated,
                 clipboard, windowVars, pastVars>>

(* The browser lets the page write to the clipboard, or does not. *)
copied(c) ==
  /\ Runs /\ sends[c].pc = "copy"
  /\ Goes(c, "finally")
  /\ \/ clipboard' = Contents(c) /\ label' = "success"
     \/ UNCHANGED clipboard /\ label' = "ready"
  /\ UNCHANGED <<fieldVars, lockVars, suppressGeneratedStateReset, generated,
                 windowVars, pastVars>>

(* Variant: the flag is only set when the text area has been unlocked. *)
unlock_LateFlag(c) ==
  /\ sends[c].pc = "finally"
  /\ lockTextarea(FALSE)
  /\ Goes(c, "unlocked")
  /\ UNCHANGED <<fieldVars, disabled, suppressGeneratedStateReset, linkVars,
                 clipboard, windowVars, pastVars>>

(* The finally clause: the arrays are cleared and the text area unlocked    *)
(* under the flag, which is dropped after the event.                        *)
unlock(c) ==
  /\ sends[c].pc = "finally"
  /\ suppressGeneratedStateReset' = TRUE
  /\ lockTextarea(FALSE)
  /\ Goes(c, "unlocked")
  /\ UNCHANGED <<fieldVars, disabled, linkVars, clipboard, windowVars,
                 pastVars>>

(* Variant: the flag is not dropped. *)
restore_KeepsFlag(c) ==
  /\ sends[c].pc = "restore"
  /\ setInputsDisabled(FALSE)
  /\ Ends(c)
  /\ UNCHANGED <<fieldVars, readonly, originalReadonly,
                 suppressGeneratedStateReset, linkVars, clipboard, windowVars,
                 pastVars>>

(* The flag is dropped and the buttons come back: the call has ended. *)
restore(c) ==
  /\ sends[c].pc = "restore"
  /\ suppressGeneratedStateReset' = FALSE
  /\ setInputsDisabled(FALSE)
  /\ Ends(c)
  /\ UNCHANGED <<fieldVars, readonly, originalReadonly, linkVars, clipboard,
                 windowVars, pastVars>>

-----------------------------------------------------------------------------
(* The user and the browser. *)
typeText ==
  /\ Acts /\ ~readonly
  /\ text' \in (Texts \cup {""}) \ {text}
  /\ clearGeneratedState
  /\ accepted' = NoLink
  /\ UNCHANGED <<optionalPassword, lockVars, suppressGeneratedStateReset,
                 clipboard, sends, windowVars, overlapped>>

typeOptionalPassword ==
  /\ Acts /\ ~disabled
  /\ optionalPassword' \in (Passwords \cup {""}) \ {optionalPassword}
  /\ clearGeneratedState
  /\ accepted' = NoLink
  /\ UNCHANGED <<text, lockVars, suppressGeneratedStateReset, clipboard, sends,
                 windowVars, overlapped>>

(* copyLink: the buttons beside the link. *)
copyLink ==
  /\ Acts /\ ~disabled /\ generated # NoLink
  /\ clipboard' = generated
  /\ UNCHANGED <<fieldVars, lockVars, suppressGeneratedStateReset, linkVars,
                 sends, windowVars, pastVars>>

(* scrubSensitiveUi: a field that is emptied fires its input event; the     *)
(* link goes in any case.                                                   *)
Scrub ==
  /\ text' = "" /\ optionalPassword' = ""
  /\ generated' = NoLink
  /\ label' = IF \/ suppressGeneratedStateReset
                 \/ text = "" /\ optionalPassword = ""
              THEN label ELSE ""
  /\ accepted' = NoLink
  /\ UNCHANGED <<lockVars, suppressGeneratedStateReset, clipboard, sends,
                 overlapped>>

nextFrame ==
  /\ Runs /\ tick
  /\ Scrub
  /\ tick' = FALSE
  /\ UNCHANGED <<origin, window, away>>

hidden ==
  /\ Runs
  /\ Scrub
  /\ window' = "cached" /\ away' = TRUE
  /\ UNCHANGED <<origin, tick>>

shownAgain ==
  /\ window = "cached"
  /\ window' = "shown" /\ tick' = TRUE
  /\ UNCHANGED <<fieldVars, lockVars, suppressGeneratedStateReset, linkVars,
                 clipboard, sends, origin, away, pastVars>>

Send(c) ==
  inputEvent(c) \/ begin(c) \/ idReady(c) \/ wrapped(c) \/ encrypted(c)
    \/ posted(c) \/ refused(c) \/ sendFails(c) \/ copied(c) \/ unlock(c)
    \/ restore(c)

SendNext ==
  \/ \E c \in Sends : sendSecret(c) \/ Send(c)
  \/ typeText \/ typeOptionalPassword \/ copyLink
  \/ nextFrame \/ hidden \/ shownAgain

SendSpec == SendInit /\ [][SendNext]_sendVars

-----------------------------------------------------------------------------
Sending == \E c \in Sends : sends[c].pc # "idle"

(* A link shown leads to the text that is in the text area, and "Link       *)
(* copied!" (translations.tr, link_copied) is said of that link; as long as *)
(* the user does not start a second call during the first, which may then   *)
(* bring a link to a text that has been edited since, and does not leave.   *)
LinkIsForText ==
  ~overlapped /\ ~away =>
    /\ generated # NoLink => generated.text = text
    /\ label = "success" => generated # NoLink /\ clipboard = generated

(* However calls overlap, fail or end early, and whenever the page is put   *)
(* away, the page is only locked while a call is under way.                 *)
NeverStuck == readonly \/ disabled => Sending

(* A link the daemon has stored a secret for is the user's only way to it:  *)
(* it stays on the page until an edit, another call or leaving takes it     *)
(* away, through its own call's unlocking, which fires the event that takes *)
(* links away, and through the end of any other call; and a lone call ends  *)
(* with the button saying that there is a link.                             *)
ResultStays ==
  accepted # NoLink =>
    /\ generated = accepted
    /\ ~Sending /\ ~overlapped => label \in {"success", "ready"}
=============================================================================
