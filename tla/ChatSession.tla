---------------------------- MODULE ChatSession ----------------------------
(***************************************************************************)
(* One browser posting to the chat: wallet sign-in by a signed challenge,  *)
(* the session kept by the browser, and the edge functions that issue      *)
(* challenges, mint sessions and store messages.  A click on Send runs as  *)
(* an asynchronous task; clicks overlap, the wallet may be switched and    *)
(* sessions revoked between any two of its steps, and a request goes on at *)
(* the server after the browser has given up waiting.                      *)
(***************************************************************************)
EXTENDS Naturals, Sequences, FiniteSets

CONSTANTS
    Wallets,
    NoWallet,
    Clicks,           \* presses of Send
    MaxChallenges,    \* bound: challenges issued
    MaxFaults         \* bound: wallet switches, bans, epoch rotations and expiries

VARIABLES
    account,      \* host.getAccount()
    lastAccount,  \* account syncAccount last saw
    session,      \* the stored session: number of its challenge, 0 when none
    task,         \* task[c]: the browser's side of click c
    req,          \* req[c]: the chat-send request of click c at the server
    challenges,   \* auth_nonces
    expired,      \* challenges whose session token is past its expiry
    epoch,        \* chat_security_state.session_epoch
    banned,       \* wallets with profiles.banned
    feed,         \* rows stored in chat_feed
    faults

vars == <<account, lastAccount, session, task, req, challenges, expired, epoch, banned, feed, faults>>
server == <<challenges, expired, epoch, banned, feed, req>>
browser == <<account, lastAccount, session, task>>

Wallet(ch) == challenges[ch].wallet

Init ==
    /\ account \in Wallets /\ lastAccount = account /\ session = 0
    /\ task = [c \in Clicks |-> [pc |-> "idle", wallet |-> NoWallet, ch |-> 0, retried |-> FALSE]]
    /\ req = [c \in Clicks |-> [pc |-> "none", ch |-> 0, status |-> 0]]
    /\ challenges = <<>> /\ expired = {} /\ epoch = 0 /\ banned = {}
    /\ feed = <<>> /\ faults = 0

-----------------------------------------------------------------------------
(* The browser: session.js and sendChatMessage of chat.js.                 *)

\* The stored session serves the connected wallet only, while it is not expired.
ReusableByAnyone(wallet, stored) == stored # 0 /\ stored \notin expired
Reusable(wallet, stored) == stored # 0 /\ Wallet(stored) = wallet /\ stored \notin expired

\* The synchronous part of ensureSession in click c, with stored the session it
\* reads: it goes on with that session, starts a sign-in, or refuses.
ensureSession(c, stored, retried) ==
    IF Reusable(account, stored)
    THEN task' = [task EXCEPT ![c] = [pc |-> "fetch", wallet |-> account, ch |-> stored, retried |-> retried]]
    ELSE IF account = NoWallet
    THEN task' = [task EXCEPT ![c].pc = "failed"]
    ELSE task' = [task EXCEPT ![c] = [pc |-> "nonce", wallet |-> account, ch |-> 0, retried |-> retried]]

sendChatMessage(c) ==
    /\ task[c].pc = "idle"
    /\ account # NoWallet
    /\ ensureSession(c, session, FALSE)
    /\ UNCHANGED <<account, lastAccount, session, faults, server>>

\* A refused or unreachable request, a rejected prompt or a timeout ends the
\* click; the composer gets its text back.  The request goes on at the server.
restore(c) ==
    /\ task[c].pc \in {"nonce", "challenge", "sign", "verify", "consumed", "answer"}
    /\ task' = [task EXCEPT ![c].pc = "failed"]
    /\ UNCHANGED <<account, lastAccount, session, faults, server>>

\* solana-nonce reads the epoch first and stores the challenge after it.
readEpoch(c) ==
    /\ task[c].pc = "nonce" /\ task' = [task EXCEPT ![c].pc = "challenge", ![c].ch = epoch]
    /\ UNCHANGED <<account, lastAccount, session, faults, server>>
solanaNonce(c) ==
    /\ task[c].pc = "challenge" /\ Len(challenges) < MaxChallenges
    /\ challenges' = Append(challenges, [wallet |-> task[c].wallet, epoch |-> task[c].ch, used |-> FALSE,
                                         signed |-> FALSE, minted |-> 0])
    /\ task' = [task EXCEPT ![c].pc = "sign", ![c].ch = Len(challenges) + 1]
    /\ UNCHANGED <<account, lastAccount, session, faults, expired, epoch, banned, feed, req>>

\* The wallet that was connected when the sign-in began signs the challenge.
signMessage(c) ==
    /\ task[c].pc = "sign"
    /\ task' = [task EXCEPT ![c].pc = "verify"]
    /\ challenges' = [challenges EXCEPT ![task[c].ch].signed = TRUE]
    /\ UNCHANGED <<account, lastAccount, session, faults, expired, epoch, banned, feed, req>>

\* consume_solana_nonce: the row is taken if it is unused and of this epoch.
Consumable(ch) == ~challenges[ch].used /\ challenges[ch].epoch = epoch
solanaVerify(c) ==
    /\ task[c].pc = "verify" /\ challenges[task[c].ch].signed
    /\ IF Consumable(task[c].ch)
       THEN /\ challenges' = [challenges EXCEPT ![task[c].ch].used = TRUE]
            /\ task' = [task EXCEPT ![c].pc = "consumed"]
       ELSE /\ task' = [task EXCEPT ![c].pc = "failed"] /\ UNCHANGED challenges
    /\ UNCHANGED <<account, lastAccount, session, faults, expired, epoch, banned, feed, req>>

\* is_chat_session_current: the token's epoch is current, its wallet not banned.
isChatSessionCurrent(ch) == challenges[ch].epoch = epoch /\ Wallet(ch) \notin banned

\* signSession, and saveSession when the answer reaches the browser.
saveSession(c) ==
    /\ task[c].pc = "consumed"
    /\ IF isChatSessionCurrent(task[c].ch)
       THEN /\ challenges' = [challenges EXCEPT ![task[c].ch].minted = @ + 1]
            /\ session' = task[c].ch
            /\ task' = [task EXCEPT ![c].pc = "fetch"]
       ELSE task' = [task EXCEPT ![c].pc = "failed"] /\ UNCHANGED <<challenges, session>>
    /\ UNCHANGED <<account, lastAccount, faults, expired, epoch, banned, feed, req>>

\* authedFetchJson posts with the token it was given.
fetchJson(c) ==
    /\ task[c].pc = "fetch"
    /\ task' = [task EXCEPT ![c].pc = "answer"]
    /\ req' = [req EXCEPT ![c] = [pc |-> "auth", ch |-> task[c].ch, status |-> 0]]
    /\ UNCHANGED <<account, lastAccount, session, faults, challenges, expired, epoch, banned, feed>>

\* A request that is repeated with the same session after any error.
RepeatAfterError(c) ==
    /\ task[c].pc = "answer" /\ req[c].pc = "done"
    /\ req' = [req EXCEPT ![c].pc = "none"]
    /\ task' = [task EXCEPT ![c].retried = TRUE,
                            ![c].pc = IF req[c].status = 200 THEN "sent"
                                      ELSE IF task[c].retried THEN "failed" ELSE "fetch"]
    /\ UNCHANGED <<session, account, lastAccount, faults, challenges, expired, epoch, banned, feed>>

\* Only a 401 of the first attempt is retried, with a new session (force).
Retried(status, retried) == status = 401 /\ ~retried
receive(c) ==
    /\ task[c].pc = "answer" /\ req[c].pc = "done"
    /\ req' = [req EXCEPT ![c].pc = "none"]
    /\ IF Retried(req[c].status, task[c].retried)
       THEN session' = 0 /\ ensureSession(c, 0, TRUE)
       ELSE /\ task' = [task EXCEPT ![c].pc = IF req[c].status = 200 THEN "sent" ELSE "failed"]
            /\ UNCHANGED session
    /\ UNCHANGED <<account, lastAccount, faults, challenges, expired, epoch, banned, feed>>

\* syncAccount: the session is dropped on a disconnect, or when it is not the
\* new account's.
syncAccount ==
    /\ account # lastAccount /\ lastAccount' = account
    /\ session' = IF session # 0 /\ (account = NoWallet \/ Wallet(session) # account) THEN 0 ELSE session
    /\ UNCHANGED <<account, task, faults, server>>

-----------------------------------------------------------------------------
(* The edge function chat-send, one request per click and attempt.         *)

Step(c, pc, status) == req' = [req EXCEPT ![c].pc = pc, ![c].status = status]

\* requireSession: token authentic and unexpired, epoch current, wallet not banned.
requireSession(c) ==
    /\ req[c].pc = "auth"
    /\ IF req[c].ch \notin expired /\ isChatSessionCurrent(req[c].ch)
       THEN Step(c, "gate", 0) ELSE Step(c, "done", 401)
    /\ UNCHANGED <<browser, challenges, expired, epoch, banned, feed, faults>>

\* rateLimitGuard (429, 503), the balance gate (403, 500) and failing database
\* calls (500) refuse the message before it is stored.
refuse(c) ==
    /\ req[c].pc \in {"gate", "insert"} /\ Step(c, "done", 500)
    /\ UNCHANGED <<browser, challenges, expired, epoch, banned, feed, faults>>

readProfile(c) ==
    /\ req[c].pc = "gate"
    /\ IF Wallet(req[c].ch) \in banned THEN Step(c, "done", 403) ELSE Step(c, "insert", 0)
    /\ UNCHANGED <<browser, challenges, expired, epoch, banned, feed, faults>>

\* The row is stored; a broadcast that fails afterwards answers with an error.
insertMessage(c) ==
    /\ req[c].pc = "insert"
    /\ feed' = Append(feed, [click |-> c, wallet |-> Wallet(req[c].ch), ch |-> req[c].ch])
    /\ \E status \in {200, 500} : Step(c, "done", status)
    /\ UNCHANGED <<browser, challenges, expired, epoch, banned, faults>>

-----------------------------------------------------------------------------
(* The user and the operators.                                             *)

Fault == faults < MaxFaults /\ faults' = faults + 1

switchWallet ==
    /\ Fault /\ account' \in (Wallets \cup {NoWallet}) \ {account}
    /\ UNCHANGED <<lastAccount, session, task, server>>
ban ==
    /\ Fault /\ \E w \in Wallets \ banned : banned' = banned \cup {w}
    /\ UNCHANGED <<browser, challenges, expired, epoch, feed, req>>
rotateEpoch ==
    /\ Fault /\ epoch' = epoch + 1
    /\ UNCHANGED <<browser, challenges, expired, banned, feed, req>>
expireSession ==
    /\ Fault /\ \E ch \in DOMAIN challenges \ expired : challenges[ch].minted > 0 /\ expired' = expired \cup {ch}
    /\ UNCHANGED <<browser, challenges, epoch, banned, feed, req>>

Next ==
    \/ \E c \in Clicks :
        \/ sendChatMessage(c) \/ restore(c) \/ readEpoch(c) \/ solanaNonce(c) \/ signMessage(c)
        \/ solanaVerify(c) \/ saveSession(c) \/ fetchJson(c) \/ receive(c)
        \/ requireSession(c) \/ refuse(c) \/ readProfile(c) \/ insertMessage(c)
    \/ syncAccount \/ switchWallet \/ ban \/ rotateEpoch \/ expireSession

Spec == Init /\ [][Next]_vars

-----------------------------------------------------------------------------
(* One press of Send stores at most one message, whatever the retry after  *)
(* a refused session, the timeouts and the server errors in between: the   *)
(* composer's text comes back only with a press of its own.                *)
SentOnce ==
    \A c \in Clicks : Cardinality({i \in DOMAIN feed : feed[i].click = c}) <= 1

(* A message is stored under the wallet that was connected when the press, *)
(* or its retry, asked for a session, and that wallet signed the challenge *)
(* the session came from: a sign-in finished after the user had switched   *)
(* wallets leaves a session the next press must not use.                   *)
PostedAsConnected ==
    \A i \in DOMAIN feed :
        /\ feed[i].wallet = task[feed[i].click].wallet
        /\ challenges[feed[i].ch].signed /\ challenges[feed[i].ch].minted = 1
=============================================================================
