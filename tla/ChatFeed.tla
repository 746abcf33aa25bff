------------------------------ MODULE ChatFeed ------------------------------
(***************************************************************************)
(* The chat pane of one browser.  A message reaches it three ways: in the  *)
(* answer to the browser's own post, in the broadcast of the edge function *)
(* and in the history query of a page load; deletions reach it in the      *)
(* answer to an administrator's request and by broadcast.  Answers,        *)
(* broadcasts and the history snapshot arrive in any order, broadcasts may *)
(* be lost while the socket reconnects.                                    *)
(***************************************************************************)
EXTENDS Naturals, Sequences, SequencesExt, FiniteSets

CONSTANTS
    HISTORY_LIMIT,   \* newest messages kept in the pane
    MaxMessages      \* bound: rows inserted

VARIABLES
    stored,     \* ids in chat_feed
    lastId,
    wire,       \* broadcasts on their way to this browser
    answers,    \* answers of this browser's own requests on their way
    loading,    \* loadChatHistory: "none", "query" on its way, "done"
    history,    \* the rows its query took
    view,       \* the rows of .chat-messages, top to bottom
    seen        \* seenChatIds and the keys of messageIndex

vars == <<stored, lastId, wire, answers, loading, history, view, seen>>

Event(kind, id) == [kind |-> kind, id |-> id]

Init ==
    /\ stored = {} /\ lastId = 0 /\ wire = {} /\ answers = {}
    /\ loading = "none" /\ history = <<>> /\ view = <<>> /\ seen = {}

-----------------------------------------------------------------------------
(* What the pane does with a row.                                          *)

\* Drops the oldest rows, and forgets their ids.
TrimKeepsIds(p) ==
    [p EXCEPT !.view = SubSeq(@, Max({Len(@) - HISTORY_LIMIT, 0}) + 1, Len(@))]
trimChatToLimit(p) ==
    LET overflow == Len(p.view) - HISTORY_LIMIT
    IN  IF overflow <= 0 THEN p
        ELSE [view |-> SubSeq(p.view, overflow + 1, Len(p.view)),
              seen |-> p.seen \ {p.view[i] : i \in 1..overflow}]

\* A row already shown is ignored.
appendChatMessage(p, id) ==
    IF id \in p.seen THEN p
    ELSE trimChatToLimit([view |-> Append(p.view, id), seen |-> p.seen \cup {id}])

removeChatMessageLocal(p, id) ==
    [view |-> SelectSeq(p.view, LAMBDA x : x # id), seen |-> p.seen \ {id}]

Pane == [view |-> view, seen |-> seen]
Show(p) == view' = p.view /\ seen' = p.seen
Apply(p, e) == IF e.kind = "message" THEN appendChatMessage(p, e.id) ELSE removeChatMessageLocal(p, e.id)

-----------------------------------------------------------------------------

\* chat-send stores the row, broadcasts it and answers the sender; mine says
\* whether this browser sent it.
chatSend(mine) ==
    /\ lastId < MaxMessages
    /\ lastId' = lastId + 1 /\ stored' = stored \cup {lastId + 1}
    /\ wire' = wire \cup {Event("message", lastId + 1)}
    /\ answers' = IF mine THEN answers \cup {Event("message", lastId + 1)} ELSE answers
    /\ UNCHANGED <<loading, history, view, seen>>

\* chat-delete removes the row, broadcasts that and answers the administrator.
chatDelete(mine) ==
    /\ \E id \in stored :
        /\ stored' = stored \ {id}
        /\ wire' = wire \cup {Event("message_delete", id)}
        /\ answers' = IF mine THEN answers \cup {Event("message_delete", id)} ELSE answers
    /\ UNCHANGED <<lastId, loading, history, view, seen>>

\* The answer to sendChatMessage or deleteChatMessage, or its timeout.
answer ==
    /\ \E e \in answers :
        /\ answers' = answers \ {e}
        /\ Show(Pane) \/ Show(Apply(Pane, e))
    /\ UNCHANGED <<stored, lastId, wire, loading, history>>

\* The handlers of wireChatRealtime; the socket echoes the browser's own posts.
deliver ==
    /\ \E e \in wire : wire' = wire \ {e} /\ Show(Apply(Pane, e))
    /\ UNCHANGED <<stored, lastId, answers, loading, history>>

\* Broadcasts sent while the channel is down are not sent again, and the
\* reconnect reads no history.
reconnect ==
    /\ wire # {} /\ wire' = {}
    /\ UNCHANGED <<stored, lastId, answers, loading, history, view, seen>>

\* loadChatHistory: the query takes the newest rows, ...
queryHistory ==
    /\ loading = "none" /\ loading' = "query"
    /\ history' = LET rows == SetToSortSeq(stored, <)
                  IN  SubSeq(rows, Len(rows) - (IF Len(rows) < HISTORY_LIMIT THEN Len(rows) ELSE HISTORY_LIMIT) + 1,
                             Len(rows))
    /\ UNCHANGED <<stored, lastId, wire, answers, view, seen>>

\* ... and its answer empties the pane and shows them, oldest first.
renderHistory ==
    /\ loading = "query" /\ loading' = "done" /\ history' = <<>>
    /\ Show(FoldLeft(appendChatMessage, [view |-> <<>>, seen |-> {}], history))
    /\ UNCHANGED <<stored, lastId, wire, answers>>

Next ==
    \/ \E mine \in BOOLEAN : chatSend(mine) \/ chatDelete(mine)
    \/ answer \/ deliver \/ reconnect \/ queryHistory \/ renderHistory

Spec == Init /\ [][Next]_vars

-----------------------------------------------------------------------------
(* No message is shown twice, whatever the order of its answer, its echo   *)
(* and the history snapshot, and the pane remembers exactly what it shows: *)
(* an id remembered without its row would keep the message from ever being *)
(* shown again, a row without its id could be neither deleted nor deduped. *)
ShownOnce ==
    /\ Cardinality(ToSet(view)) = Len(view)
    /\ seen = ToSet(view)
=============================================================================
