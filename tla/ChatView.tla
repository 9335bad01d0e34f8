------------------------------- MODULE ChatView -------------------------------
(***************************************************************************)
(* The two views of a chat: ChatPage, which is given one session after     *)
(* another, and WinXpChatWindow, which keeps its session.  Both keep a     *)
(* list of messages that four kinds of answers are merged into: the first  *)
(* page (loadFull), the latest few messages polled on a timer, an older    *)
(* page, and the messages that sending or regenerating created.            *)
(*                                                                         *)
(* A list request is answered as of the moment it is sent; its answer is   *)
(* delivered later, in any order.  Writes are served in between.  Message  *)
(* ids grow with createdAt, so sorting by createdAt is sorting by id.      *)
(***************************************************************************)
EXTENDS Naturals, Sequences, FiniteSets, Filters

CONSTANTS Sessions,     \* sessions a page is switched between
          PageSize,     \* PAGE_SIZE
          PollSize,     \* the limit of a poll
          MaxId,        \* bound on the messages created
          MaxSwitches,  \* bound on session switches
          MaxPolls,     \* bound on polls in flight, of each kind of view
          None

VARIABLES kind,         \* which view: "page" or "window"
          rows,         \* server: id -> message, or None
          nextId,       \* server: the next id
          dropped,      \* ids that regenerating took out of a view with nothing pending
          session,      \* the session in view
          messages,     \* the list in view
          hasMore, sending, stopping, regenerating, loadingMore,
          calls,        \* requests in flight
          switches

flags == <<sending, stopping, regenerating, loadingMore>>
vars == <<kind, rows, nextId, dropped, session, messages, hasMore, flags, calls, switches>>

Message == [id : 1..MaxId, of : Sessions, role : {"user", "assistant"},
            status : {"pending", "done"}]

ASSUME ViewAssumption ==
    /\ PageSize \in Nat \ {0} /\ PollSize \in Nat \ {0} /\ MaxId \in Nat
    /\ Sessions # {} /\ None \notin Sessions \cup Message

Ops == {"full", "poll", "more", "send", "stop", "regenerate"}

-----------------------------------------------------------------------------
(* Lists of messages. *)

\* Messages with different ids, in the order of their ids.
ById(set) ==
    LET ids == {m.id : m \in set}
    IN  [k \in 1..Cardinality(ids) |-> CHOOSE m \in set : m.id = Nth(ids, k)]

Stored(s) == {rows[i] : i \in {j \in 1..MaxId : rows[j] # None /\ rows[j].of = s}}

\* listMessages: the newest come first on the server and are returned oldest first.
Listed(s, limit, offset) ==
    LET all == ById(Stored(s))
        last == IF Len(all) > offset THEN Len(all) - offset ELSE 0
    IN  SubSeq(all, IF last > limit THEN last - limit + 1 ELSE 1, last)

Pending(list) == \E i \in DOMAIN list : list[i].status = "pending"

\* The Map by id of pollLatest and of loadMore: for an id in both lists, and for an id
\* that is twice in a list, the later one counts.
Merge(first, second) ==
    LET both == first \o second
        lasts == {i \in DOMAIN both : \A j \in DOMAIN both : j > i => both[j].id # both[i].id}
    IN  ById({both[i] : i \in lasts})

lastAssistantId ==
    LET is == {i \in DOMAIN messages : messages[i].role = "assistant"}
    IN  IF is = {} THEN None ELSE messages[CHOOSE i \in is : \A j \in is : j <= i].id

Ids(list) == {list[i].id : i \in DOMAIN list}

-----------------------------------------------------------------------------

\* at: lastAssistantId when the closure was made; live: of a poll, that its effect has not
\* been cleaned up; then: stop awaits this poll.
Request(op, s, list) ==
    [op |-> op, of |-> s, list |-> list, at |-> None, live |-> TRUE, then |-> FALSE,
     st |-> IF op \in {"full", "poll", "more"} THEN "ok" ELSE "sent"]

InFlight(op) == {c \in calls : c.op = op}

\* Mutant: the window's timer does not cancel the polls it sent.
Cleanup_None(list, cs) == cs

\* WinXpChatWindow polls from an effect on hasPending that cancels its polls; the polls
\* of ChatPage are never cancelled.
Cleanup(list, cs) ==
    IF kind = "window" /\ Pending(list) # Pending(messages)
    THEN {[c EXCEPT !.live = c.live /\ c.op # "poll"] : c \in cs} ELSE cs

Show(list, cs) == messages' = list /\ calls' = Cleanup(list, cs)

Init ==
    /\ kind \in {"page", "window"}
    /\ rows \in {[i \in 1..MaxId |-> None],
                 [i \in 1..MaxId |->
                    IF i > 2 THEN None ELSE
                    [id |-> i, of |-> CHOOSE s \in Sessions : TRUE,
                     role |-> IF i = 1 THEN "user" ELSE "assistant", status |-> "done"]]}
    /\ nextId = IF rows[1] = None THEN 1 ELSE 3
    /\ dropped = {}
    /\ session = CHOOSE s \in Sessions : TRUE
    /\ messages = <<>> /\ hasMore = FALSE
    /\ sending = FALSE /\ stopping = FALSE /\ regenerating = FALSE /\ loadingMore = FALSE
    /\ calls = {Request("full", session, Listed(session, PageSize, 0))}
    /\ switches = 0

\* The effect on sessionId: the list starts over, the flags stay, and nothing recalls
\* what is in flight.
SwitchSession(s) ==
    /\ kind = "page" /\ s # session
    /\ switches < MaxSwitches /\ switches' = switches + 1
    /\ session' = s
    /\ messages' = <<>> /\ hasMore' = FALSE
    /\ calls' = calls \cup {Request("full", s, Listed(s, PageSize, 0))}
    /\ UNCHANGED <<kind, rows, nextId, dropped, flags>>

\* The timer of pollLatest or tick.
Poll ==
    /\ Cardinality(InFlight("poll")) < MaxPolls[kind]
    /\ calls' = calls \cup {Request("poll", session, Listed(session, PollSize, 0))}
    /\ UNCHANGED <<kind, rows, nextId, dropped, session, messages, hasMore, flags, switches>>

loadMoreMessages ==
    /\ ~loadingMore /\ hasMore /\ messages # <<>>
    /\ loadingMore' = TRUE
    /\ calls' = calls \cup {Request("more", session, Listed(session, PageSize, Len(messages)))}
    /\ UNCHANGED <<kind, rows, nextId, dropped, session, messages, hasMore, sending, stopping,
                   regenerating, switches>>

\* The composer of the page is disabled while an answer is pending, the text field of
\* the window is not: Enter sends.
ComposerOpen == ~sending /\ (kind = "page" => ~Pending(messages))

\* The actions under the last answer.
CanRegenerate == ~regenerating /\ ~Pending(messages) /\ lastAssistantId # None

send ==
    /\ ComposerOpen
    /\ sending' = TRUE
    /\ calls' = calls \cup {Request("send", session, <<>>)}
    /\ UNCHANGED <<kind, rows, nextId, dropped, session, messages, hasMore, stopping,
                   regenerating, loadingMore, switches>>

stop ==
    /\ ~stopping /\ Pending(messages)
    /\ stopping' = TRUE
    /\ calls' = calls \cup {Request("stop", session, <<>>)}
    /\ UNCHANGED <<kind, rows, nextId, dropped, session, messages, hasMore, sending,
                   regenerating, loadingMore, switches>>

regenerate ==
    /\ CanRegenerate
    /\ regenerating' = TRUE
    /\ calls' = calls \cup {[Request("regenerate", session, <<>>) EXCEPT !.at = lastAssistantId]}
    /\ UNCHANGED <<kind, rows, nextId, dropped, session, messages, hasMore, sending, stopping,
                   loadingMore, switches>>

-----------------------------------------------------------------------------
(* The server. *)

NewMessage(i, s, role) == [id |-> i, of |-> s, role |-> role,
                           status |-> IF role = "user" THEN "done" ELSE "pending"]

Serve(c) ==
    LET last == Listed(c.of, 1, 0)
        answered(list) == calls' = (calls \ {c}) \cup {[c EXCEPT !.st = "ok", !.list = list]}
    IN  /\ c.st = "sent"
        /\ \/ /\ c.op = "send" /\ nextId < MaxId
              /\ LET u == NewMessage(nextId, c.of, "user")
                     a == NewMessage(nextId + 1, c.of, "assistant")
                 IN  /\ rows' = [rows EXCEPT ![nextId] = u, ![nextId + 1] = a]
                     /\ nextId' = nextId + 2
                     /\ answered(<<u, a>>)
           \/ /\ c.op = "regenerate" /\ nextId <= MaxId
              /\ last # <<>> /\ last[1].role = "assistant" /\ last[1].status = "done"
              /\ LET a == NewMessage(nextId, c.of, "assistant")
                 IN  /\ rows' = [rows EXCEPT ![last[1].id] = None, ![nextId] = a]
                     /\ nextId' = nextId + 1
                     /\ answered(<<a>>)
           \/ /\ c.op = "stop"
              /\ rows' = [i \in 1..MaxId |-> IF rows[i] # None /\ rows[i].of = c.of
                                             THEN [rows[i] EXCEPT !.status = "done"] ELSE rows[i]]
              /\ answered(<<>>)
              /\ UNCHANGED nextId
        /\ UNCHANGED <<kind, dropped, session, messages, hasMore, flags, switches>>

\* A generation ends.
Settle(i) ==
    /\ rows[i] # None /\ rows[i].status = "pending"
    /\ rows' = [rows EXCEPT ![i].status = "done"]
    /\ UNCHANGED <<kind, nextId, dropped, session, messages, hasMore, flags, calls, switches>>

-----------------------------------------------------------------------------
(* The answers. *)

FullReply(c) ==
    /\ c.op = "full"
    /\ Show(c.list, calls \ {c})
    /\ hasMore' = (Len(c.list) = PageSize)
    /\ UNCHANGED <<kind, rows, nextId, dropped, session, flags, switches>>

PollReply(c) ==
    /\ c.op = "poll"
    /\ IF c.live /\ c.list # <<>> THEN Show(Merge(messages, c.list), calls \ {c})
       ELSE calls' = calls \ {c} /\ UNCHANGED messages
    /\ stopping' = (stopping /\ ~c.then)
    /\ UNCHANGED <<kind, rows, nextId, dropped, session, hasMore, sending, regenerating,
                   loadingMore, switches>>

MoreReply(c) ==
    /\ c.op = "more"
    /\ hasMore' = (hasMore /\ Len(c.list) = PageSize)
    /\ loadingMore' = FALSE
    /\ IF c.list # <<>> THEN Show(Merge(c.list, messages), calls \ {c})
       ELSE calls' = calls \ {c} /\ UNCHANGED messages
    /\ UNCHANGED <<kind, rows, nextId, dropped, session, sending, stopping, regenerating, switches>>

SendReply(c) ==
    /\ c.op = "send" /\ c.st = "ok"
    /\ Show(messages \o c.list, calls \ {c})
    /\ sending' = FALSE
    /\ UNCHANGED <<kind, rows, nextId, dropped, session, hasMore, stopping, regenerating,
                   loadingMore, switches>>

\* The page polls once more before it lets go of the button.
StopReply(c) ==
    /\ c.op = "stop" /\ c.st = "ok"
    /\ calls' = (calls \ {c}) \cup
         (IF kind = "window" THEN {} ELSE
          {[Request("poll", c.of, Listed(c.of, PollSize, 0)) EXCEPT !.then = TRUE]})
    /\ stopping' = (kind = "page")
    /\ UNCHANGED <<kind, rows, nextId, dropped, session, messages, hasMore, sending, regenerating,
                   loadingMore, switches>>

WithoutLast(id) ==
    Kept(messages, {k \in DOMAIN messages : ~(messages[k].role = "assistant" /\ messages[k].id = id)})

RegenerateReply(c) ==
    /\ c.op = "regenerate" /\ c.st = "ok"
    /\ Show(WithoutLast(c.at) \o c.list, calls \ {c})
    /\ regenerating' = FALSE
    /\ dropped' = dropped \cup (IF Pending(messages) THEN {} ELSE {c.at})
    /\ UNCHANGED <<kind, rows, nextId, session, hasMore, sending, stopping,
                   loadingMore, switches>>

\* Mutant: a failed send keeps the composer busy.
Released_KeepsSending(c) ==
    /\ sending' = sending
    /\ stopping' = (stopping /\ ~(c.op = "stop" \/ c.then))
    /\ regenerating' = (regenerating /\ c.op # "regenerate")
    /\ loadingMore' = (loadingMore /\ c.op # "more")

\* The finally of each handler.
Released(c) ==
    /\ sending' = (sending /\ c.op # "send")
    /\ stopping' = (stopping /\ ~(c.op = "stop" \/ c.then))
    /\ regenerating' = (regenerating /\ c.op # "regenerate")
    /\ loadingMore' = (loadingMore /\ c.op # "more")

\* A request, or its answer, is lost or refused.
Fails(c) ==
    /\ calls' = calls \ {c}
    /\ Released(c)
    /\ hasMore' = (hasMore /\ c.op # "more")
    /\ UNCHANGED <<kind, rows, nextId, dropped, session, messages, switches>>

Reply(c) == FullReply(c) \/ PollReply(c) \/ MoreReply(c) \/ SendReply(c) \/ StopReply(c)
            \/ RegenerateReply(c)

Next ==
    \/ \E s \in Sessions : SwitchSession(s)
    \/ Poll \/ loadMoreMessages \/ send \/ stop \/ regenerate
    \/ \E c \in calls : Serve(c) \/ Reply(c) \/ Fails(c)
    \/ \E i \in 1..MaxId : Settle(i)

Spec == Init /\ [][Next]_vars

-----------------------------------------------------------------------------

\* The list holds messages, however the answers are merged; a request that failed or
\* was answered is gone.
ViewTypeOK ==
    /\ rows \in [1..MaxId -> Message \cup {None}]
    /\ messages \in Seq(Message)
    /\ session \in Sessions
    /\ \A c \in calls : c.op \in Ops /\ c.list \in Seq(Message)
    /\ dropped \subseteq 1..MaxId

\* No button stays busy for a request that is over, and none is released while its
\* request is in flight, across session switches, failures and overtaking answers
\* (sending, regenerating, loadingMore and stopping of both views).
BusyMeansInFlight ==
    /\ sending <=> InFlight("send") # {}
    /\ regenerating <=> InFlight("regenerate") # {}
    /\ loadingMore <=> InFlight("more") # {}
    /\ stopping <=> \E c \in calls : c.op = "stop" \/ c.then

\* In the XP window no poll brings back an answer that was regenerated: the polls that
\* still carry it are cancelled when the new, pending answer appears (the effect of tick
\* in WinXpChatWindow).  When something pending came into view while the regeneration
\* was under way, the new answer changes nothing for the effect, and nothing cancels them.
DroppedStaysDropped ==
    [][(kind = "window" /\ \E c \in calls : PollReply(c))
       => \A i \in dropped : rows[i] = None /\ i \in Ids(messages') => i \in Ids(messages)]_vars
=============================================================================
