------------------------------ MODULE LiveChat ------------------------------
(***************************************************************************)
(* The conversations of one order while people look at them: the rows and  *)
(* read flags of messages.service.ts, the rooms and broadcasts of          *)
(* messages.gateway.ts, and the pane of conversation-pane.tsx that shows    *)
(* them.  An order has a conversation of all its parties (ALL, THREE_WAY in *)
(* the code) and private ones of two of them, of which one (PAIR) is here.  *)
(*                                                                         *)
(* A pane hears of a message twice: over its socket, in order, and in the   *)
(* answers to the fetches it makes when it joins or changes tabs, whenever  *)
(* those come.  The history variable mishaps collects the events that make  *)
(* the two disagree; no action depends on it.                               *)
(***************************************************************************)
EXTENDS Naturals, Sequences

CONSTANTS
    Members,        \* parties of the order
    PairMembers,    \* the two of them the private conversation is for
    Panes,          \* members who have a pane open
    ByOrder,        \* panes opened with an order's id (drawers), with tabs; the
                    \* others are opened with a conversation's id (messages page)
    Texts,          \* what may be typed; each text is typed once, then retried
    MAX_TRIES,      \* bound: how often a text is sent
    MAX_TURNS       \* bound: sockets lost, tabs changed and answers timed out together

ASSUME LiveChatAssumption ==
    /\ PairMembers \cup Panes \subseteq Members
    /\ ByOrder \subseteq Panes
    /\ {MAX_TRIES, MAX_TURNS} \subseteq Nat

VARIABLES
    locked,     \* the order is DISPUTED, REFUNDED or COMPLETED
    messages,   \* rows of Message, oldest first
    readBy,     \* read flags of every row
    online,     \* panes whose socket is connected
    rooms,      \* rooms of every pane's socket
    inbox,      \* events on their way to a pane, in order
    calls,      \* socket requests under way
    fetches,    \* HTTP requests for messages under way
    pane,       \* what a pane shows
    draft,      \* the optimistic entry of every text
    turns,      \* sockets lost, tabs changed and answers timed out so far
    mishaps     \* history

chatVars == <<locked, messages, readBy, online, rooms, inbox, calls, fetches, pane,
              draft, turns, mishaps>>

-----------------------------------------------------------------------------
(* Rows, rooms and requests. *)

Channels == {"ALL", "PAIR"}
MembersOf(c) == IF c = "PAIR" THEN PairMembers ELSE Members

MessageIds == DOMAIN messages
RowsOf(c) == { i \in MessageIds : messages[i].chan = c }

\* Rooms "ALL" and "PAIR" are conv:<id>, "ORDER" is order:<id>.
Base(u) == IF u \in ByOrder THEN "ORDER" ELSE "ALL"
ChannelOf(room) == IF room = "ORDER" THEN "ALL" ELSE room

\* A request keeps the tab a text was typed under (history), the try of the text, the
\* row it has led to, and whether the socket it came by still lives.
Request(op, u, room) ==
    [op |-> op, by |-> u, room |-> room, at |-> "sent", alive |-> TRUE, text |-> "", try |-> 0,
     under |-> "ALL", row |-> 0]
Send(u, room, t, n, tab) ==
    [Request("send", u, room) EXCEPT !.text = t, !.try = n, !.under = tab,
                                     !.at = IF u \in online THEN "sent" ELSE "buffered"]
Fetch(u, c, why) == [by |-> u, chan |-> c, why |-> why, at |-> "sent", got |-> {}]

Joined(room) == [kind |-> "joined", room |-> room, row |-> 0, text |-> "", try |-> 0, ok |-> TRUE]
Message(c) == [kind |-> "message", room |-> c.room, row |-> c.row, text |-> c.text, try |-> c.try,
               ok |-> TRUE]
Ack(c, ok) == [kind |-> "ack", room |-> c.room, row |-> 0, text |-> c.text, try |-> c.try, ok |-> ok]

\* markRead, and the updateMany of getMessagesByConversationId: every row of the
\* conversation, whatever the reader was shown.
MarkedBy(u, c) == [i \in MessageIds |-> IF i \in RowsOf(c) THEN readBy[i] \cup {u} ELSE readBy[i]]

At(c, where) == (calls \ {c}) \cup {[c EXCEPT !.at = where]}

\* An optimistic entry that the pane still lists, and whether it is this try of it.
Listed(t) == draft[t].state \in {"SENDING", "FAILED"}
IsTry(t, u, n) == Listed(t) /\ draft[t].by = u /\ draft[t].try = n

Note(what) == mishaps' = mishaps \cup {what}
TakeTurn == turns < MAX_TURNS /\ turns' = turns + 1
Deliver(u, event) == inbox' = [inbox EXCEPT ![u] = Append(@, event)]

-----------------------------------------------------------------------------
(* Sockets. *)

\* socket.io sends what was emitted meanwhile, then the pane's connect handler joins.
Connect(u) ==
    /\ u \notin online
    /\ online' = online \cup {u}
    /\ calls' = { IF c.by = u /\ c.at = "buffered" THEN [c EXCEPT !.at = "sent"] ELSE c : c \in calls }
                \cup {Request("join", u, Base(u))}
    /\ UNCHANGED <<locked, messages, readBy, rooms, inbox, fetches, pane, draft, turns, mishaps>>

\* Events under way are lost, and some requests; handlers already running go on, but
\* the socket they would answer is gone, and a join is left with its read flags.
Orphan(c) == IF c.op = "join" THEN [Request("read", c.by, ChannelOf(c.room)) EXCEPT !.alive = FALSE]
                              ELSE [c EXCEPT !.alive = FALSE]
Disconnect(u) ==
    /\ u \in online
    /\ TakeTurn
    /\ online' = online \ {u}
    /\ rooms' = [rooms EXCEPT ![u] = {}]
    /\ inbox' = [inbox EXCEPT ![u] = <<>>]
    /\ \E lost \in SUBSET { c \in calls : c.by = u /\ c.at = "sent" } :
          calls' = { c \in calls : c.by # u }
                   \cup { Orphan(c) : c \in { d \in calls \ lost : d.by = u /\ d.at # "entering" } }
    /\ UNCHANGED <<locked, messages, readBy, fetches, pane, draft, mishaps>>

-----------------------------------------------------------------------------
(* The gateway's handlers. *)

\* handleJoin loads the messages, which marks them read, before it enters the room.
JoinLoad(c) ==
    /\ c.op = "join"
    /\ c.at = "sent"
    /\ c.by \in MembersOf(ChannelOf(c.room))
    /\ readBy' = MarkedBy(c.by, ChannelOf(c.room))
    /\ calls' = At(c, "entering")
    /\ UNCHANGED <<locked, messages, online, rooms, inbox, fetches, pane, draft, turns, mishaps>>

JoinEnter(c) ==
    /\ c.op = "join"
    /\ c.at = "entering"
    /\ rooms' = [rooms EXCEPT ![c.by] = @ \cup {c.room}]
    /\ Deliver(c.by, Joined(c.room))
    /\ calls' = calls \ {c}
    /\ UNCHANGED <<locked, messages, readBy, online, fetches, pane, draft, turns, mishaps>>

\* handleRead, markConversationRead
Read(c) ==
    /\ c.op = "read"
    /\ c.by \in MembersOf(c.room)
    /\ readBy' = MarkedBy(c.by, c.room)
    /\ calls' = calls \ {c}
    /\ UNCHANGED <<locked, messages, online, rooms, inbox, fetches, pane, draft, turns, mishaps>>

\* sendMessage and sendMessageByConversationId check, then store.  What fails before
\* the row is stored is answered like a refusal.
Refuse(c) ==
    /\ calls' = calls \ {c}
    /\ IF c.alive THEN Deliver(c.by, Ack(c, FALSE)) ELSE UNCHANGED inbox

Pass(c) ==
    /\ ~locked
    /\ c.by \in MembersOf(ChannelOf(c.room))
    /\ calls' = At(c, "checked")
    /\ UNCHANGED inbox

SendCheck(c) ==
    /\ c.op = "send"
    /\ c.at = "sent"
    /\ Refuse(c) \/ Pass(c)
    /\ UNCHANGED <<locked, messages, readBy, online, rooms, fetches, pane, draft, turns, mishaps>>

SendStore(c) ==
    /\ c.op = "send"
    /\ c.at = "checked"
    /\ messages' = Append(messages, [chan |-> ChannelOf(c.room), from |-> c.by, text |-> c.text,
                                     under |-> c.under])
    /\ readBy' = Append(readBy, {c.by})
    /\ calls' = (calls \ {c}) \cup {[c EXCEPT !.at = "stored", !.row = Len(messages) + 1]}
    /\ UNCHANGED <<locked, online, rooms, inbox, fetches, pane, draft, turns, mishaps>>

\* handleSend tells the sockets in the room the request named, then asks who the
\* parties are.
SendEmit(c) ==
    /\ c.op = "send"
    /\ c.at = "stored"
    /\ inbox' = [u \in Panes |-> IF c.room \in rooms[u] THEN Append(inbox[u], Message(c)) ELSE inbox[u]]
    /\ calls' = At(c, "told")
    /\ UNCHANGED <<locked, messages, readBy, online, rooms, fetches, pane, draft, turns, mishaps>>

\* Variant: the parties of the order are told, whatever the conversation.
PartiesOfOrder(c) == Members

\* getConversationParties, getOrderParties
ConversationParties(c) == MembersOf(ChannelOf(c.room))

\* The pane drops a second copy of a message: of a row it has seen, or that is before
\* it in the inbox.
Dropped(u, i) ==
    \/ i \in pane[u].seen
    \/ \E k \in DOMAIN inbox[u] : inbox[u][k].kind = "message" /\ inbox[u][k].row = i

\* Every socket of the parties is told, but the one that sent it.
Audience(c) ==
    { u \in online \cap ConversationParties(c) : (u # c.by \/ ~c.alive) /\ ~Dropped(u, c.row) }

TellParties(c) ==
    /\ inbox' = [u \in Panes |->
          IF u \in Audience(c) THEN Append(inbox[u], Message(c))
          ELSE IF u = c.by /\ c.alive THEN Append(inbox[u], Ack(c, TRUE))
          ELSE inbox[u]]
    /\ UNCHANGED mishaps

\* The parties are not found: what was stored and told is answered like a refusal.
FailToTell(c) ==
    /\ IF c.alive THEN Deliver(c.by, Ack(c, FALSE)) ELSE UNCHANGED inbox
    /\ Note("UNTOLD")

SendAnswer(c) ==
    /\ c.op = "send"
    /\ c.at = "told"
    /\ TellParties(c) \/ FailToTell(c)
    /\ calls' = calls \ {c}
    /\ UNCHANGED <<locked, messages, readBy, online, rooms, fetches, pane, draft, turns>>

\* getMessages, getMessagesByConversationId and getOrCreatePairConversation over HTTP:
\* the rows are found, then all rows are marked read, then the answer travels.
FetchFind(f) ==
    /\ f.at = "sent"
    /\ f.by \in MembersOf(f.chan)
    /\ f.chan = "PAIR" => ~locked
    /\ fetches' = (fetches \ {f}) \cup {[f EXCEPT !.at = "found", !.got = RowsOf(f.chan)]}
    /\ UNCHANGED <<locked, messages, readBy, online, rooms, inbox, calls, pane, draft, turns, mishaps>>

FetchMark(f) ==
    /\ f.at = "found"
    /\ readBy' = MarkedBy(f.by, f.chan)
    /\ fetches' = (fetches \ {f}) \cup {[f EXCEPT !.at = "ready"]}
    /\ UNCHANGED <<locked, messages, online, rooms, inbox, calls, pane, draft, turns, mishaps>>

\* An error is swallowed (joined) or reported and given up (tab).
FetchFails(f) ==
    /\ fetches' = fetches \ {f}
    /\ IF f.why = "joined" THEN Note("FETCH_FAILED") ELSE UNCHANGED mishaps
    /\ UNCHANGED <<locked, messages, readBy, online, rooms, inbox, calls, pane, draft, turns>>

LockOrder ==
    /\ ~locked
    /\ locked' = TRUE
    /\ UNCHANGED <<messages, readBy, online, rooms, inbox, calls, fetches, pane, draft, turns, mishaps>>

-----------------------------------------------------------------------------
(* The pane. *)

\* The answer replaces the list, live messages and optimistic entries with it.  Its
\* url names the conversation the pane was opened for, whichever tab was joined.
FetchApply(f) ==
    /\ f.at = "ready"
    /\ fetches' = fetches \ {f}
    /\ pane' = [pane EXCEPT ![f.by].active = f.chan, ![f.by].shown = f.got,
                            ![f.by].tab = IF f.why = "tab" THEN f.chan ELSE @]
    /\ draft' = [t \in Texts |-> IF Listed(t) /\ draft[t].by = f.by
                                 THEN [draft[t] EXCEPT !.state = "ERASED"] ELSE draft[t]]
    /\ calls' = IF f.why = "tab" /\ f.by \in online THEN calls \cup {Request("join", f.by, f.chan)} ELSE calls
    /\ IF RowsOf(f.chan) \cap (pane[f.by].seen \cup pane[f.by].shown) \subseteq f.got
       THEN UNCHANGED mishaps
       ELSE Note("OVERWRITTEN")
    /\ UNCHANGED <<locked, messages, readBy, online, rooms, inbox, turns>>

\* socket.on('joined'), 'message' and the acknowledgement of 'send'.
\* Variant: a pane that knows its conversation does not load it again.
HearJoinedAgain(u, e) ==
    /\ e.kind = "joined"
    /\ IF e.room = "ORDER"
       THEN UNCHANGED <<pane, calls>>
       ELSE /\ pane' = [pane EXCEPT ![u].active = e.room]
            /\ calls' = calls \cup {Request("read", u, e.room)}
    /\ fetches' = IF pane[u].active = "NONE" THEN fetches \cup {Fetch(u, "ALL", "joined")} ELSE fetches
    /\ UNCHANGED draft

HearJoined(u, e) ==
    /\ e.kind = "joined"
    /\ IF e.room = "ORDER"
       THEN UNCHANGED <<pane, calls>>
       ELSE /\ pane' = [pane EXCEPT ![u].active = e.room]
            /\ calls' = calls \cup {Request("read", u, e.room)}
    /\ fetches' = fetches \cup {Fetch(u, "ALL", "joined")}
    /\ UNCHANGED draft

HearMessage(u, e) ==
    LET c == messages[e.row].chan
        here == pane[u].active \in {"NONE", c}
    IN  /\ e.kind = "message"
        /\ IF e.row \in pane[u].seen
           THEN UNCHANGED <<pane, draft>>
           ELSE /\ pane' = [pane EXCEPT ![u].seen = @ \cup {e.row},
                                        ![u].shown = IF here THEN @ \cup {e.row} ELSE @]
                /\ draft' = IF here /\ IsTry(e.text, u, e.try)
                            THEN [draft EXCEPT ![e.text].state = "SENT"] ELSE draft
        /\ calls' = IF e.row \notin pane[u].seen /\ pane[u].active = c /\ messages[e.row].from # u
                    THEN calls \cup {Request("read", u, c)} ELSE calls
        /\ UNCHANGED fetches

HearAck(u, e) ==
    /\ e.kind = "ack"
    /\ pane' = [pane EXCEPT ![u].waiting = ""]
    /\ draft' = IF ~e.ok /\ IsTry(e.text, u, e.try)
                THEN [draft EXCEPT ![e.text].state = "FAILED"] ELSE draft
    /\ UNCHANGED <<calls, fetches>>

Hear(u) ==
    /\ inbox[u] # <<>>
    /\ LET e == Head(inbox[u]) IN HearJoined(u, e) \/ HearMessage(u, e) \/ HearAck(u, e)
    /\ inbox' = [inbox EXCEPT ![u] = Tail(@)]
    /\ UNCHANGED <<locked, messages, readBy, online, rooms, turns, mishaps>>

\* handleSend: to the active conversation if the pane knows it.
SendText(u, t, n) ==
    /\ pane[u].waiting = ""
    /\ draft' = [draft EXCEPT ![t] = [state |-> "SENDING", by |-> u, try |-> n]]
    /\ pane' = [pane EXCEPT ![u].waiting = t]
    /\ calls' = calls \cup
         {Send(u, IF pane[u].active = "NONE" THEN Base(u) ELSE pane[u].active, t, n, pane[u].tab)}
    /\ UNCHANGED <<locked, messages, readBy, online, rooms, inbox, fetches, turns, mishaps>>

Type(u, t) == draft[t].state = "NEW" /\ SendText(u, t, 1)

\* Variant: the retry is offered while the first try is still being sent.
RetryAnytime(u, t) ==
    /\ Listed(t)
    /\ draft[t].by = u
    /\ draft[t].try < MAX_TRIES
    /\ SendText(u, t, draft[t].try + 1)

\* retryMessage takes the failed entry out and its text back into the composer.
Retry(u, t) ==
    /\ draft[t].state = "FAILED"
    /\ draft[t].by = u
    /\ draft[t].try < MAX_TRIES
    /\ SendText(u, t, draft[t].try + 1)

\* No acknowledgement within 8 seconds.
AckTimeout(u) ==
    LET t == pane[u].waiting
    IN  /\ t # ""
        /\ pane' = [pane EXCEPT ![u].waiting = ""]
        /\ draft' = [draft EXCEPT ![t].state = IF @ = "SENDING" THEN "FAILED" ELSE @]
        /\ Note("TIMED_OUT")
        /\ TakeTurn
        /\ UNCHANGED <<locked, messages, readBy, online, rooms, inbox, calls, fetches>>

\* switchTab; the tabs are disabled while one is being loaded.
SwitchTab(u, c) ==
    /\ u \in ByOrder \cap MembersOf(c)
    /\ pane[u].active # "NONE"
    /\ pane[u].tab # c
    /\ \A f \in fetches : f.by = u => f.why # "tab"
    /\ TakeTurn
    /\ fetches' = fetches \cup {Fetch(u, c, "tab")}
    /\ UNCHANGED <<locked, messages, readBy, online, rooms, inbox, calls, pane, draft, mishaps>>

-----------------------------------------------------------------------------
NewPane == [active |-> "NONE", tab |-> "ALL", shown |-> {}, seen |-> {}, waiting |-> ""]

\* Panes of the messages page have been open for a while; drawers are opened now.
ChatInit ==
    /\ locked = FALSE
    /\ messages = <<>>
    /\ readBy = <<>>
    /\ online = Panes \ ByOrder
    /\ rooms = [u \in Panes |-> IF u \in ByOrder THEN {} ELSE {"ALL"}]
    /\ inbox = [u \in Panes |-> <<>>]
    /\ calls = {}
    /\ fetches = {}
    /\ pane = [u \in Panes |-> [NewPane EXCEPT !.active = IF u \in ByOrder THEN "NONE" ELSE "ALL"]]
    /\ draft = [t \in Texts |-> [state |-> "NEW", by |-> "", try |-> 0]]
    /\ turns = 0
    /\ mishaps = {}

ChatNext ==
    \/ \E u \in Panes :
          \/ Connect(u) \/ Disconnect(u) \/ Hear(u) \/ AckTimeout(u)
          \/ \E t \in Texts : Type(u, t) \/ Retry(u, t)
          \/ \E c \in Channels : SwitchTab(u, c)
    \/ \E c \in calls : JoinLoad(c) \/ JoinEnter(c) \/ Read(c)
                        \/ SendCheck(c) \/ SendStore(c) \/ SendEmit(c) \/ SendAnswer(c)
    \/ \E f \in fetches : FetchFind(f) \/ FetchMark(f) \/ FetchApply(f) \/ FetchFails(f)
    \/ LockOrder

ChatSpec == ChatInit /\ [][ChatNext]_chatVars

-----------------------------------------------------------------------------
(* Properties. *)

ChatTypeOK ==
    /\ locked \in BOOLEAN
    /\ \A i \in MessageIds : messages[i].chan \in Channels /\ messages[i].from \in MembersOf(messages[i].chan)
    /\ DOMAIN readBy = MessageIds
    /\ \A i \in MessageIds : messages[i].from \in readBy[i] /\ readBy[i] \subseteq MembersOf(messages[i].chan)
    /\ online \subseteq Panes
    /\ \A u \in Panes : pane[u].shown \cup pane[u].seen \subseteq MessageIds
    /\ \A u \in Panes : u \notin online => rooms[u] = {} /\ inbox[u] = <<>>

\* Nothing concerning a pane is under way.
Quiet(u) ==
    /\ u \in online
    /\ rooms[u] # {}
    /\ inbox[u] = <<>>
    /\ pane[u].waiting = ""
    /\ \A c \in calls : c.by # u /\ c.at \notin {"stored", "told"}
    /\ \A f \in fetches : f.by # u

Undisturbed == mishaps \cap {"OVERWRITTEN", "FETCH_FAILED"} = {}

(* What is said in a private conversation reaches no other party of the     *)
(* order (getConversationParties: "Privacy-critical"; the membership checks  *)
(* of handleJoin and getMessagesByConversationId).                           *)
PairStaysPrivate ==
    \A u \in Panes \ PairMembers : \A i \in pane[u].shown \cup pane[u].seen : messages[i].chan # "PAIR"

\* Its author's pane may still list the text as an entry that was not sent, and no
\* longer tells one try from another once an answer timed out.
Unsent(u, i) ==
    /\ messages[i].from = u
    /\ "TIMED_OUT" \in mishaps \/ draft[messages[i].text].state # "SENT"

(* A pane at rest shows every message of its conversation and has cleared    *)
(* its badge, whether the message came before, during or after the join and   *)
(* across lost sockets, unless a fetch failed, its answer was older than a    *)
(* message already shown, or the parties to tell were not found              *)
(* (getUnreadCount: "a badge that could not be cleared").                    *)
PaneUpToDate ==
    Undisturbed /\ "UNTOLD" \notin mishaps =>
        \A u \in Panes : Quiet(u) =>
            \A i \in RowsOf(pane[u].active) :
                /\ u \in readBy[i]
                /\ \/ i \in pane[u].shown
                   \/ Unsent(u, i)

(* A text is stored twice only if its acknowledgement timed out or said that   *)
(* it failed after it was stored, and in a pane of the messages page none is   *)
(* left "sending": the broadcast replaces it, or it is marked as failed        *)
(* (handleSend, retryMessage).                                                *)
TextsSettle ==
    /\ \/ mishaps \cap {"TIMED_OUT", "UNTOLD"} # {}
       \/ \A i, j \in MessageIds : messages[i].text = messages[j].text => i = j
    /\ Undisturbed =>
          \A u \in Panes \ ByOrder : Quiet(u) =>
              \A t \in Texts : draft[t].by = u => draft[t].state # "SENDING"
=============================================================================
