--------------------------- MODULE LiveChatProofs ---------------------------
(***************************************************************************)
(* Theorems about LiveChat for any parties, panes, texts and bounds: what    *)
(* is said in a private conversation reaches no other party, a pane at rest  *)
(* shows all of its conversation, and a text is stored once and settles.     *)
(*                                                                         *)
(* PairStaysPrivate is not inductive.  A pane shows what an event or an      *)
(* answer brings, so the invariant says of every event under way, every      *)
(* answer under way, every room of a socket and every request between its    *)
(* check and its effect that its pane belongs to the conversation.           *)
(*                                                                         *)
(* PaneUpToDate and TextsSettle speak of panes at rest only, so the          *)
(* invariant says what the rest of the time is true instead: whatever a      *)
(* pane lacks is on its way to it (Comes, Reading), and so is the end of a   *)
(* text being sent (Resolves).  A first part of the proof says where every   *)
(* request, event, answer and row comes from in a step and where it goes.    *)
(***************************************************************************)
EXTENDS LiveChat, SequenceTheorems, TLAPS

(* Rows of every kind. *)

Rooms == {"ALL", "PAIR", "ORDER"}
TextOrNone == Texts \cup {""}
MessageRow == [chan : Channels, from : Panes, text : TextOrNone, under : Channels]
CallRow == [op : {"join", "read", "send"}, by : Panes, room : Rooms,
            at : {"buffered", "sent", "entering", "checked", "stored", "told"}, alive : BOOLEAN,
            text : TextOrNone, try : Nat, under : Channels, row : Nat]
FetchRow == [by : Panes, chan : Channels, why : {"joined", "tab"},
             at : {"sent", "found", "ready"}, got : SUBSET Nat]
EventRow == [kind : {"joined", "message", "ack"}, room : Rooms, row : Nat, text : TextOrNone,
             try : Nat, ok : BOOLEAN]
PaneRow == [active : Channels \cup {"NONE"}, tab : Channels, shown : SUBSET Nat,
            seen : SUBSET Nat, waiting : TextOrNone]
DraftRow == [state : {"NEW", "SENDING", "FAILED", "SENT", "ERASED"}, by : Panes \cup {""}, try : Nat]

-----------------------------------------------------------------------------
(* The invariant. *)

MayRead(u, i) == i \in MessageIds /\ u \in MembersOf(messages[i].chan)

RowFits(i) ==
    /\ messages[i].from \in readBy[i]
    /\ messages[i].from \in MembersOf(messages[i].chan)
    /\ readBy[i] \subseteq MembersOf(messages[i].chan)

RowsFit ==
    /\ messages \in Seq(MessageRow)
    /\ readBy \in Seq(SUBSET Members)
    /\ Len(readBy) = Len(messages)
    /\ \A i \in MessageIds : RowFits(i)

SocketFits(u) ==
    /\ \A room \in rooms[u] : u \in MembersOf(ChannelOf(room))
    /\ u \notin online => rooms[u] = {}

SocketsFit ==
    /\ online \subseteq Panes
    /\ rooms \in [Panes -> SUBSET Rooms]
    /\ \A u \in Panes : SocketFits(u)

EventsFor(u) == { e \in EventRow : e.kind = "message" => MayRead(u, e.row) }

InboxFits ==
    /\ DOMAIN inbox = Panes
    /\ inbox = [u \in Panes |-> inbox[u]]
    /\ \A u \in Panes : inbox[u] \in Seq(EventsFor(u)) /\ (u \notin online => inbox[u] = <<>>)

CallFits(c) ==
    /\ c \in CallRow
    /\ c.at \in {"entering", "checked", "stored", "told"} => c.by \in MembersOf(ChannelOf(c.room))
    /\ c.at \in {"stored", "told"} => c.row \in MessageIds /\ messages[c.row].chan = ChannelOf(c.room)
    /\ c.op = "join" => c.by \in online
    /\ c.op = "read" => c.room \in Channels
    /\ c.op = "send" /\ c.alive /\ c.at # "buffered" => c.by \in online

CallsFit == \A c \in calls : CallFits(c)

FetchFits(f) ==
    /\ f \in FetchRow
    /\ f.at # "sent" => f.by \in MembersOf(f.chan)
    /\ f.got \subseteq RowsOf(f.chan)

FetchesFit == \A f \in fetches : FetchFits(f)

PanesFit ==
    /\ pane \in [Panes -> PaneRow]
    /\ \A u \in Panes : \A i \in pane[u].shown \cup pane[u].seen : MayRead(u, i)

DraftsFit == draft \in [Texts -> DraftRow]

ChatInv ==
    /\ RowsFit /\ SocketsFit /\ InboxFits /\ CallsFit /\ FetchesFit /\ PanesFit /\ DraftsFit
    /\ locked \in BOOLEAN

-----------------------------------------------------------------------------
(* What a step leaves alone keeps fitting. *)

\* Messages are only ever appended.
Kept == \A i \in MessageIds : i \in MessageIds' /\ messages'[i] = messages[i]

LEMMA SeqOfMore ==
    ASSUME NEW S, NEW T, S \subseteq T, NEW s \in Seq(S)
    PROVE  s \in Seq(T)
OBVIOUS

LEMMA ReadKept ==
    ASSUME Kept, NEW u, NEW i, MayRead(u, i)
    PROVE  MayRead(u, i)'
BY DEF MayRead, Kept

LEMMA EventsKept ==
    ASSUME Kept, NEW u
    PROVE  EventsFor(u) \subseteq EventsFor(u)'
BY ReadKept DEF EventsFor

LEMMA Frame ==
    ASSUME ChatInv, Kept
    PROVE  /\ UNCHANGED <<messages, readBy>> => RowsFit'
           /\ UNCHANGED <<online, rooms>> => SocketsFit'
           /\ UNCHANGED <<online, inbox>> => InboxFits'
           /\ UNCHANGED <<online, calls>> => CallsFit'
           /\ UNCHANGED fetches => FetchesFit'
           /\ UNCHANGED pane => PanesFit'
           /\ UNCHANGED draft => DraftsFit'
           /\ UNCHANGED locked => locked' \in BOOLEAN
<1>1. UNCHANGED <<messages, readBy>> => RowsFit'
  BY DEF ChatInv, RowsFit, RowFits, MessageIds
<1>2. UNCHANGED <<online, rooms>> => SocketsFit'
  BY DEF ChatInv, SocketsFit, SocketFits
<1>3. UNCHANGED <<online, inbox>> => InboxFits'
  BY EventsKept, SeqOfMore DEF ChatInv, InboxFits
<1>4. UNCHANGED <<online, calls>> => CallsFit'
  BY DEF ChatInv, CallsFit, CallFits, Kept
<1>5. UNCHANGED fetches => FetchesFit'
  BY DEF ChatInv, FetchesFit, FetchFits, RowsOf, Kept
<1>6. UNCHANGED pane => PanesFit'
  BY ReadKept DEF ChatInv, PanesFit
<1>7. UNCHANGED draft => DraftsFit'
  BY DEF ChatInv, DraftsFit
<1>8. UNCHANGED locked => locked' \in BOOLEAN
  BY DEF ChatInv
<1> QED
  BY <1>1, <1>2, <1>3, <1>4, <1>5, <1>6, <1>7, <1>8

LEMMA SameRowsKept == UNCHANGED messages => Kept
BY DEF Kept, MessageIds

\* One request more, or in another's place.
LEMMA OneCall ==
    ASSUME ChatInv, Kept, NEW n, CallFits(n)', calls' \subseteq calls \cup {n}, UNCHANGED online
    PROVE  CallsFit'
BY DEF ChatInv, CallsFit, CallFits, Kept

LEMMA NoNewCall ==
    ASSUME ChatInv, Kept, calls' \subseteq calls, UNCHANGED online
    PROVE  CallsFit'
BY DEF ChatInv, CallsFit, CallFits, Kept

LEMMA OneFetch ==
    ASSUME ChatInv, Kept, NEW f, FetchFits(f)', fetches' \subseteq fetches \cup {f}
    PROVE  FetchesFit'
BY DEF ChatInv, FetchesFit, FetchFits, RowsOf, Kept

LEMMA NoNewFetch ==
    ASSUME ChatInv, Kept, fetches' \subseteq fetches
    PROVE  FetchesFit'
BY DEF ChatInv, FetchesFit, FetchFits, RowsOf, Kept

LEMMA BaseIsRoom == \A u : Base(u) \in Rooms
BY DEF Base, Rooms

LEMMA ChannelIsRoom == \A room \in Rooms : ChannelOf(room) \in Channels /\ ChannelOf(room) \in Rooms
BY DEF ChannelOf, Rooms, Channels

\* Everybody in a conversation may mark it read.
LEMMA MarkKeeps ==
    ASSUME ChatInv, NEW c \in Channels, NEW u \in MembersOf(c),
           readBy' = MarkedBy(u, c), UNCHANGED messages
    PROVE  RowsFit'
<1>1. messages \in Seq(MessageRow) /\ readBy \in Seq(SUBSET Members) /\ Len(readBy) = Len(messages)
      /\ \A i \in MessageIds : RowFits(i)
  BY DEF ChatInv, RowsFit
<1>2. MessageIds = 1..Len(readBy) /\ Len(readBy) \in Nat
  BY <1>1 DEF MessageIds
<1>3. u \in Members
  BY LiveChatAssumption DEF MembersOf
<1>4. \A i \in MessageIds : readBy'[i] = IF i \in RowsOf(c) THEN readBy[i] \cup {u} ELSE readBy[i]
  BY DEF MarkedBy
<1>5. readBy' \in Seq(SUBSET Members) /\ Len(readBy') = Len(messages)
  <2> DEFINE marked == [i \in MessageIds |-> IF i \in RowsOf(c) THEN readBy[i] \cup {u} ELSE readBy[i]]
  <2>1. \A i \in MessageIds : readBy[i] \in SUBSET Members
    BY <1>1, <1>2
  <2>2. marked \in [1..Len(readBy) -> SUBSET Members]
    BY <1>2, <1>3, <2>1
  <2>3. readBy' = marked
    BY DEF MarkedBy
  <2> HIDE DEF marked
  <2> QED
    BY <1>1, <1>2, <2>2, <2>3
<1>6. ASSUME NEW i \in MessageIds PROVE RowFits(i)'
  BY <1>1, <1>4, <1>6 DEF RowFits, RowsOf
<1> QED
  BY <1>1, <1>5, <1>6 DEF RowsFit, MessageIds

-----------------------------------------------------------------------------
(* One more event in an inbox. *)

LEMMA Delivered ==
    ASSUME ChatInv, Kept, NEW u \in Panes, u \in online, NEW e \in EventsFor(u)',
           Deliver(u, e), UNCHANGED online
    PROVE  InboxFits'
<1>1. \A v \in Panes : inbox[v] \in Seq(EventsFor(v)')
  BY EventsKept, SeqOfMore DEF ChatInv, InboxFits
<1>2. inbox'[u] \in Seq(EventsFor(u)')
  <2>1. inbox'[u] = Append(inbox[u], e)
    BY DEF Deliver, ChatInv, InboxFits
  <2> QED
    BY <1>1, <2>1, AppendProperties
<1>3. DOMAIN inbox' = Panes /\ inbox' = [v \in Panes |-> inbox'[v]]
  BY DEF Deliver, ChatInv, InboxFits
<1>4. \A v \in Panes : v # u => inbox'[v] = inbox[v]
  BY DEF Deliver, ChatInv, InboxFits
<1> QED
  BY <1>1, <1>2, <1>3, <1>4 DEF ChatInv, InboxFits

-----------------------------------------------------------------------------
(* One lemma per operation. *)

LEMMA ConnectKeeps ==
    ASSUME ChatInv, NEW u \in Panes, Connect(u)
    PROVE  ChatInv'
<1>1. Kept /\ UNCHANGED <<locked, messages, readBy, rooms, inbox, fetches, pane, draft>>
      /\ u \notin online /\ online' = online \cup {u}
  BY SameRowsKept DEF Connect
<1>2. SocketsFit' /\ InboxFits'
  BY <1>1, EventsKept, SeqOfMore DEF ChatInv, SocketsFit, SocketFits, InboxFits
<1>3. CallsFit'
  <2>1. ASSUME NEW c \in calls PROVE CallFits(c)'
    BY <1>1 DEF ChatInv, CallsFit, CallFits, MessageIds
  <2>2. ASSUME NEW c \in calls, c.by = u, c.at = "buffered"
        PROVE  CallFits([c EXCEPT !.at = "sent"])'
    BY <1>1, <2>2 DEF ChatInv, CallsFit, CallFits, CallRow
  <2>3. CallFits(Request("join", u, Base(u)))'
    BY <1>1, BaseIsRoom DEF Request, CallFits, CallRow, TextOrNone, Channels
  <2> QED
    BY <2>1, <2>2, <2>3 DEF Connect, CallsFit
<1> QED
  BY <1>1, <1>2, <1>3, Frame DEF ChatInv

LEMMA DisconnectKeeps ==
    ASSUME ChatInv, NEW u \in Panes, Disconnect(u)
    PROVE  ChatInv'
<1>1. Kept /\ UNCHANGED <<locked, messages, readBy, fetches, pane, draft>>
      /\ online' = online \ {u} /\ rooms' = [rooms EXCEPT ![u] = {}]
      /\ inbox' = [inbox EXCEPT ![u] = <<>>]
  BY SameRowsKept DEF Disconnect
<1>2. SocketsFit'
  BY <1>1 DEF ChatInv, SocketsFit, SocketFits
<1>3. InboxFits'
  BY <1>1, EventsKept, SeqOfMore DEF ChatInv, InboxFits
<1>4. CallsFit'
  <2>1. ASSUME NEW c \in calls, c.by # u PROVE CallFits(c)'
    BY <1>1, <2>1 DEF ChatInv, CallsFit, CallFits, MessageIds
  <2>2. ASSUME NEW c \in calls, c.by = u, c.at # "entering" PROVE CallFits(Orphan(c))'
    <3>1. CallFits(c) /\ c \in CallRow
      BY DEF ChatInv, CallsFit, CallFits
    <3>2. CASE c.op = "join"
      <4>1. ChannelOf(c.room) \in Rooms /\ ChannelOf(c.room) \in Channels /\ c.by \in Panes
        BY <3>1, ChannelIsRoom DEF CallRow
      <4> QED
        BY <3>2, <4>1 DEF Orphan, Request, CallFits, CallRow, TextOrNone, Channels
    <3>3. CASE c.op # "join"
      BY <1>1, <3>1, <3>3 DEF Orphan, CallFits, CallRow, MessageIds
    <3> QED
      BY <3>2, <3>3
  <2> QED
    BY <2>1, <2>2 DEF Disconnect, CallsFit
<1> QED
  BY <1>1, <1>2, <1>3, <1>4, Frame DEF ChatInv

LEMMA JoinKeeps ==
    ASSUME ChatInv, NEW c \in calls, JoinLoad(c) \/ JoinEnter(c)
    PROVE  ChatInv'
<1>1. CallFits(c) /\ c \in CallRow /\ c.by \in Panes /\ ChannelOf(c.room) \in Channels
  BY ChannelIsRoom DEF ChatInv, CallsFit, CallFits, CallRow
<1>2. CASE JoinLoad(c)
  <2>1. Kept /\ UNCHANGED <<locked, messages, online, rooms, inbox, fetches, pane, draft>>
        /\ readBy' = MarkedBy(c.by, ChannelOf(c.room)) /\ c.by \in MembersOf(ChannelOf(c.room))
        /\ c.op = "join"
    BY <1>2, SameRowsKept DEF JoinLoad
  <2>2. RowsFit'
    BY <1>1, <2>1, MarkKeeps
  <2>3. CallFits([c EXCEPT !.at = "entering"])'
    BY <1>1, <2>1 DEF CallFits, CallRow
  <2>4. CallsFit'
    BY <1>2, <2>1, <2>3, OneCall DEF JoinLoad, At
  <2> QED
    BY <2>1, <2>2, <2>4, Frame DEF ChatInv
<1>3. CASE JoinEnter(c)
  <2>1. Kept /\ UNCHANGED <<locked, messages, readBy, online, fetches, pane, draft>>
        /\ c.by \in online /\ c.by \in MembersOf(ChannelOf(c.room))
        /\ rooms' = [rooms EXCEPT ![c.by] = @ \cup {c.room}]
    BY <1>1, <1>3, SameRowsKept DEF JoinEnter, CallFits
  <2>2. SocketsFit'
    BY <1>1, <2>1 DEF ChatInv, SocketsFit, SocketFits, CallRow
  <2>3. Joined(c.room) \in EventsFor(c.by)'
    BY <1>1 DEF Joined, EventsFor, EventRow, CallRow, TextOrNone
  <2>4. InboxFits'
    BY <1>1, <1>3, <2>1, <2>3, Delivered DEF JoinEnter
  <2>5. CallsFit'
    BY <1>3, <2>1, NoNewCall DEF JoinEnter
  <2> QED
    BY <2>1, <2>2, <2>4, <2>5, Frame DEF ChatInv
<1> QED
  BY <1>2, <1>3

LEMMA ReadKeeps ==
    ASSUME ChatInv, NEW c \in calls, Read(c)
    PROVE  ChatInv'
<1>1. Kept /\ UNCHANGED <<locked, messages, online, rooms, inbox, fetches, pane, draft>>
      /\ readBy' = MarkedBy(c.by, c.room) /\ c.by \in MembersOf(c.room) /\ calls' \subseteq calls
  BY SameRowsKept DEF Read
<1>2. c.room \in Channels
  BY DEF Read, ChatInv, CallsFit, CallFits
<1>3. RowsFit'
  BY <1>1, <1>2, MarkKeeps
<1> QED
  BY <1>1, <1>3, Frame, NoNewCall DEF ChatInv

LEMMA RefuseKeeps ==
    ASSUME ChatInv, NEW c \in calls, SendCheck(c), Refuse(c)
    PROVE  ChatInv'
<1>1. CallFits(c) /\ c \in CallRow /\ c.by \in Panes /\ c.op = "send" /\ c.at = "sent"
  BY DEF ChatInv, CallsFit, CallFits, CallRow, SendCheck
<1>2. Kept /\ UNCHANGED <<locked, messages, readBy, online, rooms, fetches, pane, draft>>
      /\ calls' \subseteq calls
  BY SameRowsKept DEF SendCheck, Refuse
<1>3. InboxFits'
  <2>1. CASE c.alive
    <3>1. c.by \in online /\ Deliver(c.by, Ack(c, FALSE))
      BY <1>1, <2>1 DEF Refuse, CallFits
    <3>2. Ack(c, FALSE) \in EventsFor(c.by)'
      BY <1>1 DEF Ack, EventsFor, EventRow, CallRow
    <3> QED
      BY <1>1, <1>2, <3>1, <3>2, Delivered
  <2>2. CASE ~c.alive
    BY <1>2, <2>2, Frame DEF Refuse
  <2> QED
    BY <2>1, <2>2
<1> QED
  BY <1>2, <1>3, NoNewCall, Frame DEF ChatInv

LEMMA PassKeeps ==
    ASSUME ChatInv, NEW c \in calls, SendCheck(c), Pass(c)
    PROVE  ChatInv'
<1>1. CallFits(c) /\ c \in CallRow /\ c.op = "send" /\ c.at = "sent"
      /\ c.by \in MembersOf(ChannelOf(c.room))
  BY DEF ChatInv, CallsFit, CallFits, SendCheck, Pass
<1>2. Kept /\ UNCHANGED <<locked, messages, readBy, online, rooms, inbox, fetches, pane, draft>>
  BY SameRowsKept DEF SendCheck, Pass
<1>3. CallFits([c EXCEPT !.at = "checked"])'
  BY <1>1, <1>2 DEF CallFits, CallRow
<1>4. CallsFit'
  BY <1>2, <1>3, OneCall DEF Pass, At
<1> QED
  BY <1>2, <1>4, Frame DEF ChatInv

LEMMA SendCheckKeeps ==
    ASSUME ChatInv, NEW c \in calls, SendCheck(c)
    PROVE  ChatInv'
BY RefuseKeeps, PassKeeps DEF SendCheck

LEMMA StoredCall ==
    ASSUME NEW c \in CallRow, NEW n \in Nat
    PROVE  LET d == [c EXCEPT !.at = "stored", !.row = n]
           IN  /\ d \in CallRow /\ d.at = "stored" /\ d.row = n
               /\ d.by = c.by /\ d.room = c.room /\ d.op = c.op /\ d.alive = c.alive
<1> DEFINE e == [c EXCEPT !.at = "stored"]
           d == [e EXCEPT !.row = n]
<1>1. /\ e \in CallRow /\ e.at = "stored"
      /\ e.by = c.by /\ e.room = c.room /\ e.op = c.op /\ e.alive = c.alive
  BY DEF CallRow
<1>2. [c EXCEPT !.at = "stored", !.row = n] = d
  BY DEF CallRow
<1> HIDE DEF e
<1>3. /\ d \in CallRow /\ d.at = e.at /\ d.row = n
      /\ d.by = e.by /\ d.room = e.room /\ d.op = e.op /\ d.alive = e.alive
  BY <1>1 DEF CallRow
<1> HIDE DEF d
<1> QED
  BY <1>1, <1>2, <1>3

LEMMA SendStoreKeeps ==
    ASSUME ChatInv, NEW c \in calls, SendStore(c)
    PROVE  ChatInv'
<1> DEFINE row == [chan |-> ChannelOf(c.room), from |-> c.by, text |-> c.text, under |-> c.under]
<1>1. /\ CallFits(c) /\ c \in CallRow /\ c.by \in Panes /\ ChannelOf(c.room) \in Channels
      /\ c.by \in MembersOf(ChannelOf(c.room)) /\ c.op = "send" /\ c.at = "checked"
  BY ChannelIsRoom DEF ChatInv, CallsFit, CallFits, CallRow, SendStore
<1>2. /\ messages' = Append(messages, row) /\ readBy' = Append(readBy, {c.by})
      /\ UNCHANGED <<locked, online, rooms, inbox, fetches, pane, draft>>
  BY DEF SendStore
<1>3. messages \in Seq(MessageRow) /\ readBy \in Seq(SUBSET Members) /\ Len(readBy) = Len(messages)
      /\ \A i \in MessageIds : RowFits(i)
  BY DEF ChatInv, RowsFit
<1>4. row \in MessageRow /\ row.from = c.by /\ row.chan = ChannelOf(c.room)
  BY <1>1 DEF MessageRow, CallRow
<1>5. {c.by} \in SUBSET Members /\ Len(messages) \in Nat
  BY <1>1, <1>3, LiveChatAssumption
<1>6. PICK done \in CallRow :
          /\ calls' = (calls \ {c}) \cup {done} /\ done.at = "stored" /\ done.row = Len(messages) + 1
          /\ done.by = c.by /\ done.room = c.room /\ done.op = "send" /\ done.alive = c.alive
  <2>1. PICK n \in Nat : n = Len(messages) + 1
    BY <1>5
  <2> DEFINE d == [c EXCEPT !.at = "stored", !.row = n]
  <2>2. calls' = (calls \ {c}) \cup {d}
    BY <2>1 DEF SendStore
  <2>3. /\ d \in CallRow /\ d.at = "stored" /\ d.row = n
        /\ d.by = c.by /\ d.room = c.room /\ d.op = c.op /\ d.alive = c.alive
    BY <1>1, StoredCall
  <2> HIDE DEF d
  <2> QED
    BY <1>1, <2>1, <2>2, <2>3
<1> HIDE DEF row
<1>7. /\ messages' \in Seq(MessageRow) /\ readBy' \in Seq(SUBSET Members)
      /\ Len(readBy') = Len(messages') /\ Len(messages') = Len(messages) + 1
      /\ messages'[Len(messages) + 1] = row /\ readBy'[Len(messages) + 1] = {c.by}
      /\ \A i \in 1..Len(messages) : messages'[i] = messages[i] /\ readBy'[i] = readBy[i]
  BY <1>2, <1>3, <1>4, <1>5, AppendProperties
<1>8. MessageIds = 1..Len(messages) /\ MessageIds' = 1..(Len(messages) + 1)
  BY <1>3, <1>7 DEF MessageIds
<1>9. Kept
  BY <1>5, <1>7, <1>8 DEF Kept
<1>10. RowsFit'
  <2>1. ASSUME NEW i \in 1..(Len(messages) + 1) PROVE RowFits(i)'
    <3>1. CASE i = Len(messages) + 1
      BY <1>1, <1>4, <1>7, <3>1 DEF RowFits
    <3>2. CASE i \in 1..Len(messages)
      BY <1>3, <1>7, <1>8, <3>2 DEF RowFits
    <3> QED
      BY <1>5, <3>1, <3>2
  <2> QED
    BY <1>7, <1>8, <2>1 DEF RowsFit
<1>11. CallsFit'
  <2>1. CallFits(done)'
    BY <1>1, <1>2, <1>4, <1>5, <1>6, <1>7, <1>8 DEF CallFits
  <2> QED
    BY <1>2, <1>6, <1>9, <2>1, OneCall
<1> QED
  BY <1>2, <1>9, <1>10, <1>11, Frame DEF ChatInv

\* One more event in several inboxes.
LEMMA DeliveredAll ==
    ASSUME ChatInv, Kept, UNCHANGED online, inbox' = [u \in Panes |-> inbox'[u]],
           \A u \in Panes : \/ inbox'[u] = inbox[u]
                            \/ u \in online /\ \E e \in EventsFor(u) : inbox'[u] = Append(inbox[u], e)
    PROVE  InboxFits'
<1>1. ASSUME NEW u \in Panes
      PROVE  inbox'[u] \in Seq(EventsFor(u)) /\ (u \notin online => inbox'[u] = <<>>)
  <2>1. inbox[u] \in Seq(EventsFor(u)) /\ (u \notin online => inbox[u] = <<>>)
    BY DEF ChatInv, InboxFits
  <2>2. CASE inbox'[u] = inbox[u]
    BY <2>1, <2>2
  <2>3. ASSUME u \in online, NEW e \in EventsFor(u), inbox'[u] = Append(inbox[u], e)
        PROVE  inbox'[u] \in Seq(EventsFor(u))
    BY <2>1, <2>3, AppendProperties
  <2> QED
    BY <2>1, <2>2, <2>3
<1>2. DOMAIN inbox' = Panes
  OBVIOUS
<1> QED
  BY <1>1, <1>2, EventsKept, SeqOfMore DEF InboxFits

LEMMA EmitFits ==
    ASSUME ChatInv, NEW c \in calls, c.at \in {"stored", "told"}
    PROVE  /\ CallFits(c) /\ c \in CallRow /\ c.by \in Panes
           /\ \A u \in Panes : /\ u \in ConversationParties(c) => Message(c) \in EventsFor(u)
                               /\ \A ok \in BOOLEAN : Ack(c, ok) \in EventsFor(u)
<1>1. /\ CallFits(c) /\ c \in CallRow /\ c.by \in Panes
      /\ c.row \in MessageIds /\ messages[c.row].chan = ChannelOf(c.room)
  BY DEF ChatInv, CallsFit, CallFits, CallRow
<1>2. Message(c) \in EventRow /\ Message(c).row = c.row
  BY <1>1 DEF Message, EventRow, CallRow
<1>3. \A ok \in BOOLEAN : Ack(c, ok) \in EventRow /\ Ack(c, ok).kind = "ack"
  BY <1>1 DEF Ack, EventRow, CallRow
<1> QED
  BY <1>1, <1>2, <1>3 DEF EventsFor, MayRead, ConversationParties

LEMMA SendEmitKeeps ==
    ASSUME ChatInv, NEW c \in calls, SendEmit(c)
    PROVE  ChatInv'
<1>1. /\ CallFits(c) /\ c \in CallRow /\ c.op = "send" /\ c.at = "stored"
      /\ \A u \in Panes : u \in ConversationParties(c) => Message(c) \in EventsFor(u)
  BY EmitFits DEF SendEmit
<1>2. Kept /\ UNCHANGED <<locked, messages, readBy, online, rooms, fetches, pane, draft>>
  BY SameRowsKept DEF SendEmit
<1>3. ASSUME NEW u \in Panes
      PROVE  \/ inbox'[u] = inbox[u]
             \/ u \in online /\ \E e \in EventsFor(u) : inbox'[u] = Append(inbox[u], e)
  <2>1. CASE c.room \in rooms[u]
    <3>1. u \in ConversationParties(c) /\ u \in online
      BY <2>1 DEF ConversationParties, ChatInv, SocketsFit, SocketFits
    <3>2. inbox'[u] = Append(inbox[u], Message(c))
      BY <2>1 DEF SendEmit
    <3> QED
      BY <1>1, <3>1, <3>2
  <2>2. CASE c.room \notin rooms[u]
    BY <2>2 DEF SendEmit
  <2> QED
    BY <2>1, <2>2
<1>4. InboxFits'
  <2>1. inbox' = [u \in Panes |-> inbox'[u]]
    BY DEF SendEmit
  <2> QED
    BY <1>2, <1>3, <2>1, DeliveredAll
<1>5. CallsFit'
  <2>1. CallFits([c EXCEPT !.at = "told"])'
    BY <1>1, <1>2 DEF CallFits, CallRow, MessageIds
  <2> QED
    BY <1>2, <2>1, OneCall DEF SendEmit, At
<1> QED
  BY <1>2, <1>4, <1>5, Frame DEF ChatInv

LEMMA SendAnswerKeeps ==
    ASSUME ChatInv, NEW c \in calls, SendAnswer(c)
    PROVE  ChatInv'
<1>1. /\ CallFits(c) /\ c \in CallRow /\ c.by \in Panes /\ c.op = "send" /\ c.at = "told"
      /\ \A u \in Panes : /\ u \in ConversationParties(c) => Message(c) \in EventsFor(u)
                          /\ \A ok \in BOOLEAN : Ack(c, ok) \in EventsFor(u)
  BY EmitFits DEF SendAnswer
<1>2. Kept /\ UNCHANGED <<locked, messages, readBy, online, rooms, fetches, pane, draft>>
      /\ calls' \subseteq calls
  BY SameRowsKept DEF SendAnswer
<1>3. c.alive => c.by \in online
  BY <1>1 DEF CallFits
<1>4. CASE TellParties(c)
  <2>1. ASSUME NEW u \in Panes
        PROVE  \/ inbox'[u] = inbox[u]
               \/ u \in online /\ \E e \in EventsFor(u) : inbox'[u] = Append(inbox[u], e)
    <3>1. CASE u \in Audience(c)
      <4>1. u \in online /\ u \in ConversationParties(c) /\ inbox'[u] = Append(inbox[u], Message(c))
        BY <1>4, <3>1 DEF TellParties, Audience
      <4> QED
        BY <1>1, <4>1
    <3>2. CASE u \notin Audience(c) /\ u = c.by /\ c.alive
      BY <1>1, <1>3, <1>4, <3>2 DEF TellParties
    <3>3. CASE u \notin Audience(c) /\ ~(u = c.by /\ c.alive)
      BY <1>4, <3>3 DEF TellParties
    <3> QED
      BY <3>1, <3>2, <3>3
  <2>2. inbox' = [u \in Panes |-> inbox'[u]]
    BY <1>4 DEF TellParties
  <2>3. InboxFits'
    BY <1>2, <2>1, <2>2, DeliveredAll
  <2> QED
    BY <1>2, <2>3, NoNewCall, Frame DEF ChatInv
<1>5. CASE FailToTell(c)
  <2>1. CASE c.alive
    <3>1. Deliver(c.by, Ack(c, FALSE))
      BY <1>5, <2>1 DEF FailToTell
    <3>2. Ack(c, FALSE) \in EventsFor(c.by)'
      BY <1>1, <1>2, EventsKept
    <3>3. InboxFits'
      BY <1>1, <1>2, <1>3, <2>1, <3>1, <3>2, Delivered
    <3> QED
      BY <1>2, <3>3, NoNewCall, Frame DEF ChatInv
  <2>2. CASE ~c.alive
    BY <1>2, <1>5, <2>2, NoNewCall, Frame DEF FailToTell, ChatInv
  <2> QED
    BY <2>1, <2>2
<1> QED
  BY <1>4, <1>5 DEF SendAnswer

LEMMA FetchKeeps ==
    ASSUME ChatInv, NEW f \in fetches, FetchFind(f) \/ FetchMark(f) \/ FetchFails(f)
    PROVE  ChatInv'
<1>1. FetchFits(f) /\ f \in FetchRow
  BY DEF ChatInv, FetchesFit, FetchFits
<1>2. Kept /\ UNCHANGED <<locked, messages, online, rooms, inbox, calls, pane, draft>>
  BY SameRowsKept DEF FetchFind, FetchMark, FetchFails
<1>3. CASE FetchFind(f)
  <2>1. RowsOf(f.chan) \in SUBSET Nat /\ RowsOf(f.chan)' = RowsOf(f.chan)
    BY <1>2 DEF RowsOf, MessageIds, ChatInv, RowsFit
  <2>2. PICK rows \in SUBSET Nat : rows = RowsOf(f.chan)
    BY <2>1
  <2>3. FetchFits([f EXCEPT !.at = "found", !.got = rows])'
    BY <1>1, <1>3, <2>1, <2>2 DEF FetchFind, FetchFits, FetchRow
  <2>4. FetchesFit'
    BY <1>2, <1>3, <2>2, <2>3, OneFetch DEF FetchFind
  <2> QED
    BY <1>2, <1>3, <2>4, Frame DEF FetchFind, ChatInv
<1>4. CASE FetchMark(f)
  <2>1. readBy' = MarkedBy(f.by, f.chan) /\ f.chan \in Channels /\ f.by \in MembersOf(f.chan)
    BY <1>1, <1>4 DEF FetchMark, FetchFits, FetchRow
  <2>2. RowsFit'
    BY <1>2, <2>1, MarkKeeps
  <2>3. FetchFits([f EXCEPT !.at = "ready"])'
    BY <1>1, <1>2, <2>1 DEF FetchFits, FetchRow, RowsOf, MessageIds
  <2>4. FetchesFit'
    BY <1>2, <1>4, <2>3, OneFetch DEF FetchMark
  <2> QED
    BY <1>2, <2>2, <2>4, Frame DEF ChatInv
<1>5. CASE FetchFails(f)
  BY <1>2, <1>5, NoNewFetch, Frame DEF FetchFails, ChatInv
<1> QED
  BY <1>3, <1>4, <1>5

\* Edits of a pane, and what they come to.
ShowsOne(u, seen, shown) == pane' = [pane EXCEPT ![u].seen = seen, ![u].shown = shown]
ShowsAnswer(u, active, shown, tab) ==
    pane' = [pane EXCEPT ![u].active = active, ![u].shown = shown, ![u].tab = tab]

LEMMA OneShown ==
    ASSUME pane \in [Panes -> PaneRow], NEW u \in Panes, NEW seen \in SUBSET Nat,
           NEW shown \in SUBSET Nat, ShowsOne(u, seen, shown)
    PROVE  /\ pane' \in [Panes -> PaneRow] /\ pane'[u].shown = shown /\ pane'[u].seen = seen
           /\ \A v \in Panes : v # u => pane'[v] = pane[v]
<1> DEFINE Q == [pane EXCEPT ![u].seen = seen]
<1>1. Q \in [Panes -> PaneRow] /\ Q[u].seen = seen /\ \A v \in Panes : v # u => Q[v] = pane[v]
  BY DEF PaneRow
<1>2. pane' = [Q EXCEPT ![u].shown = shown]
  BY DEF ShowsOne
<1> HIDE DEF Q
<1> QED
  BY <1>1, <1>2 DEF PaneRow

LEMMA AnswerShown ==
    ASSUME pane \in [Panes -> PaneRow], NEW u \in Panes, NEW active \in Channels,
           NEW shown \in SUBSET Nat, NEW tab \in Channels, ShowsAnswer(u, active, shown, tab)
    PROVE  /\ pane' \in [Panes -> PaneRow] /\ pane'[u].shown = shown /\ pane'[u].seen = pane[u].seen
           /\ \A v \in Panes : v # u => pane'[v] = pane[v]
<1> DEFINE Q == [pane EXCEPT ![u].active = active]
           R == [Q EXCEPT ![u].shown = shown]
<1>1. Q \in [Panes -> PaneRow] /\ Q[u].seen = pane[u].seen /\ \A v \in Panes : v # u => Q[v] = pane[v]
  BY DEF PaneRow
<1>2. pane' = [R EXCEPT ![u].tab = tab]
  BY DEF ShowsAnswer
<1> HIDE DEF Q
<1>3. R \in [Panes -> PaneRow] /\ R[u].seen = pane[u].seen /\ R[u].shown = shown
      /\ \A v \in Panes : v # u => R[v] = pane[v]
  BY <1>1 DEF PaneRow
<1> HIDE DEF R
<1> QED
  BY <1>2, <1>3 DEF PaneRow

LEMMA FetchApplyKeeps ==
    ASSUME ChatInv, NEW f \in fetches, FetchApply(f)
    PROVE  ChatInv'
<1>1. /\ FetchFits(f) /\ f \in FetchRow /\ f.by \in Panes /\ f.chan \in Channels
      /\ f.by \in MembersOf(f.chan) /\ f.got \subseteq RowsOf(f.chan) /\ f.got \in SUBSET Nat
  BY DEF ChatInv, FetchesFit, FetchFits, FetchRow, FetchApply
<1>2. Kept /\ UNCHANGED <<locked, messages, readBy, online, rooms, inbox>> /\ fetches' \subseteq fetches
  BY SameRowsKept DEF FetchApply
<1>3. PanesFit'
  <2>1. pane \in [Panes -> PaneRow] /\ \A u \in Panes : \A i \in pane[u].shown \cup pane[u].seen : MayRead(u, i)
    BY DEF ChatInv, PanesFit
  <2>2. PICK tab \in Channels : tab = IF f.why = "tab" THEN f.chan ELSE pane[f.by].tab
    BY <1>1, <2>1 DEF PaneRow
  <2>3. ShowsAnswer(f.by, f.chan, f.got, tab)
    BY <1>1, <2>1, <2>2 DEF FetchApply, PaneRow, ShowsAnswer
  <2>4. /\ pane' \in [Panes -> PaneRow] /\ pane'[f.by].shown = f.got
        /\ pane'[f.by].seen = pane[f.by].seen /\ \A v \in Panes : v # f.by => pane'[v] = pane[v]
    BY <1>1, <2>1, <2>3, AnswerShown
  <2>5. \A i \in f.got : MayRead(f.by, i)
    BY <1>1 DEF RowsOf, MayRead
  <2> QED
    BY <1>1, <1>2, <2>1, <2>4, <2>5, ReadKept DEF PanesFit
<1>4. DraftsFit'
  BY DEF FetchApply, ChatInv, DraftsFit, DraftRow
<1>5. CallsFit'
  <2>1. CASE f.why = "tab" /\ f.by \in online
    <3>1. CallFits(Request("join", f.by, f.chan))'
      BY <1>1, <1>2, <2>1 DEF Request, CallFits, CallRow, TextOrNone, Channels, Rooms
    <3> QED
      BY <1>2, <2>1, <3>1, OneCall DEF FetchApply
  <2>2. CASE ~(f.why = "tab" /\ f.by \in online)
    BY <1>2, <2>2, NoNewCall DEF FetchApply
  <2> QED
    BY <2>1, <2>2
<1> QED
  BY <1>2, <1>3, <1>4, <1>5, Frame, NoNewFetch DEF ChatInv

\* What a pane hears first, and what is left to hear.
LEMMA Heard ==
    ASSUME ChatInv, NEW u \in Panes, inbox[u] # <<>>
    PROVE  /\ u \in online
           /\ Head(inbox[u]) \in EventsFor(u)
           /\ Tail(inbox[u]) \in Seq(EventsFor(u))
<1>1. inbox[u] \in Seq(EventsFor(u))
  BY DEF ChatInv, InboxFits
<1>2. u \in online
  BY DEF ChatInv, InboxFits
<1> QED
  BY <1>1, <1>2, HeadTailProperties

LEMMA HearKeeps ==
    ASSUME ChatInv, NEW u \in Panes, Hear(u)
    PROVE  ChatInv'
<1>1. PICK e \in EventsFor(u) : HearJoined(u, e) \/ HearMessage(u, e) \/ HearAck(u, e)
  BY Heard DEF Hear
<1>2. Kept /\ UNCHANGED <<locked, messages, readBy, online, rooms>>
  BY SameRowsKept DEF Hear
<1>3. e \in EventRow /\ e.room \in Rooms /\ e.row \in Nat /\ (e.kind = "message" => MayRead(u, e.row))
  BY DEF EventsFor, EventRow
<1>4. InboxFits'
  <2>1. u \in online /\ Tail(inbox[u]) \in Seq(EventsFor(u)) /\ inbox' = [inbox EXCEPT ![u] = Tail(@)]
    BY Heard DEF Hear
  <2> QED
    BY <1>2, <2>1, EventsKept, SeqOfMore DEF ChatInv, InboxFits
<1>5. pane \in [Panes -> PaneRow] /\ \A v \in Panes : \A i \in pane[v].shown \cup pane[v].seen : MayRead(v, i)
  BY DEF ChatInv, PanesFit
<1>6. CASE HearJoined(u, e)
  <2>1. FetchFits(Fetch(u, "ALL", "joined"))'
    BY DEF Fetch, FetchFits, FetchRow, Channels
  <2>2. FetchesFit' /\ UNCHANGED draft
    BY <1>2, <1>6, <2>1, OneFetch DEF HearJoined
  <2>3. PanesFit' /\ CallsFit'
    <3>1. CASE e.room = "ORDER"
      BY <1>2, <1>6, <3>1, Frame DEF HearJoined
    <3>2. CASE e.room # "ORDER"
      <4>1. e.room \in Channels /\ calls' = calls \cup {Request("read", u, e.room)}
            /\ pane' = [pane EXCEPT ![u].active = e.room]
        BY <1>3, <1>6, <3>2 DEF HearJoined, Rooms, Channels
      <4>2. CallFits(Request("read", u, e.room))'
        BY <1>3, <4>1 DEF Request, CallFits, CallRow, TextOrNone, Channels
      <4>3. PanesFit'
        BY <1>2, <1>5, <4>1, ReadKept DEF PanesFit, PaneRow
      <4> QED
        BY <1>2, <4>1, <4>2, <4>3, OneCall
    <3> QED
      BY <3>1, <3>2
  <2> QED
    BY <1>2, <1>4, <2>2, <2>3, Frame DEF ChatInv
<1>7. CASE HearMessage(u, e)
  <2>1. UNCHANGED fetches /\ MayRead(u, e.row)
    BY <1>3, <1>7 DEF HearMessage
  <2>2. messages[e.row].chan \in Channels
    <3>1. messages \in Seq(MessageRow) /\ e.row \in DOMAIN messages
      BY <2>1 DEF MayRead, ChatInv, RowsFit, MessageIds
    <3>2. messages[e.row] \in MessageRow
      BY <3>1
    <3> QED
      BY <3>2 DEF MessageRow
  <2>3. CallsFit'
    <3>1. CallFits(Request("read", u, messages[e.row].chan))'
      BY <1>2, <2>2 DEF Request, CallFits, CallRow, TextOrNone, Channels, Rooms
    <3> QED
      BY <1>2, <1>7, <3>1, OneCall DEF HearMessage
  <2>4. PanesFit'
    <3>1. CASE e.row \in pane[u].seen
      BY <1>2, <1>7, <3>1, Frame DEF HearMessage
    <3>2. CASE e.row \notin pane[u].seen
      <4>1. PICK seen \in SUBSET Nat : seen = pane[u].seen \cup {e.row}
        BY <1>3, <1>5 DEF PaneRow
      <4>2. PICK shown \in SUBSET Nat :
                  /\ shown \in {pane[u].shown, pane[u].shown \cup {e.row}}
                  /\ ShowsOne(u, seen, shown)
        <5>1. pane[u].shown \in SUBSET Nat
          BY <1>5 DEF PaneRow
        <5> QED
          BY <1>3, <1>5, <1>7, <3>2, <4>1, <5>1 DEF HearMessage, ShowsOne
      <4>3. /\ pane' \in [Panes -> PaneRow] /\ pane'[u].shown = shown /\ pane'[u].seen = seen
            /\ \A v \in Panes : v # u => pane'[v] = pane[v]
        BY <1>5, <4>2, OneShown
      <4> QED
        BY <1>2, <1>5, <2>1, <4>1, <4>2, <4>3, ReadKept DEF PanesFit
    <3> QED
      BY <3>1, <3>2
  <2>5. DraftsFit'
    <3>1. draft' \in {draft, [draft EXCEPT ![e.text].state = "SENT"]}
      BY <1>7 DEF HearMessage
    <3> QED
      BY <3>1 DEF ChatInv, DraftsFit, DraftRow
  <2> QED
    BY <1>2, <1>4, <2>1, <2>3, <2>4, <2>5, Frame DEF ChatInv
<1>8. CASE HearAck(u, e)
  <2>1. UNCHANGED <<calls, fetches>> /\ pane' = [pane EXCEPT ![u].waiting = ""]
    BY <1>8 DEF HearAck
  <2>2. PanesFit'
    BY <1>2, <1>5, <2>1, ReadKept DEF PanesFit, PaneRow, TextOrNone
  <2>3. DraftsFit'
    BY <1>8 DEF HearAck, ChatInv, DraftsFit, DraftRow
  <2> QED
    BY <1>2, <1>4, <2>1, <2>2, <2>3, Frame DEF ChatInv
<1> QED
  BY <1>1, <1>6, <1>7, <1>8

LEMMA SendTextKeeps ==
    ASSUME ChatInv, NEW u \in Panes, NEW t \in Texts, NEW n \in Nat, SendText(u, t, n)
    PROVE  ChatInv'
<1>1. Kept /\ UNCHANGED <<locked, messages, readBy, online, rooms, inbox, fetches>>
      /\ draft' = [draft EXCEPT ![t] = [state |-> "SENDING", by |-> u, try |-> n]]
      /\ pane' = [pane EXCEPT ![u].waiting = t]
  BY SameRowsKept DEF SendText
<1>2. pane \in [Panes -> PaneRow] /\ \A v \in Panes : \A i \in pane[v].shown \cup pane[v].seen : MayRead(v, i)
  BY DEF ChatInv, PanesFit
<1>3. PanesFit'
  BY <1>1, <1>2, ReadKept DEF PanesFit, PaneRow, TextOrNone
<1>4. DraftsFit'
  BY <1>1 DEF ChatInv, DraftsFit, DraftRow
<1>5. CallsFit'
  <2>1. PICK room \in Rooms : room = IF pane[u].active = "NONE" THEN Base(u) ELSE pane[u].active
    BY <1>2, BaseIsRoom DEF PaneRow, Channels, Rooms
  <2>2. PICK tab \in Channels : tab = pane[u].tab
    BY <1>2 DEF PaneRow
  <2>3. PICK c : c = Send(u, room, t, n, tab)
    OBVIOUS
  <2>4. c = [op |-> "send", by |-> u, room |-> room, at |-> IF u \in online THEN "sent" ELSE "buffered",
             alive |-> TRUE, text |-> t, try |-> n, under |-> tab, row |-> 0]
    BY <2>3 DEF Send, Request
  <2>5. CallFits(c)'
    BY <1>1, <2>4 DEF CallFits, CallRow, TextOrNone
  <2>6. calls' = calls \cup {c}
    BY <2>1, <2>2, <2>3 DEF SendText
  <2> QED
    BY <1>1, <2>5, <2>6, OneCall
<1> QED
  BY <1>1, <1>3, <1>4, <1>5, Frame DEF ChatInv

LEMMA TypingKeeps ==
    ASSUME ChatInv, NEW u \in Panes, NEW t \in Texts, Type(u, t) \/ Retry(u, t)
    PROVE  ChatInv'
<1>1. PICK n \in Nat : SendText(u, t, n)
  <2>1. CASE Type(u, t)
    BY <2>1 DEF Type
  <2>2. CASE Retry(u, t)
    <3>1. draft[t].try + 1 \in Nat
      <4>1. draft[t] \in DraftRow
        BY DEF ChatInv, DraftsFit
      <4>2. draft[t].try \in Nat
        BY <4>1 DEF DraftRow
      <4> QED
        BY <4>2
    <3>2. SendText(u, t, draft[t].try + 1)
      BY <2>2 DEF Retry
    <3> QED
      BY <3>1, <3>2
  <2> QED
    BY <2>1, <2>2
<1> QED
  BY <1>1, SendTextKeeps

LEMMA AckTimeoutKeeps ==
    ASSUME ChatInv, NEW u \in Panes, AckTimeout(u)
    PROVE  ChatInv'
<1>1. Kept /\ UNCHANGED <<locked, messages, readBy, online, rooms, inbox, calls, fetches>>
      /\ pane' = [pane EXCEPT ![u].waiting = ""]
  BY SameRowsKept DEF AckTimeout
<1>2. PanesFit'
  BY <1>1, ReadKept DEF ChatInv, PanesFit, PaneRow, TextOrNone
<1>3. DraftsFit'
  BY DEF AckTimeout, ChatInv, DraftsFit, DraftRow
<1> QED
  BY <1>1, <1>2, <1>3, Frame DEF ChatInv

LEMMA SwitchTabKeeps ==
    ASSUME ChatInv, NEW u \in Panes, NEW c \in Channels, SwitchTab(u, c)
    PROVE  ChatInv'
<1>1. Kept /\ UNCHANGED <<locked, messages, readBy, online, rooms, inbox, calls, pane, draft>>
      /\ fetches' = fetches \cup {Fetch(u, c, "tab")}
  BY SameRowsKept DEF SwitchTab
<1>2. FetchFits(Fetch(u, c, "tab"))'
  BY DEF Fetch, FetchFits, FetchRow
<1> QED
  BY <1>1, <1>2, OneFetch, Frame DEF ChatInv

LEMMA LockKeeps ==
    ASSUME ChatInv, LockOrder
    PROVE  ChatInv'
<1>1. Kept /\ UNCHANGED <<messages, readBy, online, rooms, inbox, calls, fetches, pane, draft>>
      /\ locked' = TRUE
  BY SameRowsKept DEF LockOrder
<1> QED
  BY <1>1, Frame DEF ChatInv

LEMMA EmptyIsSeq == \A S : <<>> \in Seq(S) /\ Len(<<>>) = 0 /\ DOMAIN <<>> = {}
OBVIOUS

LEMMA ChatStarts == ChatInit => ChatInv
<1> SUFFICES ASSUME ChatInit PROVE ChatInv
  OBVIOUS
<1> USE LiveChatAssumption
<1>1. RowsFit
  BY EmptyIsSeq DEF ChatInit, RowsFit, MessageIds
<1>2. SocketsFit
  BY DEF ChatInit, SocketsFit, SocketFits, Rooms, ChannelOf, MembersOf
<1>3. InboxFits
  BY EmptyIsSeq DEF ChatInit, InboxFits
<1>4. CallsFit /\ FetchesFit
  BY DEF ChatInit, CallsFit, FetchesFit
<1>5. PanesFit
  BY DEF ChatInit, NewPane, PanesFit, PaneRow, TextOrNone, Channels
<1>6. DraftsFit /\ locked \in BOOLEAN
  BY DEF ChatInit, DraftsFit, DraftRow
<1> QED
  BY <1>1, <1>2, <1>3, <1>4, <1>5, <1>6 DEF ChatInv

LEMMA ChatGoesOn == ChatInv /\ [ChatNext]_chatVars => ChatInv'
<1> SUFFICES ASSUME ChatInv, [ChatNext]_chatVars PROVE ChatInv'
  OBVIOUS
<1>1. CASE UNCHANGED chatVars
  BY <1>1, SameRowsKept, Frame DEF chatVars, ChatInv
<1>2. CASE \E u \in Panes :
          \/ Connect(u) \/ Disconnect(u) \/ Hear(u) \/ AckTimeout(u)
          \/ \E t \in Texts : Type(u, t) \/ Retry(u, t)
          \/ \E c \in Channels : SwitchTab(u, c)
  BY <1>2, ConnectKeeps, DisconnectKeeps, HearKeeps, AckTimeoutKeeps, TypingKeeps, SwitchTabKeeps
<1>3. CASE \E c \in calls : JoinLoad(c) \/ JoinEnter(c) \/ Read(c)
                           \/ SendCheck(c) \/ SendStore(c) \/ SendEmit(c) \/ SendAnswer(c)
  BY <1>3, JoinKeeps, ReadKeeps, SendCheckKeeps, SendStoreKeeps, SendEmitKeeps, SendAnswerKeeps
<1>4. CASE \E f \in fetches : FetchFind(f) \/ FetchMark(f) \/ FetchApply(f) \/ FetchFails(f)
  BY <1>4, FetchKeeps, FetchApplyKeeps
<1>5. CASE LockOrder
  BY <1>5, LockKeeps
<1> QED
  BY <1>1, <1>2, <1>3, <1>4, <1>5 DEF ChatNext

LEMMA ChatInvariance == ChatSpec => []ChatInv
<1>1. ChatInit => ChatInv
  BY ChatStarts
<1>2. ChatInv /\ [ChatNext]_chatVars => ChatInv'
  BY ChatGoesOn
<1> QED
  BY <1>1, <1>2, PTL DEF ChatSpec

-----------------------------------------------------------------------------
(* The theorems. *)

(* Rows, read flags and sockets stay well formed: who wrote a message has     *)
(* read it, only parties of a conversation do, and a lost socket is in no     *)
(* room (messages.service.ts, messages.gateway.ts).                           *)
THEOREM ChatTyped == ChatSpec => []ChatTypeOK
<1>1. ChatInv => ChatTypeOK
  <2> SUFFICES ASSUME ChatInv PROVE ChatTypeOK
    OBVIOUS
  <2>1. /\ messages \in Seq(MessageRow) /\ readBy \in Seq(SUBSET Members)
        /\ Len(readBy) = Len(messages) /\ \A i \in MessageIds : RowFits(i)
    BY DEF ChatInv, RowsFit
  <2>2. DOMAIN readBy = MessageIds /\ \A i \in MessageIds : messages[i] \in MessageRow
    BY <2>1 DEF MessageIds
  <2> QED
    BY <2>1, <2>2 DEF ChatInv, ChatTypeOK, RowFits, MessageRow, SocketsFit, SocketFits, InboxFits,
                      PanesFit, MayRead
<1> QED
  BY <1>1, ChatInvariance, PTL

(* No pane of another party ever holds a message of a private conversation    *)
(* (getConversationParties, handleJoin, getMessagesByConversationId).         *)
THEOREM PrivateStaysPrivate == ChatSpec => []PairStaysPrivate
<1>1. ChatInv => PairStaysPrivate
  BY DEF ChatInv, PanesFit, MayRead, MembersOf, PairStaysPrivate
<1> QED
  BY <1>1, ChatInvariance, PTL

-----------------------------------------------------------------------------
(* What is under way, and what a step does to it. *)

Events(u) == Range(inbox[u])

\* The same request, further on.
SameCall(c, d) == /\ d.op = c.op /\ d.by = c.by /\ d.room = c.room
                  /\ d.text = c.text /\ d.try = c.try
SameRow(c, d) == c.at \in {"stored", "told"} => d.at = c.at /\ d.row = c.row
NewRequest(d) ==
    /\ d.op \in {"join", "read"} /\ d.at = "sent"
    /\ \/ \E f \in fetches : f.why = "tab" /\ f.by = d.by
       \/ d.room \in {Base(d.by), pane[d.by].active}
       \/ \E c \in calls : c.by = d.by /\ d.room = ChannelOf(c.room)
       \/ \E e \in Events(d.by) : e.kind = "joined" /\ d.room = e.room
Successor(c) == IF c \in calls' THEN c ELSE [c EXCEPT !.alive = FALSE]
Proceeds(c, d) ==
    /\ SameCall(c, d)
    /\ d.alive => c.alive
    /\ d.at \in {"stored", "told"} => c.at = d.at /\ d.row = c.row /\ d = Successor(c)
    /\ d.at = "checked" => d.op = "send" \/ c.at = "checked"
    /\ c.at = "told" => d.at = "told"
StoredAs(c, d) ==
    /\ SendStore(c)
    /\ calls' = (calls \ {c}) \cup {d}
    /\ SameCall(c, d)
    /\ d.at = "stored" /\ d.row = Len(messages) + 1 /\ d.alive = c.alive
ToldAs(c, d) ==
    /\ SendEmit(c)
    /\ calls' = (calls \ {c}) \cup {d}
    /\ SameCall(c, d)
    /\ d.at = "told" /\ d.row = c.row /\ d.alive = c.alive
Says(u, t, n) ==
    /\ SendText(u, t, n)
    /\ \/ draft[t].state = "NEW" /\ n = 1
       \/ draft[t].state = "FAILED" /\ n = draft[t].try + 1
NewSend(d) == \E u \in Panes, t \in Texts, n \in Nat :
    /\ Says(u, t, n)
    /\ d.op = "send" /\ d.by = u /\ d.text = t /\ d.try = n /\ d.alive
    /\ d.at \in {"sent", "buffered"}
    /\ d.room = IF pane[u].active = "NONE" THEN Base(u) ELSE pane[u].active

LEMMA EventsFitting ==
    ASSUME ChatInv, NEW u \in Panes
    PROVE  Events(u) \subseteq EventsFor(u)
BY RangeOfSeq DEF Events, ChatInv, InboxFits

LEMMA AppendedRange ==
    ASSUME NEW S, NEW s \in Seq(S), NEW e
    PROVE  Range(Append(s, e)) = Range(s) \cup {e}
<1>1. DOMAIN Append(s, e) = 1..(Len(s) + 1) /\ DOMAIN s = 1..Len(s) /\ Len(s) \in Nat
  OBVIOUS
<1>2. Append(s, e)[Len(s) + 1] = e /\ \A k \in 1..Len(s) : Append(s, e)[k] = s[k]
  OBVIOUS
<1> QED
  BY <1>1, <1>2 DEF Range

LEMMA HeardRange ==
    ASSUME NEW S, NEW s \in Seq(S), s # <<>>
    PROVE  Range(s) = Range(Tail(s)) \cup {Head(s)}
<1>1. PICK first : first = <<Head(s)>>
  OBVIOUS
<1>2. s = first \o Tail(s) /\ Tail(s) \in Seq(S) /\ first \in Seq(S)
  BY <1>1, HeadTailProperties
<1>3. Range(first) = {Head(s)}
  BY <1>1 DEF Range
<1>4. Range(first \o Tail(s)) = Range(first) \cup Range(Tail(s))
  BY <1>2, RangeConcatenation
<1> QED
  BY <1>2, <1>3, <1>4

LEMMA DeliveredEvents ==
    ASSUME ChatInv, NEW u \in Panes, NEW e, Deliver(u, e)
    PROVE  /\ Events(u)' = Events(u) \cup {e}
           /\ \A v \in Panes : v # u => Events(v)' = Events(v)
<1>1. inbox[u] \in Seq(EventsFor(u)) /\ inbox'[u] = Append(inbox[u], e)
  BY DEF Deliver, ChatInv, InboxFits
<1>2. \A v \in Panes : v # u => inbox'[v] = inbox[v]
  BY DEF Deliver, ChatInv, InboxFits
<1> QED
  BY <1>1, <1>2, AppendedRange DEF Events

LEMMA HearEvents ==
    ASSUME ChatInv, NEW u \in Panes, Hear(u)
    PROVE  \E e \in Events(u) :
              /\ HearJoined(u, e) \/ HearMessage(u, e) \/ HearAck(u, e)
              /\ Events(u) = Events(u)' \cup {e}
              /\ \A v \in Panes : v # u => Events(v)' = Events(v)
<1>1. inbox[u] \in Seq(EventsFor(u)) /\ inbox[u] # <<>> /\ inbox'[u] = Tail(inbox[u])
  BY DEF Hear, ChatInv, InboxFits
<1>2. \A v \in Panes : v # u => inbox'[v] = inbox[v]
  BY DEF Hear, ChatInv, InboxFits
<1>3. Events(u) = Events(u)' \cup {Head(inbox[u])} /\ Head(inbox[u]) \in Events(u)
  BY <1>1, HeardRange DEF Events
<1>4. \A v \in Panes : v # u => Events(v)' = Events(v)
  BY <1>2 DEF Events
<1>5. LET e == Head(inbox[u]) IN HearJoined(u, e) \/ HearMessage(u, e) \/ HearAck(u, e)
  BY DEF Hear
<1> QED
  BY <1>3, <1>4, <1>5

LEMMA EmittedEvents ==
    ASSUME ChatInv, NEW c \in calls, SendEmit(c), NEW u \in Panes
    PROVE  Events(u)' = Events(u) \cup (IF c.room \in rooms[u] THEN {Message(c)} ELSE {})
<1>1. inbox[u] \in Seq(EventsFor(u))
  BY DEF ChatInv, InboxFits
<1>2. CASE c.room \in rooms[u]
  <2>1. inbox'[u] = Append(inbox[u], Message(c))
    BY <1>2 DEF SendEmit
  <2> QED
    BY <1>1, <1>2, <2>1, AppendedRange DEF Events
<1>3. CASE c.room \notin rooms[u]
  BY <1>3 DEF SendEmit, Events
<1> QED
  BY <1>2, <1>3

\* What a pane has heard of a message, or is about to hear first.
LEMMA DroppedEvents ==
    ASSUME ChatInv, NEW u \in Panes, NEW i
    PROVE  Dropped(u, i) <=> \/ i \in pane[u].seen
                             \/ \E e \in Events(u) : e.kind = "message" /\ e.row = i
BY DEF Dropped, Events, Range

LEMMA AnsweredEvents ==
    ASSUME ChatInv, NEW c \in calls, SendAnswer(c), NEW u \in Panes
    PROVE  /\ Events(u) \subseteq Events(u)'
           /\ \A e \in Events(u)' :
                 \/ e \in Events(u)
                 \/ u \in Audience(c) /\ e = Message(c)
                 \/ u = c.by /\ c.alive /\ \E ok \in BOOLEAN : e = Ack(c, ok) /\ (ok \/ "UNTOLD" \in mishaps')
           /\ TellParties(c) /\ u \in Audience(c) => Message(c) \in Events(u)'
           /\ u = c.by /\ c.alive => \E ok \in BOOLEAN : Ack(c, ok) \in Events(u)'
           /\ TellParties(c) \/ "UNTOLD" \in mishaps'
<1>0. inbox[u] \in Seq(EventsFor(u)) /\ DOMAIN inbox = Panes /\ c.by \in Panes
  BY DEF ChatInv, InboxFits, CallsFit, CallFits, CallRow
<1>1. \A e : inbox'[u] = Append(inbox[u], e) => Events(u)' = Events(u) \cup {e}
  BY <1>0, AppendedRange DEF Events
<1>2. inbox'[u] = inbox[u] => Events(u)' = Events(u)
  BY DEF Events
<1>3. CASE TellParties(c)
  <2>1. u = c.by /\ c.alive => u \notin Audience(c)
    BY DEF Audience
  <2>2. inbox'[u] = IF u \in Audience(c) THEN Append(inbox[u], Message(c))
                    ELSE IF u = c.by /\ c.alive THEN Append(inbox[u], Ack(c, TRUE))
                    ELSE inbox[u]
    BY <1>3 DEF TellParties
  <2>3. CASE u \in Audience(c)
    <3>1. Events(u)' = Events(u) \cup {Message(c)}
      BY <1>1, <2>2, <2>3
    <3> QED
      BY <1>3, <2>1, <2>3, <3>1
  <2>4. CASE u \notin Audience(c) /\ u = c.by /\ c.alive
    <3>1. Events(u)' = Events(u) \cup {Ack(c, TRUE)}
      BY <1>1, <2>2, <2>4
    <3>2. TRUE \in BOOLEAN /\ Ack(c, TRUE) \in Events(u)'
      BY <3>1
    <3> QED
      BY <1>3, <2>4, <3>1, <3>2
  <2>5. CASE u \notin Audience(c) /\ ~(u = c.by /\ c.alive)
    <3>1. Events(u)' = Events(u)
      BY <1>2, <2>2, <2>5
    <3> QED
      BY <1>3, <2>5, <3>1
  <2> QED
    BY <2>3, <2>4, <2>5
<1>4. CASE FailToTell(c) /\ ~TellParties(c)
  <2>1. "UNTOLD" \in mishaps'
    BY <1>4 DEF FailToTell, Note
  <2>2. inbox'[u] = IF u = c.by /\ c.alive THEN Append(inbox[u], Ack(c, FALSE)) ELSE inbox[u]
    BY <1>0, <1>4 DEF FailToTell, Deliver
  <2>3. CASE u = c.by /\ c.alive
    <3>1. Events(u)' = Events(u) \cup {Ack(c, FALSE)}
      BY <1>1, <2>2, <2>3
    <3>2. FALSE \in BOOLEAN /\ Ack(c, FALSE) \in Events(u)'
      BY <3>1
    <3> QED
      BY <1>4, <2>1, <2>3, <3>1, <3>2
  <2>4. CASE ~(u = c.by /\ c.alive)
    <3>1. Events(u)' = Events(u)
      BY <1>2, <2>2, <2>4
    <3> QED
      BY <1>4, <2>1, <2>4, <3>1
  <2> QED
    BY <2>3, <2>4
<1> QED
  BY <1>3, <1>4 DEF SendAnswer

LEMMA SameEvents == UNCHANGED inbox => \A u \in Panes : Events(u)' = Events(u)
BY DEF Events

LEMMA NoEvents == \A u \in Panes : inbox[u] = <<>> => Events(u) = {}
BY EmptyIsSeq DEF Events, Range

\* Edits of a request.
LEMMA MovedCall ==
    ASSUME NEW c \in CallRow, NEW w \in {"buffered", "sent", "entering", "checked", "stored", "told"}
    PROVE  LET d == [c EXCEPT !.at = w]
           IN  SameCall(c, d) /\ d.alive = c.alive /\ d.at = w /\ d.row = c.row
BY DEF SameCall, CallRow

LEMMA TypingSends ==
    ASSUME ChatInv, NEW u \in Panes, NEW t \in Texts, Type(u, t) \/ Retry(u, t)
    PROVE  \E n \in Nat : Says(u, t, n)
<1>1. CASE Type(u, t)
  BY <1>1 DEF Type, Says
<1>2. CASE Retry(u, t)
  <2>1. draft[t].try \in Nat
    <3>1. draft[t] \in DraftRow
      BY DEF ChatInv, DraftsFit
    <3> QED
      BY <3>1 DEF DraftRow
  <2>2. draft[t].try + 1 \in Nat
    BY <2>1
  <2> QED
    BY <1>2, <2>2 DEF Retry, Says
<1> QED
  BY <1>1, <1>2

\* Where a request comes from.
LEMMA CallsCome ==
    ASSUME ChatInv, [ChatNext]_chatVars, NEW d \in calls'
    PROVE  \/ \E c \in calls : Proceeds(c, d)
           \/ NewRequest(d)
           \/ NewSend(d)
           \/ \E c \in calls : StoredAs(c, d) \/ ToldAs(c, d)
<1> DEFINE old == \E c \in calls : Proceeds(c, d)
           stored == \E c \in calls : StoredAs(c, d) \/ ToldAs(c, d)
<1> SUFFICES old \/ NewRequest(d) \/ NewSend(d) \/ stored
  OBVIOUS
<1>1. d \in calls => old
  BY DEF SameCall, Proceeds, Successor
<1>2. \A c \in calls : c \in CallRow
  BY DEF ChatInv, CallsFit, CallFits
<1>3. ASSUME NEW u \in Panes, Connect(u) PROVE old \/ NewRequest(d)
  <2>1. CASE d = Request("join", u, Base(u))
    BY <2>1 DEF Request, NewRequest
  <2>2. CASE \E c \in calls : d = IF c.by = u /\ c.at = "buffered" THEN [c EXCEPT !.at = "sent"] ELSE c
    <3>1. PICK c \in calls : d = IF c.by = u /\ c.at = "buffered" THEN [c EXCEPT !.at = "sent"] ELSE c
      BY <2>2
    <3>2. CASE d = [c EXCEPT !.at = "sent"] /\ c.at = "buffered"
      <4>1. SameCall(c, d) /\ d.alive = c.alive /\ d.at = "sent" /\ c.at # "told"
        BY <1>2, <3>2, MovedCall
      <4> QED
        BY <4>1 DEF Proceeds
    <3>3. CASE d = c
      BY <1>1, <3>3
    <3> QED
      BY <3>1, <3>2, <3>3
  <2> QED
    BY <1>3, <2>1, <2>2 DEF Connect
<1>4. ASSUME NEW u \in Panes, Disconnect(u) PROVE old \/ NewRequest(d)
  <2>1. CASE \E c \in calls : c.by = u /\ d = Orphan(c)
    <3>1. PICK c \in calls : c.by = u /\ d = Orphan(c)
      BY <2>1
    <3>2. CASE c.op = "join"
      <4>1. d.op = "read" /\ d.at = "sent" /\ d.by = c.by /\ d.room = ChannelOf(c.room)
        BY <3>1, <3>2 DEF Orphan, Request
      <4> QED
        BY <4>1 DEF NewRequest
    <3>3. CASE c.op # "join"
      <4>1. SameCall(c, d) /\ ~d.alive /\ d.at = c.at /\ d.row = c.row
        BY <1>2, <3>1, <3>3 DEF Orphan, SameCall, CallRow
      <4>2. d = [c EXCEPT !.alive = FALSE]
        BY <3>1, <3>3 DEF Orphan
      <4>3. ASSUME c \in calls' PROVE d = c
        <5>1. PICK x \in calls : x.by = u /\ c = Orphan(x)
          BY <1>4, <3>1, <4>3 DEF Disconnect
        <5>2. c.alive = FALSE
          BY <1>2, <5>1 DEF Orphan, Request, CallRow
        <5> QED
          BY <1>2, <4>2, <5>2 DEF CallRow
      <4> QED
        BY <4>1, <4>2, <4>3 DEF Proceeds, Successor
    <3> QED
      BY <3>2, <3>3
  <2> QED
    BY <1>1, <1>4, <2>1 DEF Disconnect
<1>5. ASSUME NEW u \in Panes, Hear(u) PROVE old \/ NewRequest(d)
  <2>1. PICK e \in Events(u) : HearJoined(u, e) \/ HearMessage(u, e) \/ HearAck(u, e)
    BY <1>5, HearEvents
  <2>2. CASE HearJoined(u, e)
    <3>1. CASE d = Request("read", u, e.room)
      BY <2>2, <3>1 DEF NewRequest, Request, HearJoined
    <3> QED
      BY <1>1, <2>2, <3>1 DEF HearJoined
  <2>3. CASE HearMessage(u, e)
    <3>1. CASE d = Request("read", u, pane[u].active)
      BY <3>1 DEF NewRequest, Request
    <3> QED
      BY <1>1, <2>3, <3>1 DEF HearMessage
  <2>4. CASE HearAck(u, e)
    BY <1>1, <2>4 DEF HearAck
  <2> QED
    BY <2>1, <2>2, <2>3, <2>4
<1>6. ASSUME NEW u \in Panes, NEW t \in Texts, NEW n \in Nat, Says(u, t, n) PROVE old \/ NewSend(d)
  <2> DEFINE room == IF pane[u].active = "NONE" THEN Base(u) ELSE pane[u].active
  <2>1. d \in calls \/ d = Send(u, room, t, n, pane[u].tab)
    BY <1>6 DEF Says, SendText
  <2>2. CASE d = Send(u, room, t, n, pane[u].tab)
    <3>1. /\ d.op = "send" /\ d.by = u /\ d.text = t /\ d.try = n /\ d.alive
          /\ d.at \in {"sent", "buffered"} /\ d.room = room
      BY <2>2 DEF Send, Request
    <3> QED
      BY <1>6, <3>1 DEF NewSend
  <2> QED
    BY <1>1, <2>1, <2>2
<1>7. ASSUME NEW c \in calls, JoinLoad(c) \/ SendCheck(c) PROVE old
  <2>1. CASE d \in calls
    BY <1>1, <2>1
  <2>2. CASE d = [c EXCEPT !.at = "entering"]
    <3>1. SameCall(c, d) /\ d.alive = c.alive /\ d.at = "entering" /\ c.at # "told"
      BY <1>2, <1>7, <2>2, MovedCall DEF JoinLoad, SendCheck
    <3> QED
      BY <3>1 DEF Proceeds
  <2>3. CASE d = [c EXCEPT !.at = "checked"] /\ c.op = "send"
    <3>1. SameCall(c, d) /\ d.alive = c.alive /\ d.at = "checked" /\ c.at # "told"
      BY <1>2, <1>7, <2>3, MovedCall DEF JoinLoad, SendCheck
    <3> QED
      BY <2>3, <3>1 DEF SameCall, Proceeds
  <2> QED
    BY <1>7, <2>1, <2>2, <2>3 DEF JoinLoad, SendCheck, Refuse, Pass, At
<1>8. ASSUME NEW c \in calls, SendStore(c)
      PROVE  old \/ stored
  <2>1. CASE d = [c EXCEPT !.at = "stored", !.row = Len(messages) + 1]
    <3>1. SameCall(c, d) /\ d.at = "stored" /\ d.row = Len(messages) + 1
          /\ d.alive = c.alive
      BY <1>2, <2>1 DEF SameCall, CallRow
    <3> QED
      BY <1>8, <2>1, <3>1 DEF SendStore, StoredAs
  <2> QED
    BY <1>1, <1>8, <2>1 DEF SendStore
<1>9. ASSUME NEW f \in fetches, FetchApply(f) PROVE old \/ NewRequest(d)
  <2>1. CASE d = Request("join", f.by, f.chan) /\ f.why = "tab"
    <3>1. d.op = "join" /\ d.at = "sent" /\ d.by = f.by
      BY <2>1 DEF Request
    <3> QED
      BY <2>1, <3>1 DEF NewRequest
  <2> QED
    BY <1>1, <1>9, <2>1 DEF FetchApply
<1>17. ASSUME NEW c \in calls, SendEmit(c)
       PROVE  old \/ stored
  <2>1. CASE d = [c EXCEPT !.at = "told"]
    <3>1. SameCall(c, d) /\ d.at = "told" /\ d.row = c.row /\ d.alive = c.alive
      BY <1>2, <2>1, MovedCall
    <3> QED
      BY <1>17, <2>1, <3>1 DEF SendEmit, At, ToldAs
  <2> QED
    BY <1>1, <1>17, <2>1 DEF SendEmit, At
<1>10. calls' \subseteq calls => old
  BY <1>1
<1> HIDE DEF old, stored
<1>11. CASE \E u \in Panes : \/ Connect(u) \/ Disconnect(u) \/ Hear(u)
                             \/ \E t \in Texts : Type(u, t) \/ Retry(u, t)
  BY <1>3, <1>4, <1>5, <1>6, <1>11, TypingSends
<1>12. CASE \E u \in Panes : AckTimeout(u) \/ \E c \in Channels : SwitchTab(u, c)
  BY <1>10, <1>12 DEF AckTimeout, SwitchTab
<1>13. CASE \E c \in calls : JoinLoad(c) \/ SendCheck(c) \/ SendStore(c) \/ SendEmit(c)
  BY <1>7, <1>8, <1>13, <1>17
<1>14. CASE \E c \in calls : JoinEnter(c) \/ Read(c) \/ SendAnswer(c)
  BY <1>10, <1>14 DEF JoinEnter, Read, SendAnswer
<1>15. CASE \E f \in fetches : FetchFind(f) \/ FetchMark(f) \/ FetchFails(f) \/ FetchApply(f)
  BY <1>9, <1>10, <1>15 DEF FetchFind, FetchMark, FetchFails
<1>16. CASE LockOrder \/ UNCHANGED chatVars
  BY <1>10, <1>16 DEF LockOrder, chatVars
<1> QED
  BY <1>11, <1>12, <1>13, <1>14, <1>15, <1>16 DEF ChatNext

\* Where a request goes.
Goes(c, d) == SameCall(c, d) /\ SameRow(c, d) /\ d.alive = c.alive /\ (d.at = "told" => c.at = "told")
Refused(c) ==
    /\ SendCheck(c)
    /\ calls' = calls \ {c}
    /\ c.alive => Deliver(c.by, Ack(c, FALSE))

LEMMA CallsGo ==
    ASSUME ChatInv, [ChatNext]_chatVars, NEW c \in calls, c.at \in {"stored", "told"} => c.op = "send"
    PROVE  \/ \E d \in calls' : Goes(c, d)
           \/ /\ rooms'[c.by] = {}
              /\ c.at \in {"stored", "told"} => \E d \in calls' : SameCall(c, d) /\ SameRow(c, d)
           \/ JoinEnter(c) \/ Read(c) \/ SendEmit(c) \/ SendAnswer(c) \/ Refused(c)
<1> DEFINE goes == \E d \in calls' : Goes(c, d)
           lost == /\ rooms'[c.by] = {}
                   /\ c.at \in {"stored", "told"} => \E d \in calls' : SameCall(c, d) /\ SameRow(c, d)
<1> SUFFICES goes \/ lost \/ JoinEnter(c) \/ Read(c) \/ SendEmit(c) \/ SendAnswer(c) \/ Refused(c)
  OBVIOUS
<1>1. c \in calls' => goes
  BY DEF SameCall, SameRow, Goes
<1>2. c \in CallRow /\ c.by \in Panes
  BY DEF ChatInv, CallsFit, CallFits, CallRow
<1>3. ASSUME NEW u \in Panes, Connect(u) PROVE goes
  <2>1. CASE c.by = u /\ c.at = "buffered"
    <3>1. [c EXCEPT !.at = "sent"] \in calls'
      BY <1>3, <2>1 DEF Connect
    <3>2. Goes(c, [c EXCEPT !.at = "sent"])
      BY <1>2, <2>1, MovedCall DEF SameRow, Goes
    <3> QED
      BY <3>1, <3>2
  <2> QED
    BY <1>1, <1>3, <2>1 DEF Connect
<1>4. ASSUME NEW u \in Panes, Disconnect(u) PROVE goes \/ lost
  <2>1. CASE c.by = u
    <3>1. rooms'[u] = {}
      BY <1>4 DEF Disconnect, ChatInv, SocketsFit
    <3>2. ASSUME c.at \in {"stored", "told"} PROVE \E d \in calls' : SameCall(c, d) /\ SameRow(c, d)
      <4>1. Orphan(c) \in calls'
        BY <1>4, <2>1, <3>2 DEF Disconnect
      <4>2. Orphan(c) = [c EXCEPT !.alive = FALSE]
        BY <3>2 DEF Orphan
      <4>3. SameCall(c, Orphan(c)) /\ SameRow(c, Orphan(c))
        BY <1>2, <3>2, <4>2 DEF CallRow, SameCall, SameRow
      <4> QED
        BY <4>1, <4>3
    <3> QED
      BY <2>1, <3>1, <3>2
  <2>2. CASE c.by # u
    BY <1>1, <1>4, <2>2 DEF Disconnect
  <2> QED
    BY <2>1, <2>2
<1>5. ASSUME NEW d \in calls, JoinLoad(d) PROVE goes
  <2>1. CASE c = d
    <3>1. [c EXCEPT !.at = "entering"] \in calls' /\ c.at = "sent"
      BY <1>5, <2>1 DEF JoinLoad, At
    <3>2. Goes(c, [c EXCEPT !.at = "entering"])
      BY <1>2, <3>1, MovedCall DEF SameRow, Goes
    <3> QED
      BY <3>1, <3>2
  <2> QED
    BY <1>1, <1>5, <2>1 DEF JoinLoad, At
<1>6. ASSUME NEW d \in calls, SendCheck(d) PROVE goes \/ Refused(c)
  <2>1. CASE c = d /\ Pass(c)
    <3>1. [c EXCEPT !.at = "checked"] \in calls' /\ c.at = "sent"
      BY <1>6, <2>1 DEF SendCheck, Pass, At
    <3>2. Goes(c, [c EXCEPT !.at = "checked"])
      BY <1>2, <3>1, MovedCall DEF SameRow, Goes
    <3> QED
      BY <3>1, <3>2
  <2>2. CASE c = d /\ Refuse(c)
    BY <1>6, <2>2 DEF Refuse, Refused
  <2>3. CASE c # d
    BY <1>1, <1>6, <2>3 DEF SendCheck, Refuse, Pass, At
  <2> QED
    BY <1>6, <2>1, <2>2, <2>3 DEF SendCheck
<1>7. ASSUME NEW d \in calls, SendStore(d) PROVE goes
  <2>1. CASE c = d
    <3> DEFINE e == [c EXCEPT !.at = "stored", !.row = Len(messages) + 1]
    <3>1. e \in calls' /\ c.at = "checked"
      BY <1>7, <2>1 DEF SendStore
    <3>2. Goes(c, e)
      BY <1>2, <3>1 DEF SameCall, SameRow, CallRow, Goes
    <3> QED
      BY <3>1, <3>2
  <2> QED
    BY <1>1, <1>7, <2>1 DEF SendStore
<1>8. ASSUME calls \subseteq calls' PROVE goes
  BY <1>1, <1>8
<1>9. ASSUME NEW d \in calls, JoinEnter(d) \/ Read(d) \/ SendEmit(d) \/ SendAnswer(d) PROVE c = d \/ goes
  BY <1>1, <1>9 DEF JoinEnter, Read, SendEmit, SendAnswer, At
<1> HIDE DEF goes, lost
<1>11. CASE \E u \in Panes : Connect(u) \/ Disconnect(u)
  BY <1>3, <1>4, <1>11
<1>12. CASE \E u \in Panes : \/ Hear(u) \/ AckTimeout(u) \/ \E ch \in Channels : SwitchTab(u, ch)
                             \/ \E t \in Texts : Type(u, t) \/ Retry(u, t)
  <2>1. calls \subseteq calls'
    BY <1>12 DEF Hear, HearJoined, HearMessage, HearAck, AckTimeout, SwitchTab, Type, Retry, SendText
  <2> QED
    BY <1>8, <2>1
<1>13. CASE \E d \in calls : JoinLoad(d) \/ SendCheck(d) \/ SendStore(d)
  BY <1>5, <1>6, <1>7, <1>13
<1>14. CASE \E d \in calls : JoinEnter(d) \/ Read(d) \/ SendEmit(d) \/ SendAnswer(d)
  BY <1>9, <1>14
<1>15. CASE \E f \in fetches : FetchFind(f) \/ FetchMark(f) \/ FetchFails(f) \/ FetchApply(f)
  BY <1>8, <1>15 DEF FetchFind, FetchMark, FetchFails, FetchApply
<1>16. CASE LockOrder \/ UNCHANGED chatVars
  BY <1>8, <1>16 DEF LockOrder, chatVars
<1> QED
  BY <1>11, <1>12, <1>13, <1>14, <1>15, <1>16 DEF ChatNext

\* Where an event comes from, and where it goes.
PartyTold(c, u, e) == SendAnswer(c) /\ u \in Audience(c) /\ e = Message(c)
Concluded(c, u, e) ==
    /\ SendAnswer(c)
    /\ u = c.by
    /\ c.alive
    /\ \E ok \in BOOLEAN : e = Ack(c, ok) /\ (ok \/ "UNTOLD" \in mishaps')

LEMMA EventsCome ==
    ASSUME ChatInv, [ChatNext]_chatVars, NEW u \in Panes, NEW e \in Events(u)'
    PROVE  \/ e \in Events(u)
           \/ \E c \in calls : JoinEnter(c) /\ u = c.by /\ e = Joined(c.room)
           \/ \E c \in calls : Refused(c) /\ u = c.by /\ c.alive /\ e = Ack(c, FALSE)
           \/ \E c \in calls : SendEmit(c) /\ c.room \in rooms[u] /\ e = Message(c)
           \/ \E c \in calls : PartyTold(c, u, e) \/ Concluded(c, u, e)
<1> DEFINE new == \/ \E c \in calls : JoinEnter(c) /\ u = c.by /\ e = Joined(c.room)
                  \/ \E c \in calls : Refused(c) /\ u = c.by /\ c.alive /\ e = Ack(c, FALSE)
                  \/ \E c \in calls : SendEmit(c) /\ c.room \in rooms[u] /\ e = Message(c)
                  \/ \E c \in calls : PartyTold(c, u, e) \/ Concluded(c, u, e)
<1> SUFFICES e \in Events(u) \/ new
  OBVIOUS
<1>1. CASE UNCHANGED inbox
  BY <1>1, SameEvents
<1>2. ASSUME NEW v \in Panes, Disconnect(v) PROVE e \in Events(u)
  <2>1. inbox' = [inbox EXCEPT ![v] = <<>>]
    BY <1>2 DEF Disconnect
  <2>2. u = v => inbox'[u] = <<>>
    BY <2>1 DEF ChatInv, InboxFits
  <2>3. u # v => inbox'[u] = inbox[u]
    BY <2>1 DEF ChatInv, InboxFits
  <2> QED
    BY <2>2, <2>3 DEF Events, Range
<1>3. ASSUME NEW v \in Panes, Hear(v) PROVE e \in Events(u)
  BY <1>3, HearEvents
<1>4. ASSUME NEW c \in calls, JoinEnter(c) PROVE e \in Events(u) \/ new
  <2>1. c.by \in Panes /\ Deliver(c.by, Joined(c.room))
    BY <1>4 DEF JoinEnter, ChatInv, CallsFit, CallFits, CallRow
  <2>2. e \in Events(u) \/ (u = c.by /\ e = Joined(c.room))
    BY <2>1, DeliveredEvents
  <2> QED
    BY <1>4, <2>2
<1>5. ASSUME NEW c \in calls, SendCheck(c) PROVE e \in Events(u) \/ new
  <2>1. CASE UNCHANGED inbox
    BY <1>1, <2>1
  <2>2. CASE ~UNCHANGED inbox
    <3>1. c.by \in Panes
      BY DEF ChatInv, CallsFit, CallFits, CallRow
    <3>2. Deliver(c.by, Ack(c, FALSE)) /\ c.alive /\ Refused(c)
      BY <1>5, <2>2 DEF SendCheck, Refuse, Pass, Refused
    <3>3. /\ Events(c.by)' = Events(c.by) \cup {Ack(c, FALSE)}
          /\ \A v \in Panes : v # c.by => Events(v)' = Events(v)
      BY <3>1, <3>2, DeliveredEvents
    <3>4. e \in Events(u) \/ (u = c.by /\ e = Ack(c, FALSE))
      BY <3>3
    <3> QED
      BY <3>2, <3>4
  <2> QED
    BY <2>1, <2>2
<1>6. ASSUME NEW c \in calls, SendEmit(c) PROVE e \in Events(u) \/ new
  <2>1. e \in Events(u) \/ (c.room \in rooms[u] /\ e = Message(c))
    BY <1>6, EmittedEvents
  <2> QED
    BY <1>6, <2>1
<1>7. ASSUME NEW c \in calls, SendAnswer(c) PROVE e \in Events(u) \/ new
  BY <1>7, AnsweredEvents DEF PartyTold, Concluded
<1> HIDE DEF new
<1> QED
  <2>1. CASE \E v \in Panes : Disconnect(v) \/ Hear(v)
    BY <1>2, <1>3, <2>1
  <2>2. CASE \E c \in calls : JoinEnter(c) \/ SendCheck(c) \/ SendEmit(c) \/ SendAnswer(c)
    BY <1>4, <1>5, <1>6, <1>7, <2>2
  <2>3. CASE \E v \in Panes : \/ Connect(v) \/ AckTimeout(v) \/ \E ch \in Channels : SwitchTab(v, ch)
                              \/ \E t \in Texts : Type(v, t) \/ Retry(v, t)
    <3>1. UNCHANGED inbox
      BY <2>3 DEF Connect, AckTimeout, SwitchTab, Type, Retry, SendText
    <3> QED
      BY <1>1, <3>1
  <2>4. CASE \/ \E c \in calls : JoinLoad(c) \/ Read(c) \/ SendStore(c)
             \/ \E f \in fetches : FetchFind(f) \/ FetchMark(f) \/ FetchFails(f) \/ FetchApply(f)
             \/ LockOrder \/ UNCHANGED chatVars
    <3>1. UNCHANGED inbox
      BY <2>4 DEF JoinLoad, Read, SendStore, FetchFind, FetchMark, FetchFails, FetchApply, LockOrder, chatVars
    <3> QED
      BY <1>1, <3>1
  <2> QED
    BY <2>1, <2>2, <2>3, <2>4 DEF ChatNext

LEMMA EventsGo ==
    ASSUME ChatInv, [ChatNext]_chatVars, NEW u \in Panes, NEW e \in Events(u)
    PROVE  \/ e \in Events(u)'
           \/ rooms'[u] = {}
           \/ Hear(u) /\ (HearJoined(u, e) \/ HearMessage(u, e) \/ HearAck(u, e))
<1>1. CASE UNCHANGED inbox
  BY <1>1, SameEvents
<1>2. ASSUME NEW v \in Panes, Disconnect(v) PROVE e \in Events(u)' \/ rooms'[u] = {}
  <2>1. inbox' = [inbox EXCEPT ![v] = <<>>] /\ rooms' = [rooms EXCEPT ![v] = {}]
    BY <1>2 DEF Disconnect
  <2>2. u = v => rooms'[u] = {}
    BY <2>1 DEF ChatInv, SocketsFit
  <2>3. u # v => inbox'[u] = inbox[u]
    BY <2>1 DEF ChatInv, InboxFits
  <2> QED
    BY <2>2, <2>3 DEF Events
<1>3. ASSUME NEW v \in Panes, Hear(v)
      PROVE  \/ e \in Events(u)'
             \/ Hear(u) /\ (HearJoined(u, e) \/ HearMessage(u, e) \/ HearAck(u, e))
  <2>1. PICK x \in Events(v) : /\ HearJoined(v, x) \/ HearMessage(v, x) \/ HearAck(v, x)
                               /\ Events(v) = Events(v)' \cup {x}
                               /\ \A w \in Panes : w # v => Events(w)' = Events(w)
    BY <1>3, HearEvents
  <2>2. CASE u = v /\ e = x
    BY <1>3, <2>1, <2>2
  <2>3. CASE ~(u = v /\ e = x)
    BY <2>1, <2>3
  <2> QED
    BY <2>2, <2>3
<1>4. ASSUME NEW c \in calls, JoinEnter(c) \/ SendCheck(c) \/ SendEmit(c) \/ SendAnswer(c)
      PROVE  e \in Events(u)'
  <2>1. c.by \in Panes
    BY DEF ChatInv, CallsFit, CallFits, CallRow
  <2>2. ASSUME NEW x, Deliver(c.by, x) PROVE e \in Events(u)'
    <3>1. /\ Events(c.by)' = Events(c.by) \cup {x}
          /\ \A v \in Panes : v # c.by => Events(v)' = Events(v)
      BY <2>1, <2>2, DeliveredEvents
    <3> QED
      BY <3>1
  <2>3. CASE JoinEnter(c)
    <3>1. Deliver(c.by, Joined(c.room))
      BY <2>3 DEF JoinEnter
    <3> QED
      BY <2>2, <3>1
  <2>4. CASE SendCheck(c)
    <3>1. UNCHANGED inbox \/ Deliver(c.by, Ack(c, FALSE))
      BY <2>4 DEF SendCheck, Refuse, Pass
    <3>2. UNCHANGED inbox => e \in Events(u)'
      BY SameEvents
    <3> QED
      BY <2>2, <3>1, <3>2
  <2>5. CASE SendEmit(c)
    <3>1. Events(u) \subseteq Events(u)'
      BY <2>5, EmittedEvents
    <3> QED
      BY <3>1
  <2>6. CASE SendAnswer(c)
    BY <2>6, AnsweredEvents
  <2> QED
    BY <1>4, <2>3, <2>4, <2>5, <2>6
<1> QED
  <2>1. CASE \E v \in Panes : Disconnect(v) \/ Hear(v)
    BY <1>2, <1>3, <2>1
  <2>2. CASE \E c \in calls : JoinEnter(c) \/ SendCheck(c) \/ SendEmit(c) \/ SendAnswer(c)
    BY <1>4, <2>2
  <2>3. CASE \E v \in Panes : \/ Connect(v) \/ AckTimeout(v) \/ \E ch \in Channels : SwitchTab(v, ch)
                              \/ \E t \in Texts : Type(v, t) \/ Retry(v, t)
    <3>1. UNCHANGED inbox
      BY <2>3 DEF Connect, AckTimeout, SwitchTab, Type, Retry, SendText
    <3> QED
      BY <1>1, <3>1
  <2>4. CASE \/ \E c \in calls : JoinLoad(c) \/ Read(c) \/ SendStore(c)
             \/ \E f \in fetches : FetchFind(f) \/ FetchMark(f) \/ FetchFails(f) \/ FetchApply(f)
             \/ LockOrder \/ UNCHANGED chatVars
    <3>1. UNCHANGED inbox
      BY <2>4 DEF JoinLoad, Read, SendStore, FetchFind, FetchMark, FetchFails, FetchApply, LockOrder, chatVars
    <3> QED
      BY <1>1, <3>1
  <2> QED
    BY <2>1, <2>2, <2>3, <2>4 DEF ChatNext

\* Where an answer comes from, and where it goes.
Found(g, f) == /\ FetchFind(g)
               /\ f.by = g.by /\ f.why = g.why /\ f.chan = g.chan
               /\ f.at = "found" /\ f.got = RowsOf(g.chan)
Marked(g, f) == /\ FetchMark(g)
                /\ f.by = g.by /\ f.why = g.why /\ f.chan = g.chan
                /\ f.at = "ready" /\ f.got = g.got

LEMMA FetchSteps ==
    ASSUME ChatInv, NEW g \in fetches, FetchFind(g) \/ FetchMark(g)
    PROVE  \E f : fetches' = (fetches \ {g}) \cup {f} /\ (Found(g, f) \/ Marked(g, f))
<1>1. g \in FetchRow
  BY DEF ChatInv, FetchesFit, FetchFits
<1>2. CASE FetchFind(g)
  <2>1. PICK rows : rows = RowsOf(g.chan)
    OBVIOUS
  <2> DEFINE f == [g EXCEPT !.at = "found", !.got = rows]
  <2>2. fetches' = (fetches \ {g}) \cup {f}
    BY <1>2, <2>1 DEF FetchFind
  <2>3. f.by = g.by /\ f.why = g.why /\ f.chan = g.chan /\ f.at = "found" /\ f.got = rows
    BY <1>1 DEF FetchRow
  <2> QED
    BY <1>2, <2>1, <2>2, <2>3 DEF Found
<1>3. CASE FetchMark(g)
  <2> DEFINE f == [g EXCEPT !.at = "ready"]
  <2>1. fetches' = (fetches \ {g}) \cup {f}
    BY <1>3 DEF FetchMark
  <2>2. f.by = g.by /\ f.why = g.why /\ f.chan = g.chan /\ f.at = "ready" /\ f.got = g.got
    BY <1>1 DEF FetchRow
  <2> QED
    BY <1>3, <2>1, <2>2 DEF Marked
<1> QED
  BY <1>2, <1>3

LEMMA FetchesCome ==
    ASSUME ChatInv, [ChatNext]_chatVars, NEW f \in fetches'
    PROVE  \/ f \in fetches
           \/ \E u \in Panes : Hear(u) /\ f = Fetch(u, "ALL", "joined")
           \/ \E u \in ByOrder : \E c \in Channels : f = Fetch(u, c, "tab")
           \/ \E g \in fetches : Found(g, f) \/ Marked(g, f)
<1>1. CASE \E u \in Panes : Hear(u)
  BY <1>1 DEF Hear, HearJoined, HearMessage, HearAck
<1>2. CASE \E u \in Panes, c \in Channels : SwitchTab(u, c)
  BY <1>2 DEF SwitchTab
<1>3. CASE \E g \in fetches : FetchFind(g) \/ FetchMark(g)
  BY <1>3, FetchSteps
<1>4. CASE \E g \in fetches : FetchFails(g) \/ FetchApply(g)
  BY <1>4 DEF FetchFails, FetchApply
<1>5. CASE \E u \in Panes : \/ Connect(u) \/ Disconnect(u) \/ AckTimeout(u)
                            \/ \E t \in Texts : Type(u, t) \/ Retry(u, t)
  <2>1. fetches' = fetches
    BY <1>5 DEF Connect, Disconnect, AckTimeout, Type, Retry, SendText
  <2> QED
    BY <2>1
<1>6. CASE \/ \E c \in calls : JoinLoad(c) \/ JoinEnter(c) \/ Read(c) \/ SendCheck(c) \/ SendStore(c) \/ SendEmit(c)
           \/ \E c \in calls : SendAnswer(c)
           \/ LockOrder \/ UNCHANGED chatVars
  <2>1. fetches' = fetches
    BY <1>6 DEF JoinLoad, JoinEnter, Read, SendCheck, SendStore, SendEmit, SendAnswer, LockOrder, chatVars
  <2> QED
    BY <2>1
<1> QED
  BY <1>1, <1>2, <1>3, <1>4, <1>5, <1>6 DEF ChatNext

LEMMA FetchesGo ==
    ASSUME ChatInv, [ChatNext]_chatVars, NEW g \in fetches
    PROVE  \/ \E f \in fetches' : f = g \/ Found(g, f) \/ Marked(g, f)
           \/ FetchApply(g) \/ FetchFails(g)
<1>1. CASE \E h \in fetches : FetchFind(h) \/ FetchMark(h)
  BY <1>1, FetchSteps
<1>2. CASE \E h \in fetches : FetchFails(h) \/ FetchApply(h)
  BY <1>2 DEF FetchFails, FetchApply
<1>3. CASE \E u \in Panes : \/ Connect(u) \/ Disconnect(u) \/ AckTimeout(u) \/ Hear(u)
                            \/ \E t \in Texts : Type(u, t) \/ Retry(u, t)
                            \/ \E c \in Channels : SwitchTab(u, c)
  <2>1. fetches \subseteq fetches'
    BY <1>3 DEF Connect, Disconnect, AckTimeout, Type, Retry, SendText, Hear, HearJoined, HearMessage,
                HearAck, SwitchTab
  <2> QED
    BY <2>1
<1>4. CASE \/ \E c \in calls : JoinLoad(c) \/ JoinEnter(c) \/ Read(c) \/ SendCheck(c) \/ SendStore(c) \/ SendEmit(c)
           \/ \E c \in calls : SendAnswer(c)
           \/ LockOrder \/ UNCHANGED chatVars
  <2>1. fetches' = fetches
    BY <1>4 DEF JoinLoad, JoinEnter, Read, SendCheck, SendStore, SendEmit, SendAnswer, LockOrder, chatVars
  <2> QED
    BY <2>1
<1> QED
  BY <1>1, <1>2, <1>3, <1>4 DEF ChatNext

\* Rows are appended, read flags and mishaps accumulate.
LEMMA RowsGrow ==
    ASSUME ChatInv, [ChatNext]_chatVars
    PROVE  /\ Kept
           /\ \A i \in MessageIds' : i \in MessageIds \/ \E c \in calls :
                 /\ SendStore(c) /\ i = Len(messages) + 1
                 /\ messages'[i].chan = ChannelOf(c.room) /\ messages'[i].from = c.by
                 /\ messages'[i].text = c.text
           /\ \A i \in MessageIds : readBy[i] \subseteq readBy'[i]
           /\ mishaps \subseteq mishaps'
<1>1. /\ messages \in Seq(MessageRow) /\ readBy \in Seq(SUBSET Members) /\ Len(readBy) = Len(messages)
      /\ MessageIds = 1..Len(messages) /\ Len(messages) \in Nat
  BY DEF ChatInv, RowsFit, MessageIds
<1>2. ASSUME NEW c \in calls, SendStore(c)
      PROVE  /\ Kept /\ \A i \in MessageIds : readBy[i] \subseteq readBy'[i]
             /\ \A i \in MessageIds' : i \in MessageIds \/
                   /\ i = Len(messages) + 1
                   /\ messages'[i].chan = ChannelOf(c.room) /\ messages'[i].from = c.by
                   /\ messages'[i].text = c.text
  <2> DEFINE row == [chan |-> ChannelOf(c.room), from |-> c.by, text |-> c.text, under |-> c.under]
  <2>1. messages' = Append(messages, row) /\ readBy' = Append(readBy, {c.by})
    BY <1>2 DEF SendStore
  <2>2. row.chan = ChannelOf(c.room) /\ row.from = c.by /\ row.text = c.text
    OBVIOUS
  <2> HIDE DEF row
  <2>3. /\ DOMAIN messages' = 1..(Len(messages) + 1) /\ messages'[Len(messages) + 1] = row
        /\ \A i \in 1..Len(messages) : messages'[i] = messages[i] /\ readBy'[i] = readBy[i]
    BY <1>1, <2>1
  <2>4. MessageIds' = 1..(Len(messages) + 1)
    BY <2>3 DEF MessageIds
  <2>5. \A i \in MessageIds' : i \in MessageIds \/ i = Len(messages) + 1
    BY <1>1, <2>4
  <2> QED
    BY <1>1, <2>2, <2>3, <2>4, <2>5 DEF Kept
<1>3. ASSUME UNCHANGED messages
      PROVE  Kept /\ \A i \in MessageIds' : i \in MessageIds
  BY <1>3, SameRowsKept DEF MessageIds
<1>4. ASSUME NEW u, NEW c, readBy' = MarkedBy(u, c) PROVE \A i \in MessageIds : readBy[i] \subseteq readBy'[i]
  BY <1>4 DEF MarkedBy
<1>5. CASE \E c \in calls : JoinLoad(c) \/ Read(c)
  <2>1. UNCHANGED <<messages, mishaps>> /\ \E u, c : readBy' = MarkedBy(u, c)
    BY <1>5 DEF JoinLoad, Read
  <2> QED
    BY <1>3, <1>4, <2>1
<1>6. CASE \E f \in fetches : FetchMark(f)
  <2>1. UNCHANGED <<messages, mishaps>> /\ \E u, c : readBy' = MarkedBy(u, c)
    BY <1>6 DEF FetchMark
  <2> QED
    BY <1>3, <1>4, <2>1
<1>7. CASE \E f \in fetches : FetchFind(f) \/ FetchFails(f) \/ FetchApply(f)
  <2>1. UNCHANGED <<messages, readBy>> /\ mishaps \subseteq mishaps'
    BY <1>7 DEF FetchFind, FetchFails, FetchApply, Note
  <2> QED
    BY <1>3, <2>1
<1>8. CASE \E u \in Panes : \/ Connect(u) \/ Disconnect(u) \/ AckTimeout(u) \/ Hear(u)
                            \/ \E t \in Texts : Type(u, t) \/ Retry(u, t)
                            \/ \E c \in Channels : SwitchTab(u, c)
  <2>1. UNCHANGED <<messages, readBy>> /\ mishaps \subseteq mishaps'
    BY <1>8 DEF Connect, Disconnect, AckTimeout, Hear, Type, Retry, SendText, SwitchTab, Note
  <2> QED
    BY <1>3, <2>1
<1>9. CASE \E c \in calls : SendStore(c)
  <2>1. mishaps' = mishaps
    BY <1>9 DEF SendStore
  <2> QED
    BY <1>2, <1>9, <2>1
<1>10. CASE \E c \in calls : JoinEnter(c) \/ SendCheck(c) \/ SendEmit(c) \/ SendAnswer(c)
  <2>1. UNCHANGED <<messages, readBy>> /\ mishaps \subseteq mishaps'
    BY <1>10 DEF JoinEnter, SendCheck, SendEmit, SendAnswer, TellParties, FailToTell, Note
  <2> QED
    BY <1>3, <2>1
<1>11. CASE LockOrder \/ UNCHANGED chatVars
  BY <1>3, <1>11 DEF LockOrder, chatVars
<1> QED
  BY <1>5, <1>6, <1>7, <1>8, <1>9, <1>10, <1>11 DEF ChatNext

LEMMA StoredRow ==
    ASSUME ChatInv, NEW c \in calls, SendStore(c)
    PROVE  LET i == Len(messages) + 1
           IN  /\ i \in MessageIds' /\ i \notin MessageIds
               /\ messages'[i].chan = ChannelOf(c.room) /\ messages'[i].from = c.by
               /\ messages'[i].text = c.text
<1> DEFINE row == [chan |-> ChannelOf(c.room), from |-> c.by, text |-> c.text, under |-> c.under]
<1>1. messages \in Seq(MessageRow) /\ MessageIds = 1..Len(messages) /\ Len(messages) \in Nat
  BY DEF ChatInv, RowsFit, MessageIds
<1>2. messages' = Append(messages, row)
  BY DEF SendStore
<1>3. row.chan = ChannelOf(c.room) /\ row.from = c.by /\ row.text = c.text
  OBVIOUS
<1> HIDE DEF row
<1>4. DOMAIN messages' = 1..(Len(messages) + 1) /\ messages'[Len(messages) + 1] = row
  BY <1>1, <1>2
<1> QED
  BY <1>1, <1>3, <1>4 DEF MessageIds

LEMMA StoringStores ==
    ASSUME ChatInv, NEW c \in calls, SendStore(c)
    PROVE  \E d : StoredAs(c, d)
<1> DEFINE d == [c EXCEPT !.at = "stored", !.row = Len(messages) + 1]
<1>1. c \in CallRow
  BY DEF ChatInv, CallsFit, CallFits
<1>2. calls' = (calls \ {c}) \cup {d}
  BY DEF SendStore
<1>3. SameCall(c, d) /\ d.at = "stored" /\ d.row = Len(messages) + 1 /\ d.alive = c.alive
  BY <1>1 DEF SameCall, CallRow
<1> QED
  BY <1>2, <1>3 DEF StoredAs

\* What becomes of a socket's rooms, of a pane, and of an optimistic entry.
LEMMA RoomsGo ==
    ASSUME ChatInv, [ChatNext]_chatVars, NEW u \in Panes
    PROVE  \/ rooms'[u] = rooms[u]
           \/ rooms'[u] = {}
           \/ \E c \in calls : JoinEnter(c) /\ c.by = u /\ rooms'[u] = rooms[u] \cup {c.room}
<1>1. rooms \in [Panes -> SUBSET Rooms]
  BY DEF ChatInv, SocketsFit
<1>2. CASE \E v \in Panes : Disconnect(v)
  BY <1>1, <1>2 DEF Disconnect
<1>3. CASE \E c \in calls : JoinEnter(c)
  BY <1>1, <1>3 DEF JoinEnter
<1>4. CASE \E v \in Panes : \/ Connect(v) \/ AckTimeout(v) \/ Hear(v)
                            \/ \E t \in Texts : Type(v, t) \/ Retry(v, t)
                            \/ \E c \in Channels : SwitchTab(v, c)
  BY <1>4 DEF Connect, AckTimeout, Hear, Type, Retry, SendText, SwitchTab
<1>5. CASE \/ \E c \in calls : JoinLoad(c) \/ Read(c) \/ SendCheck(c) \/ SendStore(c) \/ SendEmit(c)
                              \/ SendAnswer(c)
           \/ \E f \in fetches : FetchFind(f) \/ FetchMark(f) \/ FetchFails(f) \/ FetchApply(f)
           \/ LockOrder \/ UNCHANGED chatVars
  BY <1>5 DEF JoinLoad, Read, SendCheck, SendStore, SendEmit, SendAnswer, FetchFind, FetchMark, FetchFails,
              FetchApply, LockOrder, chatVars
<1> QED
  BY <1>2, <1>3, <1>4, <1>5 DEF ChatNext

Still(u) == /\ pane'[u].active = pane[u].active
            /\ pane'[u].shown = pane[u].shown
            /\ pane'[u].seen = pane[u].seen
Replaced(u, f) == /\ FetchApply(f)
                  /\ f.by = u
                  /\ pane'[u].active = f.chan
                  /\ pane'[u].shown = f.got
                  /\ pane'[u].seen = pane[u].seen
HeardJoined(u, e) == /\ Hear(u) /\ HearJoined(u, e)
                     /\ pane'[u].active = IF e.room = "ORDER" THEN pane[u].active ELSE e.room
                     /\ pane'[u].shown = pane[u].shown
                     /\ pane'[u].seen = pane[u].seen
Here(u, e) == pane[u].active \in {"NONE", messages[e.row].chan}
HeardMessage(u, e) == /\ Hear(u) /\ HearMessage(u, e)
                      /\ pane'[u].active = pane[u].active
                      /\ pane'[u].seen = pane[u].seen \cup {e.row}
                      /\ pane'[u].shown = IF Here(u, e) /\ e.row \notin pane[u].seen
                                          THEN pane[u].shown \cup {e.row} ELSE pane[u].shown

LEMMA HeardPane ==
    ASSUME ChatInv, NEW u \in Panes, NEW e \in Events(u), Hear(u),
           HearJoined(u, e) \/ HearMessage(u, e) \/ HearAck(u, e)
    PROVE  /\ \A v \in Panes : v # u => pane'[v] = pane[v]
           /\ HearJoined(u, e) => HeardJoined(u, e)
           /\ HearMessage(u, e) => HeardMessage(u, e)
           /\ HearAck(u, e) => Still(u)
<1>1. pane \in [Panes -> PaneRow]
  BY DEF ChatInv, PanesFit
<1>2. e \in EventRow /\ e.room \in Rooms /\ (e.kind = "message" => e.row \in Nat)
  BY EventsFitting DEF EventsFor, EventRow
<1>3. CASE HearJoined(u, e)
  <2>1. e.kind = "joined"
    BY <1>3 DEF HearJoined
  <2>2. CASE e.room = "ORDER"
    BY <1>3, <2>1, <2>2 DEF HearJoined, HearMessage, HearAck, HeardJoined
  <2>3. CASE e.room # "ORDER"
    <3>1. pane' = [pane EXCEPT ![u].active = e.room]
      BY <1>3, <2>3 DEF HearJoined
    <3>2. pane'[u].active = e.room /\ pane'[u].shown = pane[u].shown /\ pane'[u].seen = pane[u].seen
          /\ \A v \in Panes : v # u => pane'[v] = pane[v]
      BY <1>1, <3>1 DEF PaneRow
    <3> QED
      BY <1>3, <2>1, <2>3, <3>2 DEF HearMessage, HearAck, HeardJoined
  <2> QED
    BY <2>2, <2>3
<1>4. CASE HearMessage(u, e)
  <2>1. e.kind = "message"
    BY <1>4 DEF HearMessage
  <2>2. CASE e.row \in pane[u].seen
    BY <1>4, <2>1, <2>2 DEF HearJoined, HearMessage, HearAck, HeardMessage
  <2>3. CASE e.row \notin pane[u].seen
    <3>1. PICK seen \in SUBSET Nat : seen = pane[u].seen \cup {e.row}
      BY <1>1, <1>2, <2>1 DEF PaneRow
    <3>2. PICK shown \in SUBSET Nat : shown = IF Here(u, e) THEN pane[u].shown \cup {e.row} ELSE pane[u].shown
      BY <1>1, <1>2, <2>1 DEF PaneRow
    <3>3. ShowsOne(u, seen, shown)
      BY <1>1, <1>4, <2>3, <3>1, <3>2 DEF HearMessage, ShowsOne, Here
    <3>4. /\ pane'[u].shown = shown /\ pane'[u].seen = seen
          /\ \A v \in Panes : v # u => pane'[v] = pane[v]
      BY <1>1, <3>3, OneShown
    <3>5. pane'[u].active = pane[u].active
      BY <1>1, <3>3 DEF ShowsOne, PaneRow
    <3> QED
      BY <1>4, <2>1, <2>3, <3>1, <3>2, <3>4, <3>5 DEF HearJoined, HearAck, HeardMessage
  <2> QED
    BY <2>2, <2>3
<1>5. CASE HearAck(u, e)
  <2>1. e.kind = "ack" /\ pane' = [pane EXCEPT ![u].waiting = ""]
    BY <1>5 DEF HearAck
  <2> QED
    BY <1>1, <2>1 DEF HearJoined, HearMessage, Still, PaneRow
<1> QED
  BY <1>3, <1>4, <1>5

LEMMA AppliedPane ==
    ASSUME ChatInv, NEW f \in fetches, FetchApply(f)
    PROVE  /\ f.by \in Panes
           /\ Replaced(f.by, f)
           /\ \A v \in Panes : v # f.by => pane'[v] = pane[v]
<1>1. pane \in [Panes -> PaneRow] /\ f \in FetchRow /\ f.by \in Panes /\ f.chan \in Channels /\ f.got \in SUBSET Nat
  BY DEF ChatInv, PanesFit, FetchesFit, FetchFits, FetchRow
<1>2. PICK tab \in Channels : tab = IF f.why = "tab" THEN f.chan ELSE pane[f.by].tab
  BY <1>1 DEF PaneRow
<1>3. ShowsAnswer(f.by, f.chan, f.got, tab)
  BY <1>1, <1>2 DEF FetchApply, PaneRow, ShowsAnswer
<1>4. /\ pane'[f.by].shown = f.got /\ pane'[f.by].seen = pane[f.by].seen
      /\ \A v \in Panes : v # f.by => pane'[v] = pane[v]
  BY <1>1, <1>3, AnswerShown
<1>5. pane'[f.by].active = f.chan
  BY <1>1, <1>3 DEF ShowsAnswer, PaneRow
<1> QED
  BY <1>1, <1>4, <1>5 DEF Replaced

LEMMA PanesGo ==
    ASSUME ChatInv, [ChatNext]_chatVars, NEW u \in Panes
    PROVE  \/ Still(u)
           \/ \E f \in fetches : Replaced(u, f)
           \/ \E e \in Events(u) : HeardJoined(u, e) \/ HeardMessage(u, e)
<1>1. pane \in [Panes -> PaneRow]
  BY DEF ChatInv, PanesFit
<1>2. ASSUME pane'[u] = pane[u] PROVE Still(u)
  BY <1>2 DEF Still
<1>3. CASE \E v \in Panes : Hear(v)
  <2>1. PICK v \in Panes : Hear(v)
    BY <1>3
  <2>2. PICK e \in Events(v) : HearJoined(v, e) \/ HearMessage(v, e) \/ HearAck(v, e)
    BY <2>1, HearEvents
  <2> QED
    BY <1>2, <2>1, <2>2, HeardPane
<1>4. CASE \E f \in fetches : FetchApply(f)
  BY <1>2, <1>4, AppliedPane
<1>5. CASE \E v \in Panes : \/ AckTimeout(v) \/ \E t \in Texts : Type(v, t) \/ Retry(v, t)
  <2>1. PICK v \in Panes : \E t : pane' = [pane EXCEPT ![v].waiting = t]
    BY <1>5 DEF AckTimeout, Type, Retry, SendText
  <2>2. PICK t : pane' = [pane EXCEPT ![v].waiting = t]
    BY <2>1
  <2> QED
    BY <1>1, <2>2 DEF Still, PaneRow
<1>6. CASE \/ \E v \in Panes : Connect(v) \/ Disconnect(v) \/ \E c \in Channels : SwitchTab(v, c)
           \/ \E c \in calls : JoinLoad(c) \/ JoinEnter(c) \/ Read(c) \/ SendCheck(c) \/ SendStore(c)
                              \/ SendEmit(c) \/ SendAnswer(c)
           \/ \E f \in fetches : FetchFind(f) \/ FetchMark(f) \/ FetchFails(f)
           \/ LockOrder \/ UNCHANGED chatVars
  <2>1. pane' = pane
    BY <1>6 DEF Connect, Disconnect, SwitchTab, JoinLoad, JoinEnter, Read, SendCheck, SendStore, SendEmit, SendAnswer,
                FetchFind, FetchMark, FetchFails, LockOrder, chatVars
  <2> QED
    BY <1>2, <2>1
<1> QED
  BY <1>3, <1>4, <1>5, <1>6 DEF ChatNext

Becomes(t, state) == /\ draft'[t].state = state
                     /\ draft'[t].by = draft[t].by
                     /\ draft'[t].try = draft[t].try
Sent(u, t, n) == /\ Says(u, t, n)
                 /\ draft'[t].state = "SENDING" /\ draft'[t].by = u /\ draft'[t].try = n

LEMMA DraftsGo ==
    ASSUME ChatInv, [ChatNext]_chatVars, NEW t \in Texts
    PROVE  \/ draft'[t] = draft[t]
           \/ \E u \in Panes, n \in Nat : Sent(u, t, n)
           \/ \E f \in fetches : FetchApply(f) /\ draft[t].by = f.by /\ Listed(t) /\ Becomes(t, "ERASED")
           \/ \E u \in Panes : \E e \in Events(u) :
                 /\ Hear(u) /\ IsTry(t, u, e.try) /\ e.text = t
                 /\ \/ /\ HearMessage(u, e) /\ Here(u, e) /\ e.row \notin pane[u].seen
                       /\ Becomes(t, "SENT")
                    \/ HearAck(u, e) /\ ~e.ok /\ Becomes(t, "FAILED")
           \/ draft[t].state = "SENDING" /\ Becomes(t, "FAILED") /\ "TIMED_OUT" \in mishaps'
<1>1. draft \in [Texts -> DraftRow]
  BY DEF ChatInv, DraftsFit
<1>2. CASE \E v \in Panes : Hear(v)
  <2>1. PICK v \in Panes : Hear(v)
    BY <1>2
  <2>2. PICK e \in Events(v) : HearJoined(v, e) \/ HearMessage(v, e) \/ HearAck(v, e)
    BY <2>1, HearEvents
  <2>3. CASE HearJoined(v, e)
    BY <2>3 DEF HearJoined
  <2>4. CASE HearMessage(v, e)
    <3>1. draft' = draft \/ /\ draft' = [draft EXCEPT ![e.text].state = "SENT"]
                            /\ e.row \notin pane[v].seen /\ Here(v, e) /\ IsTry(e.text, v, e.try)
      BY <2>4 DEF HearMessage, Here
    <3>2. CASE draft'[t] = draft[t]
      BY <3>2
    <3>3. CASE draft'[t] # draft[t]
      <4>1. e.text = t /\ draft' = [draft EXCEPT ![t].state = "SENT"]
        BY <1>1, <3>1, <3>3
      <4>2. Becomes(t, "SENT")
        BY <1>1, <4>1 DEF Becomes, DraftRow
      <4> QED
        BY <2>1, <2>4, <3>1, <3>3, <4>1, <4>2
    <3> QED
      BY <3>2, <3>3
  <2>5. CASE HearAck(v, e)
    <3>1. draft' = draft \/ /\ draft' = [draft EXCEPT ![e.text].state = "FAILED"]
                            /\ ~e.ok /\ IsTry(e.text, v, e.try)
      BY <2>5 DEF HearAck
    <3>2. CASE draft'[t] = draft[t]
      BY <3>2
    <3>3. CASE draft'[t] # draft[t]
      <4>1. e.text = t /\ draft' = [draft EXCEPT ![t].state = "FAILED"]
        BY <1>1, <3>1, <3>3
      <4>2. Becomes(t, "FAILED")
        BY <1>1, <4>1 DEF Becomes, DraftRow
      <4> QED
        BY <2>1, <2>5, <3>1, <3>3, <4>1, <4>2
    <3> QED
      BY <3>2, <3>3
  <2> QED
    BY <2>2, <2>3, <2>4, <2>5
<1>3. CASE \E f \in fetches : FetchApply(f)
  <2>1. PICK f \in fetches : FetchApply(f)
    BY <1>3
  <2>2. draft'[t] = IF Listed(t) /\ draft[t].by = f.by THEN [draft[t] EXCEPT !.state = "ERASED"] ELSE draft[t]
    BY <2>1 DEF FetchApply
  <2> QED
    BY <1>1, <2>1, <2>2 DEF Becomes, DraftRow
<1>4. CASE \E v \in Panes : AckTimeout(v)
  <2>1. PICK v \in Panes : AckTimeout(v)
    BY <1>4
  <2>2. draft' = [draft EXCEPT ![pane[v].waiting].state = IF @ = "SENDING" THEN "FAILED" ELSE @]
        /\ "TIMED_OUT" \in mishaps'
    BY <2>1 DEF AckTimeout, Note
  <2> QED
    BY <1>1, <2>2 DEF Becomes, DraftRow
<1>5. CASE \E v \in Panes, x \in Texts : Type(v, x) \/ Retry(v, x)
  <2>1. PICK v \in Panes, x \in Texts, n \in Nat : Says(v, x, n)
    BY <1>5, TypingSends
  <2>2. draft' = [draft EXCEPT ![x] = [state |-> "SENDING", by |-> v, try |-> n]]
    BY <2>1 DEF Says, SendText
  <2> QED
    BY <1>1, <2>1, <2>2 DEF Sent
<1>6. CASE \/ \E v \in Panes : Connect(v) \/ Disconnect(v) \/ \E c \in Channels : SwitchTab(v, c)
           \/ \E c \in calls : JoinLoad(c) \/ JoinEnter(c) \/ Read(c) \/ SendCheck(c) \/ SendStore(c)
                              \/ SendEmit(c) \/ SendAnswer(c)
           \/ \E f \in fetches : FetchFind(f) \/ FetchMark(f) \/ FetchFails(f)
           \/ LockOrder \/ UNCHANGED chatVars
  BY <1>6 DEF Connect, Disconnect, SwitchTab, JoinLoad, JoinEnter, Read, SendCheck, SendStore, SendEmit, SendAnswer,
              FetchFind, FetchMark, FetchFails, LockOrder, chatVars
<1> QED
  BY <1>2, <1>3, <1>4, <1>5, <1>6 DEF ChatNext

-----------------------------------------------------------------------------
(* What requests, events and answers tell, and of which conversation.       *)

CallTells(c) ==
    /\ c.op = "send" => c.text \in Texts
    /\ c.at \in {"checked", "stored", "told"} => c.op = "send"
    /\ c.at \in {"stored", "told"} =>
          c.row \in MessageIds /\ messages[c.row].text = c.text /\ messages[c.row].from = c.by

EventTells(e) ==
    /\ e.kind = "message" => e.text \in Texts /\ messages[e.row].text = e.text
    /\ e.kind = "ack" => e.text \in Texts

FetchTells(f) ==
    /\ f.why = "joined" => f.chan = "ALL"
    /\ f.why = "tab" => f.by \in ByOrder
    /\ f.at = "sent" => f.got = {}

Tells ==
    /\ \A c \in calls : CallTells(c)
    /\ \A u \in Panes : \A e \in Events(u) : EventTells(e)
    /\ \A i \in MessageIds : messages[i].text \in Texts
    /\ \A f \in fetches : FetchTells(f)

LEMMA EventKinds ==
    /\ \A room : Joined(room).kind = "joined" /\ Joined(room).room = room
    /\ \A c : /\ Message(c).kind = "message" /\ Message(c).row = c.row
              /\ Message(c).text = c.text /\ Message(c).try = c.try
    /\ \A c, e : \A ok \in BOOLEAN : e = Ack(c, ok) =>
          e.kind = "ack" /\ e.text = c.text /\ e.try = c.try /\ e.ok = ok
    /\ \A c, e : e = Ack(c, FALSE) => e.kind = "ack" /\ e.text = c.text /\ e.try = c.try /\ ~e.ok
BY DEF Joined, Message, Ack

LEMMA TellsGoesOn ==
    ASSUME ChatInv, Tells, [ChatNext]_chatVars
    PROVE  Tells'
<1>1. Kept
  BY RowsGrow
<1>2. ASSUME NEW d \in calls' PROVE CallTells(d)'
  <2>1. CASE \E c \in calls : Proceeds(c, d)
    BY <1>1, <2>1 DEF Proceeds, SameCall, Tells, CallTells, Kept
  <2>2. CASE NewRequest(d)
    BY <2>2 DEF NewRequest, CallTells
  <2>3. CASE NewSend(d)
    BY <2>3 DEF NewSend, CallTells
  <2>4. CASE \E c \in calls : StoredAs(c, d)
    <3>1. PICK c \in calls : StoredAs(c, d)
      BY <2>4
    <3>2. c.op = "send" /\ c.text \in Texts
      BY <3>1 DEF StoredAs, SendStore, Tells, CallTells
    <3>3. /\ d.row \in MessageIds' /\ messages'[d.row].from = c.by /\ messages'[d.row].text = c.text
      BY <3>1, StoredRow DEF StoredAs
    <3> QED
      BY <3>1, <3>2, <3>3 DEF StoredAs, SameCall, CallTells
  <2>5. CASE \E c \in calls : ToldAs(c, d)
    <3>1. PICK c \in calls : ToldAs(c, d) /\ c.at = "stored"
      BY <2>5 DEF ToldAs, SendEmit
    <3>2. /\ c.op = "send" /\ c.text \in Texts
          /\ c.row \in MessageIds /\ messages[c.row].text = c.text /\ messages[c.row].from = c.by
      BY <3>1 DEF Tells, CallTells
    <3> QED
      BY <1>1, <3>1, <3>2 DEF ToldAs, SameCall, CallTells, Kept
  <2> QED
    BY <2>1, <2>2, <2>3, <2>4, <2>5, CallsCome
<1>3. ASSUME NEW u \in Panes, NEW e \in Events(u)' PROVE EventTells(e)'
  <2>1. CASE e \in Events(u)
    <3>1. EventTells(e) /\ (e.kind = "message" => e.row \in MessageIds)
      BY <2>1, EventsFitting DEF Tells, EventsFor, MayRead
    <3> QED
      BY <1>1, <3>1 DEF EventTells, Kept
  <2>2. CASE \E c \in calls : JoinEnter(c) /\ u = c.by /\ e = Joined(c.room)
    BY <2>2, EventKinds DEF EventTells
  <2>3. CASE \E c \in calls : Refused(c) /\ u = c.by /\ c.alive /\ e = Ack(c, FALSE)
    <3>1. PICK c \in calls : SendCheck(c) /\ e = Ack(c, FALSE)
      BY <2>3 DEF Refused
    <3>2. c.text \in Texts /\ e.kind = "ack" /\ e.text = c.text
      BY <3>1, EventKinds DEF SendCheck, Tells, CallTells
    <3> QED
      BY <3>2 DEF EventTells
  <2>4. CASE \E c \in calls : (SendEmit(c) /\ e = Message(c)) \/ PartyTold(c, u, e)
    <3>1. PICK c \in calls : (SendEmit(c) \/ SendAnswer(c)) /\ e = Message(c)
      BY <2>4 DEF PartyTold
    <3>2. c.text \in Texts /\ c.row \in MessageIds /\ messages[c.row].text = c.text
      BY <3>1 DEF SendEmit, SendAnswer, Tells, CallTells
    <3>3. messages'[c.row].text = c.text
      BY <1>1, <3>2 DEF Kept
    <3>4. e.kind = "message" /\ e.row = c.row /\ e.text = c.text
      BY <3>1, EventKinds
    <3> QED
      BY <3>2, <3>3, <3>4 DEF EventTells
  <2>5. CASE \E c \in calls : Concluded(c, u, e)
    <3>1. PICK c \in calls, ok \in BOOLEAN : SendAnswer(c) /\ e = Ack(c, ok)
      BY <2>5 DEF Concluded
    <3>2. c.text \in Texts
      BY <3>1 DEF SendAnswer, Tells, CallTells
    <3>3. e.kind = "ack" /\ e.text = c.text
      BY <3>1, EventKinds
    <3> QED
      BY <3>2, <3>3 DEF EventTells
  <2> QED
    BY <2>1, <2>2, <2>3, <2>4, <2>5, EventsCome
<1>4. ASSUME NEW i \in MessageIds' PROVE messages'[i].text \in Texts
  <2>1. CASE i \in MessageIds
    BY <1>1, <2>1 DEF Kept, Tells
  <2>2. CASE i \notin MessageIds
    <3>1. PICK c \in calls : SendStore(c) /\ messages'[i].text = c.text
      BY <2>2, RowsGrow
    <3> QED
      BY <3>1 DEF SendStore, Tells, CallTells
  <2> QED
    BY <2>1, <2>2
<1>5. ASSUME NEW f \in fetches' PROVE FetchTells(f)'
  <2>1. CASE f \in fetches
    BY <2>1 DEF Tells, FetchTells
  <2>2. CASE \E u \in Panes : Hear(u) /\ f = Fetch(u, "ALL", "joined")
    BY <2>2 DEF Fetch, FetchTells
  <2>3. CASE \E u \in ByOrder : \E c \in Channels : f = Fetch(u, c, "tab")
    BY <2>3 DEF Fetch, FetchTells
  <2>4. CASE \E g \in fetches : Found(g, f) \/ Marked(g, f)
    BY <2>4 DEF Found, Marked, Tells, FetchTells
  <2> QED
    BY <2>1, <2>2, <2>3, <2>4, FetchesCome
<1> QED
  BY <1>2, <1>3, <1>4, <1>5 DEF Tells

\* A pane of the messages page knows no conversation but the one of all parties.
PageFits(u) ==
    /\ pane[u].active = "ALL"
    /\ rooms[u] \subseteq {"ALL"}
    /\ \A c \in calls : c.by = u => c.room = "ALL"
    /\ \A e \in Events(u) : e.kind = "joined" => e.room = "ALL"
PagesFit == \A u \in Panes \ ByOrder : PageFits(u)

LEMMA PagesFitGoesOn ==
    ASSUME ChatInv, Tells, PagesFit, [ChatNext]_chatVars
    PROVE  PagesFit'
<1> SUFFICES ASSUME NEW u \in Panes, u \notin ByOrder PROVE PageFits(u)'
  BY DEF PagesFit
<1>1. /\ pane[u].active = "ALL" /\ rooms[u] \subseteq {"ALL"}
      /\ \A c \in calls : c.by = u => c.room = "ALL"
      /\ \A e \in Events(u) : e.kind = "joined" => e.room = "ALL"
  BY DEF PagesFit, PageFits
<1>2. pane'[u].active = "ALL"
  <2>1. CASE \E f \in fetches : Replaced(u, f)
    <3>1. PICK f \in fetches : Replaced(u, f)
      BY <2>1
    <3>2. f.why = "joined" /\ f.chan = "ALL"
      BY <3>1 DEF Replaced, Tells, FetchTells, ChatInv, FetchesFit, FetchFits, FetchRow
    <3> QED
      BY <3>1, <3>2 DEF Replaced
  <2>2. CASE \E e \in Events(u) : HeardJoined(u, e) \/ HeardMessage(u, e)
    BY <1>1, <2>2 DEF HeardJoined, HeardMessage, HearJoined
  <2> QED
    BY <1>1, <2>1, <2>2, PanesGo DEF Still
<1>3. rooms'[u] \subseteq {"ALL"}
  BY <1>1, RoomsGo
<1>4. ASSUME NEW d \in calls', d.by = u PROVE d.room = "ALL"
  <2>1. CASE NewRequest(d)
    <3>1. \A f \in fetches : f.by = u => f.why # "tab"
      BY DEF Tells, FetchTells
    <3>2. Base(u) = "ALL" /\ ChannelOf("ALL") = "ALL"
      BY DEF Base, ChannelOf
    <3> QED
      BY <1>1, <1>4, <2>1, <3>1, <3>2 DEF NewRequest
  <2>2. CASE NewSend(d)
    BY <1>1, <1>4, <2>2 DEF NewSend
  <2>3. CASE \E c \in calls : Proceeds(c, d) \/ StoredAs(c, d) \/ ToldAs(c, d)
    BY <1>1, <1>4, <2>3 DEF Proceeds, StoredAs, ToldAs, SameCall
  <2> QED
    BY <2>1, <2>2, <2>3, CallsCome
<1>5. ASSUME NEW e \in Events(u)', e.kind = "joined" PROVE e.room = "ALL"
  <2>1. CASE e \in Events(u)
    BY <1>1, <1>5, <2>1
  <2>2. CASE \E c \in calls : JoinEnter(c) /\ u = c.by /\ e = Joined(c.room)
    BY <1>1, <2>2, EventKinds
  <2>3. CASE \E c \in calls : SendCheck(c) /\ e = Ack(c, FALSE)
    BY <1>5, <2>3, EventKinds
  <2>4. CASE \E c \in calls : e = Message(c)
    BY <1>5, <2>4, EventKinds
  <2>5. CASE \E c \in calls : Concluded(c, u, e)
    <3>1. PICK c \in calls, ok \in BOOLEAN : e = Ack(c, ok)
      BY <2>5 DEF Concluded
    <3> QED
      BY <1>5, <3>1, EventKinds
  <2> QED
    BY <2>1, <2>2, <2>3, <2>4, <2>5, EventsCome DEF Refused, PartyTold
<1> QED
  BY <1>2, <1>3, <1>4, <1>5 DEF PageFits

\* A message is being told of by one request, and nobody has heard of it before the room.
Unheard(i) == \A u \in Panes : i \notin pane[u].seen /\ \A e \in Events(u) : e.kind = "message" => e.row # i
Telling(c) == c.at \in {"stored", "told"}
ToldOnce ==
    /\ \A c \in calls : c.at = "stored" => Unheard(c.row)
    /\ \A c, d \in calls : Telling(c) /\ Telling(d) /\ c.row = d.row => c = d

\* The messages that are new in an inbox.
LEMMA MessagesCome ==
    ASSUME ChatInv, [ChatNext]_chatVars, NEW u \in Panes, NEW e \in Events(u)', e \notin Events(u),
           e.kind = "message"
    PROVE  \E c \in calls : /\ e = Message(c) /\ e.row = c.row /\ e.text = c.text /\ e.try = c.try
                            /\ SendEmit(c) \/ PartyTold(c, u, e)
<1>1. CASE \E c \in calls : SendEmit(c) /\ e = Message(c)
  BY <1>1, EventKinds
<1>2. CASE \E c \in calls : PartyTold(c, u, e)
  BY <1>2, EventKinds DEF PartyTold
<1>3. CASE \E c \in calls : e = Joined(c.room) \/ e = Ack(c, FALSE)
  BY <1>3, EventKinds
<1>4. CASE \E c \in calls : Concluded(c, u, e)
  <2>1. PICK c \in calls, ok \in BOOLEAN : e = Ack(c, ok)
    BY <1>4 DEF Concluded
  <2> QED
    BY <2>1, EventKinds
<1> QED
  BY <1>1, <1>2, <1>3, <1>4, EventsCome

LEMMA ToldOnceGoesOn ==
    ASSUME ChatInv, Tells, ToldOnce, [ChatNext]_chatVars
    PROVE  ToldOnce'
<1>1. \A u \in Panes : /\ pane[u].seen \subseteq MessageIds
                       /\ \A e \in Events(u) : e.kind = "message" => e.row \in MessageIds
  BY EventsFitting DEF ChatInv, PanesFit, EventsFor, MayRead
<1>2. ASSUME NEW c \in calls, c.at = "stored", ~SendEmit(c) PROVE Unheard(c.row)'
  <2> SUFFICES ASSUME NEW u \in Panes
               PROVE  c.row \notin pane'[u].seen /\ \A e \in Events(u)' : e.kind = "message" => e.row # c.row
    BY DEF Unheard
  <2>1. c.row \notin pane[u].seen /\ \A e \in Events(u) : e.kind = "message" => e.row # c.row
    BY <1>2 DEF ToldOnce, Unheard
  <2>2. c.row \notin pane'[u].seen
    <3>1. ASSUME NEW e \in Events(u), HeardMessage(u, e) PROVE c.row \notin pane'[u].seen
      BY <2>1, <3>1 DEF HeardMessage, HearMessage
    <3> QED
      BY <2>1, <3>1, PanesGo DEF Still, Replaced, HeardJoined
  <2>3. ASSUME NEW e \in Events(u)', e.kind = "message" PROVE e.row # c.row
    <3>1. CASE e \in Events(u)
      BY <2>1, <2>3, <3>1
    <3>2. CASE e \notin Events(u)
      <4>1. PICK d \in calls : e.row = d.row /\ (SendEmit(d) \/ PartyTold(d, u, e))
        BY <2>3, <3>2, MessagesCome
      <4>2. Telling(d) /\ d # c
        BY <1>2, <4>1 DEF SendEmit, PartyTold, SendAnswer, Telling
      <4> QED
        BY <1>2, <4>1, <4>2 DEF ToldOnce, Telling
    <3> QED
      BY <3>1, <3>2
  <2> QED
    BY <2>2, <2>3
<1>3. ASSUME NEW d \in calls', Telling(d), NEW c \in calls, Telling(c), c.row = d.row, SendEmit(c)
      PROVE  d.at = "told" /\ calls' = (calls \ {c}) \cup {d}
  <2>1. PICK e : e.at = "told" /\ calls' = (calls \ {c}) \cup {e}
    <3>1. c \in CallRow
      BY DEF ChatInv, CallsFit, CallFits
    <3> QED
      BY <1>3, <3>1, MovedCall DEF SendEmit, At
  <2>2. ASSUME d # e PROVE FALSE
    BY <1>3, <2>1, <2>2 DEF ToldOnce
  <2> QED
    BY <2>1, <2>2
<1>4. ASSUME NEW d \in calls', Telling(d), ~\E c \in calls : StoredAs(c, d)
      PROVE  \E c \in calls : /\ Telling(c) /\ c.row = d.row
                              /\ d.at = "stored" => c.at = "stored" /\ ~SendEmit(c)
                              /\ SendEmit(c) \/ d = Successor(c)
  <2>1. ~NewRequest(d) /\ ~NewSend(d)
    BY <1>4 DEF NewRequest, NewSend, Telling
  <2>2. CASE \E c \in calls : Proceeds(c, d)
    <3>1. PICK c \in calls : Proceeds(c, d)
      BY <2>2
    <3>2. c.at = d.at /\ c.row = d.row /\ d = Successor(c) /\ Telling(c)
      BY <1>4, <3>1 DEF Proceeds, Telling
    <3>3. SendEmit(c) => d.at # "stored"
      BY <1>3, <1>4, <3>2
    <3> QED
      BY <3>2, <3>3
  <2>3. CASE \E c \in calls : ToldAs(c, d)
    BY <2>3 DEF ToldAs, SendEmit, Telling
  <2> QED
    BY <1>4, <2>1, <2>2, <2>3, CallsCome
<1>5. ASSUME NEW c \in calls, NEW d \in calls', StoredAs(c, d)
      PROVE  /\ Unheard(d.row)'
             /\ \A x \in calls' : Telling(x) /\ x.row = d.row => x = d
  <2>1. d.row \notin MessageIds /\ UNCHANGED <<inbox, pane>>
    BY <1>5, StoredRow DEF StoredAs, SendStore
  <2>2. Unheard(d.row)'
    BY <1>1, <2>1, SameEvents DEF Unheard
  <2>3. ASSUME NEW x \in calls', Telling(x), x.row = d.row, x # d PROVE FALSE
    <3>1. x \in calls /\ x.row \in MessageIds
      BY <1>5, <2>3 DEF StoredAs, Tells, CallTells, Telling
    <3> QED
      BY <2>1, <2>3, <3>1
  <2> QED
    BY <2>2, <2>3
<1>6. ASSUME NEW d \in calls', d.at = "stored" PROVE Unheard(d.row)'
  <2>1. Telling(d)
    BY <1>6 DEF Telling
  <2> QED
    BY <1>2, <1>4, <1>5, <1>6, <2>1
<1>7. ASSUME NEW c \in calls', NEW d \in calls', Telling(c), Telling(d), c.row = d.row
      PROVE  c = d
  <2>1. CASE \E x \in calls : StoredAs(x, c) \/ StoredAs(x, d)
    BY <1>5, <1>7, <2>1
  <2>2. CASE ~\E x \in calls : StoredAs(x, c) \/ StoredAs(x, d)
    <3>1. PICK x \in calls : Telling(x) /\ x.row = c.row /\ (SendEmit(x) \/ c = Successor(x))
      BY <1>4, <1>7, <2>2
    <3>2. PICK y \in calls : Telling(y) /\ y.row = d.row /\ (SendEmit(y) \/ d = Successor(y))
      BY <1>4, <1>7, <2>2
    <3>3. x = y
      BY <1>7, <3>1, <3>2 DEF ToldOnce
    <3>4. CASE SendEmit(x)
      <4>1. calls' = (calls \ {x}) \cup {c} /\ calls' = (calls \ {x}) \cup {d}
        BY <1>3, <1>7, <3>1, <3>2, <3>3, <3>4
      <4>2. ASSUME c # d PROVE FALSE
        <5>1. c \in calls /\ c # x
          BY <4>1, <4>2
        <5> QED
          BY <1>7, <3>1, <5>1 DEF ToldOnce
      <4> QED
        BY <4>2
    <3>5. CASE ~SendEmit(x)
      BY <3>1, <3>2, <3>3, <3>5
    <3> QED
      BY <3>4, <3>5
  <2> QED
    BY <2>1, <2>2
<1> QED
  BY <1>6, <1>7 DEF ToldOnce, Telling

-----------------------------------------------------------------------------
(* Unless an answer timed out or failed after the room was told, a text is   *)
(* sent or stored once: until the room is told, its one request stands for it. *)

Sends(t) == { c \in calls : c.op = "send" /\ c.text = t /\ c.at # "told" }
AnswersFit == mishaps \cap {"TIMED_OUT", "UNTOLD"} = {}
Free(t) == Sends(t) = {} /\ \A i \in MessageIds : messages[i].text # t
Refuses(e, t) == e.kind = "ack" /\ ~e.ok /\ e.text = t

CallsOfText(t) ==
    /\ \A c, d \in Sends(t) : c = d
    /\ \A c \in Sends(t) : c.try <= draft[t].try
    /\ \A c \in Sends(t), i \in MessageIds : messages[i].text = t => c.at = "stored" /\ c.row = i
DraftOfText(t) ==
    /\ draft[t].state = "NEW" => draft[t].try = 0
    /\ draft[t].state \in {"NEW", "FAILED"} => Free(t)
    /\ draft[t].state = "SENT" => Sends(t) = {}
EventsOfText(t) == \A u \in Panes : \A e \in Events(u) :
    /\ Refuses(e, t) => e.try <= draft[t].try /\ (e.try = draft[t].try => Free(t))
    /\ e.kind = "message" /\ e.text = t => Sends(t) = {}
AuthorOfText(t) ==
    /\ \A c \in Sends(t) : c.by = draft[t].by
    /\ \A i \in MessageIds : messages[i].text = t => messages[i].from = draft[t].by
TextOnce(t) ==
    /\ \A i, j \in MessageIds : messages[i].text = t /\ messages[j].text = t => i = j
    /\ CallsOfText(t) /\ DraftOfText(t) /\ EventsOfText(t) /\ AuthorOfText(t)
TextsOnce == AnswersFit => \A t \in Texts : TextOnce(t)

LEMMA SendsCome ==
    ASSUME ChatInv, [ChatNext]_chatVars, NEW t \in Texts, NEW d \in Sends(t)'
    PROVE  \/ \E c \in Sends(t) : (Proceeds(c, d) \/ StoredAs(c, d)) /\ d.try = c.try /\ d.by = c.by
           \/ \E u \in Panes, n \in Nat : Says(u, t, n) /\ d.try = n /\ d.by = u
<1>1. d \in calls' /\ d.op = "send" /\ d.text = t /\ d.at # "told"
  BY DEF Sends
<1>2. ~NewRequest(d) /\ ~\E c \in calls : ToldAs(c, d)
  BY <1>1 DEF NewRequest, ToldAs
<1>3. CASE NewSend(d)
  BY <1>1, <1>3 DEF NewSend
<1>4. CASE \E c \in calls : Proceeds(c, d)
  <2>1. PICK c \in calls : Proceeds(c, d)
    BY <1>4
  <2>2. c.at # "told"
    BY <1>1, <2>1 DEF Proceeds
  <2> QED
    BY <1>1, <2>1, <2>2 DEF Proceeds, SameCall, Sends
<1>5. CASE \E c \in calls : StoredAs(c, d)
  BY <1>1, <1>5 DEF StoredAs, SendStore, SameCall, Sends
<1> QED
  BY <1>1, <1>2, <1>3, <1>4, <1>5, CallsCome

LEMMA FreeStays ==
    ASSUME ChatInv, [ChatNext]_chatVars, NEW t \in Texts, Sends(t) = {},
           ~\E u \in Panes, n \in Nat : Says(u, t, n)
    PROVE  Sends(t)' = {} /\ (Free(t) => Free(t)')
<1>1. Sends(t)' = {}
  BY SendsCome
<1>2. ASSUME Free(t), NEW i \in MessageIds' PROVE messages'[i].text # t
  <2>1. CASE i \in MessageIds
    BY <1>2, <2>1, RowsGrow DEF Free, Kept
  <2>2. CASE i \notin MessageIds
    <3>1. PICK c \in calls : SendStore(c) /\ messages'[i].text = c.text
      BY <2>2, RowsGrow
    <3> QED
      BY <3>1 DEF SendStore, Sends
  <2> QED
    BY <2>1, <2>2
<1> QED
  BY <1>1, <1>2 DEF Free

LEMMA OneHeir ==
    ASSUME ChatInv, [ChatNext]_chatVars, NEW t \in Texts, NEW c \in calls, Sends(t) \subseteq {c},
           ~\E u \in Panes, n \in Nat : Says(u, t, n)
    PROVE  \E d : Sends(t)' \subseteq {d}
<1>1. ASSUME NEW u \in Panes, Connect(u) PROVE \E d : Sends(t)' \subseteq {d}
  <2> DEFINE d == IF c.by = u /\ c.at = "buffered" THEN [c EXCEPT !.at = "sent"] ELSE c
  <2> SUFFICES ASSUME NEW x \in Sends(t)' PROVE x = d
    OBVIOUS
  <2>1. x \in calls' /\ x.op = "send" /\ x.text = t /\ x.at # "told"
    BY DEF Sends
  <2>2. Request("join", u, Base(u)).op = "join"
    BY DEF Request
  <2>3. PICK y \in calls : x = IF y.by = u /\ y.at = "buffered" THEN [y EXCEPT !.at = "sent"] ELSE y
    BY <1>1, <2>1, <2>2 DEF Connect
  <2>4. y \in CallRow
    BY DEF ChatInv, CallsFit, CallFits
  <2>5. SameCall(y, x)
    BY <2>3, <2>4, MovedCall DEF SameCall
  <2>6. y \in Sends(t)
    <3>1. y.at # "told"
      BY <2>1, <2>3
    <3>2. y.op = "send" /\ y.text = t
      BY <2>1, <2>5 DEF SameCall
    <3> QED
      BY <3>1, <3>2 DEF Sends
  <2> QED
    BY <2>3, <2>6
<1>2. ASSUME NEW u \in Panes, Disconnect(u) PROVE \E d : Sends(t)' \subseteq {d}
  <2> DEFINE d == IF c.by = u THEN Orphan(c) ELSE c
  <2> SUFFICES ASSUME NEW x \in Sends(t)' PROVE x = d
    OBVIOUS
  <2>1. x \in calls' /\ x.op = "send" /\ x.text = t /\ x.at # "told"
    BY DEF Sends
  <2>2. PICK y \in calls : (y.by # u /\ x = y) \/ (y.by = u /\ x = Orphan(y))
    BY <1>2, <2>1 DEF Disconnect
  <2>3. y \in CallRow
    BY DEF ChatInv, CallsFit, CallFits
  <2>4. y \in Sends(t)
    BY <2>1, <2>2, <2>3 DEF Orphan, Request, CallRow, Sends
  <2> QED
    BY <2>2, <2>4
<1>3. ASSUME NEW b \in calls, b.at # "told", NEW w \in {"entering", "checked"}, calls' = At(b, w)
      PROVE \E d : Sends(t)' \subseteq {d}
  <2>1. b \in CallRow
    BY DEF ChatInv, CallsFit, CallFits
  <2>2. SameCall(b, [b EXCEPT !.at = w])
    BY <2>1, MovedCall
  <2>3. CASE b \in Sends(t)
    <3> DEFINE d == [b EXCEPT !.at = w]
    <3>1. b = c
      BY <2>3
    <3>2. calls' = (calls \ {b}) \cup {d}
      BY <1>3 DEF At
    <3>3. PICK x : x = d
      OBVIOUS
    <3> HIDE DEF d
    <3>4. Sends(t)' \subseteq {x}
      BY <3>1, <3>2, <3>3 DEF Sends
    <3> QED
      BY <3>4
  <2>4. CASE b \notin Sends(t)
    <3>1. b.op # "send" \/ b.text # t
      BY <1>3, <2>4 DEF Sends
    <3>2. Sends(t)' \subseteq {c}
      BY <1>3, <2>2, <3>1 DEF At, Sends, SameCall
    <3> QED
      BY <3>2
  <2> QED
    BY <2>3, <2>4
<1>4. ASSUME NEW b \in calls, SendStore(b) PROVE \E d : Sends(t)' \subseteq {d}
  <2>1. PICK e : StoredAs(b, e)
    BY <1>4, StoringStores
  <2>2. CASE b \in Sends(t)
    <3>1. Sends(t)' \subseteq {e}
      BY <2>1, <2>2 DEF StoredAs, Sends
    <3> QED
      BY <3>1
  <2>3. CASE b \notin Sends(t)
    <3>1. Sends(t)' \subseteq {c}
      BY <1>4, <2>1, <2>3 DEF StoredAs, SendStore, Sends, SameCall
    <3> QED
      BY <3>1
  <2> QED
    BY <2>2, <2>3
<1>5. ASSUME \A d \in calls' \ calls : d.op # "send" \/ d.text # t \/ d.at = "told" PROVE Sends(t)' \subseteq {c}
  BY <1>5 DEF Sends
<1>6. CASE \E u \in Panes : Connect(u) \/ Disconnect(u)
  BY <1>1, <1>2, <1>6
<1>7. CASE \E b \in calls : JoinLoad(b) \/ SendCheck(b) \/ SendStore(b)
  <2>1. PICK b \in calls : JoinLoad(b) \/ SendCheck(b) \/ SendStore(b)
    BY <1>7
  <2>2. \/ SendStore(b)
        \/ calls' \subseteq calls
        \/ b.at # "told" /\ \E w \in {"entering", "checked"} : calls' = At(b, w)
    BY <2>1 DEF JoinLoad, SendCheck, Refuse, Pass
  <2> QED
    BY <1>3, <1>4, <1>5, <2>2
<1>8. CASE \E u \in Panes, x \in Texts : Type(u, x) \/ Retry(u, x)
  <2>1. PICK u \in Panes, x \in Texts, n \in Nat : Says(u, x, n)
    BY <1>8, TypingSends
  <2>2. x # t
    BY <2>1
  <2>3. PICK room, tab : calls' = calls \cup {Send(u, room, x, n, tab)}
    BY <2>1 DEF Says, SendText
  <2>4. Send(u, room, x, n, tab).text = x
    BY DEF Send, Request
  <2> QED
    BY <1>5, <2>2, <2>3, <2>4
<1>9. CASE \E u \in Panes : Hear(u)
  <2>1. PICK u \in Panes : Hear(u)
    BY <1>9
  <2>2. PICK room : calls' \subseteq calls \cup {Request("read", u, room)}
    BY <2>1 DEF Hear, HearJoined, HearMessage, HearAck
  <2>3. Request("read", u, room).op = "read"
    BY DEF Request
  <2> QED
    BY <1>5, <2>2, <2>3
<1>10. CASE \E f \in fetches : FetchApply(f)
  <2>1. PICK f \in fetches : calls' \subseteq calls \cup {Request("join", f.by, f.chan)}
    BY <1>10 DEF FetchApply
  <2>2. Request("join", f.by, f.chan).op = "join"
    BY DEF Request
  <2> QED
    BY <1>5, <2>1, <2>2
<1>11. CASE \/ \E u \in Panes : AckTimeout(u) \/ \E ch \in Channels : SwitchTab(u, ch)
            \/ \E b \in calls : JoinEnter(b) \/ Read(b) \/ SendAnswer(b)
            \/ \E f \in fetches : FetchFind(f) \/ FetchMark(f) \/ FetchFails(f)
            \/ LockOrder \/ UNCHANGED chatVars
  <2>1. calls' \subseteq calls
    BY <1>11 DEF AckTimeout, SwitchTab, JoinEnter, Read, SendAnswer, FetchFind, FetchMark, FetchFails,
                 LockOrder, chatVars
  <2> QED
    BY <1>5, <2>1
<1>12. CASE \E b \in calls : SendEmit(b)
  <2>1. PICK b \in calls : SendEmit(b)
    BY <1>12
  <2>2. [b EXCEPT !.at = "told"].at = "told"
    BY MovedCall DEF ChatInv, CallsFit, CallFits
  <2> QED
    BY <1>5, <2>1, <2>2 DEF SendEmit, At
<1> QED
  BY <1>6, <1>7, <1>8, <1>9, <1>10, <1>11, <1>12 DEF ChatNext

\* Once the room is told, the text's one request no longer stands for it.
LEMMA EmitEnds ==
    ASSUME ChatInv, NEW t, CallsOfText(t), NEW c \in Sends(t), SendEmit(c)
    PROVE  Sends(t)' = {}
<1>1. [c EXCEPT !.at = "told"].at = "told"
  BY MovedCall DEF ChatInv, CallsFit, CallFits, Sends
<1> QED
  BY <1>1 DEF SendEmit, At, Sends, CallsOfText

\* A text is typed when no try of it is under way or stored.
LEMMA Typed ==
    ASSUME ChatInv, NEW t \in Texts, DraftOfText(t), NEW u \in Panes, NEW n \in Nat, Says(u, t, n)
    PROVE  /\ Free(t) /\ n = draft[t].try + 1
           /\ draft'[t].state = "SENDING" /\ draft'[t].try = n /\ draft'[t].by = u
           /\ UNCHANGED <<messages, inbox>>
           /\ \E d : Sends(t)' \subseteq {d} /\ d.try = n
<1>1. draft \in [Texts -> DraftRow] /\ draft[t].try \in Nat
  <2>1. draft[t] \in DraftRow
    BY DEF ChatInv, DraftsFit
  <2> QED
    BY <2>1 DEF ChatInv, DraftsFit, DraftRow
<1>2. SendText(u, t, n) /\ Free(t) /\ n = draft[t].try + 1
  BY <1>1 DEF Says, DraftOfText
<1>3. PICK room, tab : calls' = calls \cup {Send(u, room, t, n, tab)}
  BY <1>2 DEF SendText
<1>4. Send(u, room, t, n, tab).try = n
  BY DEF Send, Request
<1>5. Sends(t)' \subseteq {Send(u, room, t, n, tab)}
  BY <1>2, <1>3 DEF Sends, Free
<1> QED
  BY <1>1, <1>2, <1>4, <1>5 DEF SendText

LEMMA NotTyped ==
    ASSUME ChatInv, [ChatNext]_chatVars, NEW t \in Texts, ~\E u \in Panes, n \in Nat : Says(u, t, n)
    PROVE  draft'[t].try = draft[t].try
BY DraftsGo DEF Sent, Becomes

LEMMA AuthorOfTextStays ==
    ASSUME ChatInv, [ChatNext]_chatVars, NEW t \in Texts, TextOnce(t)
    PROVE  AuthorOfText(t)'
<1>1. CASE \E u \in Panes, n \in Nat : Says(u, t, n)
  <2>1. PICK u \in Panes, n \in Nat : Says(u, t, n)
    BY <1>1
  <2>2. Free(t) /\ draft'[t].by = u /\ UNCHANGED messages
    BY <2>1, Typed DEF TextOnce
  <2>3. ASSUME NEW d \in Sends(t)' PROVE d.by = draft'[t].by
    <3>1. PICK v \in Panes, m \in Nat : Says(v, t, m) /\ d.by = v
      BY <2>2, <2>3, SendsCome DEF Free
    <3> QED
      BY <3>1, Typed DEF TextOnce
  <2> QED
    BY <2>2, <2>3 DEF AuthorOfText, Free, MessageIds
<1>2. CASE ~\E u \in Panes, n \in Nat : Says(u, t, n)
  <2>1. draft'[t].by = draft[t].by
    BY <1>2, DraftsGo DEF Sent, Becomes
  <2>2. ASSUME NEW d \in Sends(t)' PROVE d.by = draft'[t].by
    BY <1>2, <2>1, <2>2, SendsCome DEF TextOnce, AuthorOfText
  <2>3. ASSUME NEW i \in MessageIds', messages'[i].text = t PROVE messages'[i].from = draft'[t].by
    <3>1. CASE i \in MessageIds
      BY <2>1, <2>3, <3>1, RowsGrow DEF Kept, TextOnce, AuthorOfText
    <3>2. CASE i \notin MessageIds
      <4>1. PICK c \in calls : SendStore(c) /\ messages'[i].text = c.text /\ messages'[i].from = c.by
        BY <3>2, RowsGrow
      <4>2. c \in Sends(t)
        BY <2>3, <4>1 DEF SendStore, Sends
      <4> QED
        BY <2>1, <4>1, <4>2 DEF TextOnce, AuthorOfText
    <3> QED
      BY <3>1, <3>2
  <2> QED
    BY <2>2, <2>3 DEF AuthorOfText
<1> QED
  BY <1>1, <1>2

LEMMA CallsOfTextStay ==
    ASSUME ChatInv, [ChatNext]_chatVars, NEW t \in Texts, TextOnce(t)
    PROVE  CallsOfText(t)'
<1>1. CASE \E u \in Panes, n \in Nat : Says(u, t, n)
  <2>1. PICK u \in Panes, n \in Nat : Says(u, t, n)
    BY <1>1
  <2>2. /\ Free(t) /\ draft'[t].try = n /\ UNCHANGED messages
        /\ \E d : Sends(t)' \subseteq {d} /\ d.try = n
    BY <2>1, Typed DEF TextOnce
  <2> QED
    BY <2>2 DEF CallsOfText, Free, MessageIds
<1>2. CASE ~\E u \in Panes, n \in Nat : Says(u, t, n)
  <2>1. ASSUME NEW c \in Sends(t)', NEW d \in Sends(t)' PROVE c = d
    <3>1. PICK b \in Sends(t) : TRUE
      BY <1>2, <2>1, FreeStays
    <3>2. Sends(t) \subseteq {b} /\ b \in calls
      BY <3>1 DEF TextOnce, CallsOfText, Sends
    <3> QED
      BY <1>2, <2>1, <3>2, OneHeir
  <2>2. ASSUME NEW d \in Sends(t)' PROVE d.try <= draft'[t].try
    <3>1. PICK c \in Sends(t) : d.try = c.try
      BY <1>2, <2>2, SendsCome
    <3> QED
      BY <1>2, <3>1, NotTyped DEF TextOnce, CallsOfText
  <2>3. ASSUME NEW d \in Sends(t)', NEW i \in MessageIds', messages'[i].text = t
        PROVE  d.at = "stored" /\ d.row = i
    <3>1. CASE i \in MessageIds
      <4>1. messages[i].text = t
        BY <2>3, <3>1, RowsGrow DEF Kept
      <4>2. PICK c \in Sends(t) : TRUE
        BY <1>2, <2>3, SendsCome
      <4>3. c \in calls /\ c.op = "send" /\ c.text = t /\ c.at = "stored" /\ c.row = i
        BY <3>1, <4>1, <4>2 DEF TextOnce, CallsOfText, Sends
      <4>4. ~SendEmit(c)
        <5>1. ASSUME SendEmit(c) PROVE Sends(t)' = {}
          BY <4>2, <5>1, EmitEnds DEF TextOnce
        <5> QED
          BY <2>3, <5>1
      <4>5. PICK e \in calls' : SameCall(c, e) /\ SameRow(c, e)
        BY <4>3, <4>4, CallsGo DEF Goes, JoinEnter, Read, Refused, SendCheck, SendAnswer
      <4>6. e \in Sends(t)' /\ e.at = "stored" /\ e.row = i
        BY <4>3, <4>5 DEF SameCall, SameRow, Sends
      <4> QED
        BY <2>1, <2>3, <4>6
    <3>2. CASE i \notin MessageIds
      <4>1. PICK c \in calls : SendStore(c) /\ i = Len(messages) + 1 /\ messages'[i].text = c.text
        BY <2>3, <3>2, RowsGrow
      <4>2. PICK e : StoredAs(c, e)
        BY <4>1, StoringStores
      <4>3. e \in Sends(t)' /\ e.at = "stored" /\ e.row = i
        BY <2>3, <4>1, <4>2 DEF StoredAs, SendStore, SameCall, Sends
      <4> QED
        BY <2>1, <2>3, <4>3
    <3> QED
      BY <3>1, <3>2
  <2> QED
    BY <2>1, <2>2, <2>3 DEF CallsOfText
<1> QED
  BY <1>1, <1>2

LEMMA DraftOfTextStays ==
    ASSUME ChatInv, [ChatNext]_chatVars, NEW t \in Texts, TextOnce(t), AnswersFit'
    PROVE  DraftOfText(t)'
<1>1. CASE \E u \in Panes, n \in Nat : Says(u, t, n)
  BY <1>1, Typed DEF TextOnce, DraftOfText
<1>2. CASE ~\E u \in Panes, n \in Nat : Says(u, t, n)
  <2>1. draft'[t].state = "NEW" => draft[t].state = "NEW" /\ draft'[t].try = draft[t].try
    BY <1>2, DraftsGo DEF Sent, Becomes
  <2>2. draft'[t].state = "FAILED" => Free(t)
    <3>1. ASSUME NEW u \in Panes, NEW e \in Events(u), IsTry(t, u, e.try), e.text = t, HearAck(u, e), ~e.ok
          PROVE  Free(t)
      BY <3>1 DEF TextOnce, EventsOfText, Refuses, HearAck, IsTry
    <3> QED
      BY <1>2, <3>1, DraftsGo DEF Sent, Becomes, TextOnce, DraftOfText, AnswersFit
  <2>3. draft'[t].state = "SENT" => Sends(t) = {}
    <3>1. ASSUME NEW u \in Panes, NEW e \in Events(u), e.text = t, HearMessage(u, e)
          PROVE  Sends(t) = {}
      BY <3>1 DEF TextOnce, EventsOfText, HearMessage
    <3> QED
      BY <1>2, <3>1, DraftsGo DEF Sent, Becomes, TextOnce, DraftOfText
  <2>4. (Sends(t) = {} => Sends(t)' = {}) /\ (Free(t) => Free(t)')
    BY <1>2, FreeStays DEF Free
  <2> QED
    BY <2>1, <2>2, <2>3, <2>4 DEF TextOnce, DraftOfText
<1> QED
  BY <1>1, <1>2

LEMMA EventsOfTextStay ==
    ASSUME ChatInv, Tells, ToldOnce, [ChatNext]_chatVars, NEW t \in Texts, TextOnce(t), AnswersFit'
    PROVE  EventsOfText(t)'
<1> DEFINE told(e) == /\ Refuses(e, t) => e.try <= draft'[t].try /\ (e.try = draft'[t].try => Free(t)')
                      /\ e.kind = "message" /\ e.text = t => Sends(t)' = {}
<1> SUFFICES ASSUME NEW u \in Panes, NEW e \in Events(u)' PROVE told(e)
  BY DEF EventsOfText, Refuses
<1>1. draft[t].try \in Nat
  <2>1. draft[t] \in DraftRow
    BY DEF ChatInv, DraftsFit
  <2> QED
    BY <2>1 DEF DraftRow
<1>2. CASE e \in Events(u)
  <2>1. /\ Refuses(e, t) => e.try <= draft[t].try /\ (e.try = draft[t].try => Free(t))
        /\ e.kind = "message" /\ e.text = t => Sends(t) = {}
    BY <1>2 DEF TextOnce, EventsOfText
  <2>2. /\ e \in EventRow /\ e.try \in Nat
        /\ e.kind = "message" => e.row \in MessageIds /\ messages[e.row].text = e.text
    BY <1>2, EventsFitting DEF EventsFor, EventRow, MayRead, Tells, EventTells
  <2>3. CASE \E v \in Panes, n \in Nat : Says(v, t, n)
    <3>1. Free(t) /\ draft'[t].try = draft[t].try + 1
      BY <2>3, Typed DEF TextOnce
    <3>2. ~(e.kind = "message" /\ e.text = t)
      BY <2>2, <3>1 DEF Free
    <3>3. Refuses(e, t) => e.try <= draft'[t].try /\ e.try # draft'[t].try
      BY <1>1, <2>1, <2>2, <3>1
    <3> QED
      BY <3>2, <3>3
  <2>4. CASE ~\E v \in Panes, n \in Nat : Says(v, t, n)
    <3>1. draft'[t].try = draft[t].try
      BY <2>4, NotTyped
    <3>2. (Sends(t) = {} => Sends(t)' = {}) /\ (Free(t) => Free(t)')
      BY <2>4, FreeStays DEF Free
    <3> QED
      BY <2>1, <3>1, <3>2
  <2> QED
    BY <2>3, <2>4
<1>3. CASE \E c \in calls : JoinEnter(c) /\ e = Joined(c.room)
  BY <1>3, EventKinds DEF Refuses
<1>4. CASE \E c \in calls : Refused(c) /\ e = Ack(c, FALSE)
  <2>1. PICK c \in calls : Refused(c) /\ e = Ack(c, FALSE)
    BY <1>4
  <2>2. e.kind = "ack" /\ e.text = c.text /\ e.try = c.try
    BY <2>1, EventKinds
  <2>3. /\ c.op = "send" /\ c.at = "sent" /\ calls' = calls \ {c} /\ UNCHANGED <<messages, draft>>
    BY <2>1 DEF Refused, SendCheck
  <2>4. ASSUME e.text = t PROVE e.try <= draft'[t].try /\ Free(t)'
    <3>1. c \in Sends(t)
      BY <2>2, <2>3, <2>4 DEF Sends
    <3>2. Sends(t)' = {}
      BY <2>3, <3>1 DEF TextOnce, CallsOfText, Sends
    <3>3. \A i \in MessageIds' : messages'[i].text # t
      BY <2>3, <3>1 DEF TextOnce, CallsOfText, MessageIds
    <3> QED
      BY <2>2, <2>3, <3>1, <3>2, <3>3 DEF Free, TextOnce, CallsOfText
  <2> QED
    BY <2>2, <2>4 DEF Refuses
<1>5. CASE \E c \in calls : SendEmit(c) /\ e = Message(c)
  <2>1. PICK c \in calls : SendEmit(c) /\ e = Message(c)
    BY <1>5
  <2>2. e.kind = "message" /\ e.text = c.text
    BY <2>1, EventKinds
  <2>3. ASSUME e.text = t PROVE Sends(t)' = {}
    <3>1. c \in Sends(t)
      BY <2>1, <2>2, <2>3 DEF SendEmit, Sends
    <3> QED
      BY <2>1, <3>1, EmitEnds DEF TextOnce
  <2> QED
    BY <2>2, <2>3 DEF Refuses
<1>6. CASE \E c \in calls : PartyTold(c, u, e)
  <2>1. PICK c \in calls : SendAnswer(c) /\ c.at = "told" /\ e = Message(c)
    BY <1>6 DEF PartyTold, SendAnswer
  <2>2. e.kind = "message" /\ e.text = c.text
    BY <2>1, EventKinds
  <2>3. c.row \in MessageIds /\ messages[c.row].text = c.text
    BY <2>1 DEF Tells, CallTells
  <2>4. ASSUME e.text = t, NEW d \in Sends(t) PROVE FALSE
    <3>1. d.at = "stored" /\ d.row = c.row /\ d \in calls
      BY <2>2, <2>3, <2>4 DEF TextOnce, CallsOfText, Sends
    <3> QED
      BY <2>1, <3>1 DEF ToldOnce, Telling
  <2>5. Sends(t)' \subseteq Sends(t)
    BY <2>1 DEF SendAnswer, Sends
  <2> QED
    BY <2>2, <2>4, <2>5 DEF Refuses
<1>7. CASE \E c \in calls : Concluded(c, u, e)
  <2>1. PICK c \in calls, ok \in BOOLEAN : e = Ack(c, ok) /\ ok
    BY <1>7 DEF Concluded, AnswersFit
  <2> QED
    BY <2>1, EventKinds DEF Refuses
<1> HIDE DEF told
<1> QED
  BY <1>2, <1>3, <1>4, <1>5, <1>6, <1>7, EventsCome

LEMMA TextsOnceGoesOn ==
    ASSUME ChatInv, Tells, ToldOnce, TextsOnce, [ChatNext]_chatVars
    PROVE  TextsOnce'
<1> SUFFICES ASSUME AnswersFit', NEW t \in Texts
             PROVE  TextOnce(t)'
  BY DEF TextsOnce
<1>1. TextOnce(t)
  BY RowsGrow DEF TextsOnce, AnswersFit
<1>2. ASSUME NEW i \in MessageIds', NEW j \in MessageIds', messages'[i].text = t, messages'[j].text = t
      PROVE  i = j
  <2>1. ASSUME NEW k \in MessageIds', messages'[k].text = t, k \notin MessageIds
        PROVE  k = Len(messages) + 1 /\ \A l \in MessageIds : messages[l].text # t
    <3>1. PICK c \in calls : SendStore(c) /\ k = Len(messages) + 1 /\ messages'[k].text = c.text
      BY <2>1, RowsGrow
    <3>2. c \in Sends(t) /\ c.at = "checked"
      BY <2>1, <3>1 DEF SendStore, Sends
    <3> QED
      BY <1>1, <3>1, <3>2 DEF TextOnce, CallsOfText
  <2>2. \A k \in MessageIds : messages'[k] = messages[k]
    BY RowsGrow DEF Kept
  <2>3. CASE i \in MessageIds /\ j \in MessageIds
    BY <1>1, <1>2, <2>2, <2>3 DEF TextOnce
  <2> QED
    BY <1>2, <2>1, <2>2, <2>3
<1> QED
  BY <1>1, <1>2, AuthorOfTextStays, CallsOfTextStay, DraftOfTextStays, EventsOfTextStay DEF TextOnce

-----------------------------------------------------------------------------
(* Whatever a pane lacks is on its way to it.  A joined pane asks for the    *)
(* rows of the conversation of all parties again, so a lost socket, a join   *)
(* under way or its event stands for all rows; else a row is stored and its  *)
(* parties not yet told, or told of and not yet heard, or in an answer.      *)

Reloads(u) ==
    \/ rooms[u] = {}
    \/ \E c \in calls : c.op = "join" /\ c.by = u
    \/ \E e \in Events(u) : e.kind = "joined"
    \/ \E f \in fetches : f.by = u /\ f.why = "joined" /\ f.at = "sent"
Due(u) == Reloads(u) \/ \E f \in fetches : f.by = u /\ f.why = "joined"
Stored(u, i) == \E c \in calls :
    /\ c.row = i
    /\ \/ c.at = "stored"
       \/ c.at = "told" /\ i \notin pane[u].seen /\ (u # c.by \/ ~c.alive)
Heralded(u, i) == i \notin pane[u].seen /\ \E e \in Events(u) : e.kind = "message" /\ e.row = i
Answered(u, i) == \E f \in fetches : f.by = u /\ f.why = "joined" /\ i \in f.got
Comes(u, i) == Reloads(u) \/ Stored(u, i) \/ Heralded(u, i) \/ Answered(u, i)

AllTold == Undisturbed /\ "UNTOLD" \notin mishaps

\* What a step does to it.
Asked(u) == \E f \in fetches' : f.by = u /\ f.why = "joined" /\ f.at = "found" /\ f.got = RowsOf("ALL")
HearsOf(u, i) == i \notin pane[u].seen /\ \E e \in Events(u) : HeardMessage(u, e) /\ e.row = i
Applied(u, i) == \E f \in fetches : FetchApply(f) /\ f.by = u /\ f.why = "joined" /\ i \in f.got

LEMMA Failing ==
    ASSUME NEW f, FetchFails(f), f.why = "joined"
    PROVE  ~Undisturbed'
BY DEF FetchFails, Note, Undisturbed

LEMMA Overwriting ==
    ASSUME NEW f, FetchApply(f), Undisturbed'
    PROVE  RowsOf(f.chan) \cap (pane[f.by].seen \cup pane[f.by].shown) \subseteq f.got
BY DEF FetchApply, Note, Undisturbed

LEMMA Joining ==
    ASSUME ChatInv, NEW c \in calls, JoinEnter(c)
    PROVE  Reloads(c.by)'
<1>1. c.by \in Panes /\ Deliver(c.by, Joined(c.room))
  BY DEF JoinEnter, ChatInv, CallsFit, CallFits, CallRow
<1>2. Joined(c.room) \in Events(c.by)'
  BY <1>1, DeliveredEvents
<1> QED
  BY <1>2, EventKinds DEF Reloads

LEMMA Hearing ==
    ASSUME NEW u, NEW e, HearJoined(u, e)
    PROVE  Reloads(u)'
<1>1. Fetch(u, "ALL", "joined") \in fetches'
  BY DEF HearJoined
<1>2. Fetch(u, "ALL", "joined").by = u /\ Fetch(u, "ALL", "joined").why = "joined"
      /\ Fetch(u, "ALL", "joined").at = "sent"
  BY DEF Fetch
<1> QED
  BY <1>1, <1>2 DEF Reloads

LEMMA Switching ==
    ASSUME ChatInv, NEW f \in fetches, FetchApply(f), f.why = "tab"
    PROVE  Reloads(f.by)'
<1>1. f.by \in Panes /\ UNCHANGED rooms
  BY DEF FetchApply, ChatInv, FetchesFit, FetchFits, FetchRow
<1>2. CASE f.by \in online
  <2>1. Request("join", f.by, f.chan) \in calls'
    BY <1>2 DEF FetchApply
  <2>2. Request("join", f.by, f.chan).op = "join" /\ Request("join", f.by, f.chan).by = f.by
    BY DEF Request
  <2> QED
    BY <2>1, <2>2 DEF Reloads
<1>3. CASE f.by \notin online
  BY <1>1, <1>3 DEF ChatInv, SocketsFit, SocketFits, Reloads
<1> QED
  BY <1>2, <1>3

LEMMA ReloadGoesOn ==
    ASSUME ChatInv, Tells, [ChatNext]_chatVars, NEW u \in Panes, Reloads(u), Undisturbed'
    PROVE  Reloads(u)' \/ Asked(u)
<1>1. CASE rooms[u] = {}
  BY <1>1, RoomsGo, Joining DEF Reloads
<1>2. CASE \E c \in calls : c.op = "join" /\ c.by = u
  <2>1. PICK c \in calls : c.op = "join" /\ c.by = u
    BY <1>2
  <2>2. c.at \notin {"stored", "told"}
    BY <2>1 DEF Tells, CallTells
  <2>3. ~Read(c) /\ ~SendEmit(c) /\ ~SendAnswer(c) /\ ~Refused(c)
    BY <2>1 DEF Read, SendEmit, SendAnswer, Refused, SendCheck
  <2> QED
    BY <2>1, <2>2, <2>3, CallsGo, Joining DEF Reloads, Goes, SameCall
<1>3. CASE \E e \in Events(u) : e.kind = "joined"
  <2>1. PICK e \in Events(u) : e.kind = "joined"
    BY <1>3
  <2>2. ~HearMessage(u, e) /\ ~HearAck(u, e)
    BY <2>1 DEF HearMessage, HearAck
  <2> QED
    BY <2>1, <2>2, EventsGo, Hearing DEF Reloads
<1>4. CASE \E f \in fetches : f.by = u /\ f.why = "joined" /\ f.at = "sent"
  <2>1. PICK f \in fetches : f.by = u /\ f.why = "joined" /\ f.at = "sent"
    BY <1>4
  <2>2. f.chan = "ALL"
    BY <2>1 DEF Tells, FetchTells
  <2>3. ~FetchApply(f) /\ ~FetchFails(f) /\ ~FetchMark(f)
    BY <2>1, Failing DEF FetchApply, FetchMark
  <2> QED
    BY <2>1, <2>2, <2>3, FetchesGo DEF Reloads, Asked, Found, Marked
<1> QED
  BY <1>1, <1>2, <1>3, <1>4 DEF Reloads

LEMMA DueGoesOn ==
    ASSUME ChatInv, Tells, [ChatNext]_chatVars, NEW u \in Panes, Due(u), Undisturbed'
    PROVE  Due(u)' \/ \E f \in fetches : FetchApply(f) /\ f.by = u /\ f.chan = "ALL"
<1>1. CASE Reloads(u)
  BY <1>1, ReloadGoesOn DEF Asked, Due
<1>2. CASE \E f \in fetches : f.by = u /\ f.why = "joined"
  <2>1. PICK f \in fetches : f.by = u /\ f.why = "joined"
    BY <1>2
  <2>2. f.chan = "ALL" /\ ~FetchFails(f)
    BY <2>1, Failing DEF Tells, FetchTells
  <2> QED
    BY <2>1, <2>2, FetchesGo DEF Due, Found, Marked
<1> QED
  BY <1>1, <1>2 DEF Due

\* A stored row is told of to every pane but its author's, whose text it is.
LEMMA StoredGoesOn ==
    ASSUME ChatInv, Tells, ToldOnce, TextsOnce, [ChatNext]_chatVars, NEW u \in Panes,
           NEW i \in RowsOf("ALL"), Stored(u, i), AllTold'
    PROVE  Stored(u, i)' \/ Reloads(u)' \/ Heralded(u, i)' \/ Unsent(u, i)' \/ HearsOf(u, i)
<1>1. PICK c \in calls :
         /\ c.row = i
         /\ \/ c.at = "stored"
            \/ c.at = "told" /\ i \notin pane[u].seen /\ (u # c.by \/ ~c.alive)
  BY DEF Stored
<1>2. /\ c.op = "send" /\ c.text \in Texts /\ i \in MessageIds
      /\ messages[i].text = c.text /\ messages[i].from = c.by /\ c \in CallRow
  BY <1>1 DEF Tells, CallTells, ChatInv, CallsFit, CallFits
<1>3. ChannelOf(c.room) = "ALL" /\ u \in MembersOf("ALL")
  BY <1>1, LiveChatAssumption DEF ChatInv, CallsFit, CallFits, RowsOf, MembersOf
<1>4. i \in pane'[u].seen => i \in pane[u].seen \/ HearsOf(u, i)
  BY PanesGo DEF Still, Replaced, HeardJoined, HeardMessage, HearsOf
<1>5. CASE ~SendEmit(c) /\ ~SendAnswer(c)
  <2>1. CASE \E d \in calls' : Goes(c, d)
    <3>1. PICK d \in calls' : Goes(c, d)
      BY <2>1
    <3>2. d.at = c.at /\ d.row = i /\ d.by = c.by /\ d.alive = c.alive
      BY <1>1, <3>1 DEF Goes, SameRow, SameCall
    <3> QED
      BY <1>1, <1>4, <3>2 DEF Stored
  <2>2. CASE rooms'[c.by] = {} /\ \E d \in calls' : SameCall(c, d) /\ SameRow(c, d)
    <3>1. PICK d \in calls' : d.at = c.at /\ d.row = i /\ d.by = c.by
      BY <1>1, <2>2 DEF SameRow, SameCall
    <3>2. CASE u = c.by
      BY <2>2, <3>2 DEF Reloads
    <3>3. CASE u # c.by
      BY <1>1, <1>4, <3>1, <3>3 DEF Stored
    <3> QED
      BY <3>2, <3>3
  <2>3. ~JoinEnter(c) /\ ~Read(c) /\ ~Refused(c)
    BY <1>1, <1>2 DEF JoinEnter, Read, Refused, SendCheck
  <2> QED
    BY <1>1, <1>2, <1>5, <2>1, <2>2, <2>3, CallsGo
<1>6. CASE SendEmit(c)
  <2>1. UNCHANGED <<messages, online, rooms, pane, draft, mishaps>> /\ c.at = "stored"
    BY <1>6 DEF SendEmit
  <2>2. i \notin pane'[u].seen
    BY <1>1, <2>1 DEF ToldOnce, Unheard
  <2>3. CASE u # c.by \/ ~c.alive
    <3>1. PICK d : d = [c EXCEPT !.at = "told"]
      OBVIOUS
    <3>2. d \in calls' /\ d.at = "told" /\ d.row = i /\ d.by = c.by /\ d.alive = c.alive
      BY <1>1, <1>2, <1>6, <3>1, MovedCall DEF SendEmit, At, SameCall
    <3> QED
      BY <2>2, <2>3, <3>2 DEF Stored
  <2>4. CASE u = c.by
    <3>1. c \in Sends(c.text)
      BY <1>2, <2>1 DEF Sends
    <3>2. "TIMED_OUT" \notin mishaps => draft[c.text].state # "SENT"
      BY <1>2, <2>1, <3>1 DEF TextsOnce, TextOnce, DraftOfText, AnswersFit, AllTold
    <3> QED
      BY <1>2, <2>1, <2>4, <3>2 DEF Unsent
  <2> QED
    BY <2>3, <2>4
<1>7. CASE SendAnswer(c)
  <2>1. /\ UNCHANGED <<online, rooms, pane>> /\ c.at = "told"
        /\ i \notin pane[u].seen /\ (u # c.by \/ ~c.alive)
    BY <1>1, <1>7 DEF SendAnswer
  <2>2. TellParties(c)
    BY <1>7, AnsweredEvents DEF AllTold
  <2>3. CASE u \notin online
    BY <2>1, <2>3 DEF ChatInv, SocketsFit, SocketFits, Reloads
  <2>4. CASE Dropped(u, i)
    <3>1. PICK e \in Events(u) : e.kind = "message" /\ e.row = i
      BY <2>1, <2>4, DroppedEvents
    <3>2. e \in Events(u)'
      BY <1>7, <3>1, AnsweredEvents
    <3> QED
      BY <2>1, <3>1, <3>2 DEF Heralded
  <2>5. CASE u \in online /\ ~Dropped(u, i)
    <3>1. u \in Audience(c)
      BY <1>1, <1>3, <2>1, <2>5 DEF Audience, ConversationParties
    <3>2. Message(c) \in Events(u)'
      BY <1>7, <2>2, <3>1, AnsweredEvents
    <3> QED
      BY <1>1, <2>1, <3>2, EventKinds DEF Heralded
  <2> QED
    BY <2>3, <2>4, <2>5
<1> QED
  BY <1>5, <1>6, <1>7

LEMMA HeraldedGoesOn ==
    ASSUME ChatInv, [ChatNext]_chatVars, NEW u \in Panes, NEW i, Heralded(u, i)
    PROVE  Heralded(u, i)' \/ Reloads(u)' \/ HearsOf(u, i)
<1>1. PICK e \in Events(u) : e.kind = "message" /\ e.row = i /\ i \notin pane[u].seen
  BY DEF Heralded
<1>2. ~HearJoined(u, e) /\ ~HearAck(u, e)
  BY <1>1 DEF HearJoined, HearAck
<1>3. CASE e \in Events(u)' /\ i \notin pane'[u].seen
  BY <1>1, <1>3 DEF Heralded
<1>4. CASE i \in pane'[u].seen
  <2>1. PICK x \in Events(u) : HeardMessage(u, x)
    BY <1>1, <1>4, PanesGo DEF Still, Replaced, HeardJoined
  <2>2. x.row = i
    BY <1>1, <1>4, <2>1 DEF HeardMessage
  <2> QED
    BY <1>1, <2>1, <2>2 DEF HearsOf
<1>5. CASE Hear(u) /\ HearMessage(u, e)
  BY <1>1, <1>5, HeardPane DEF HearsOf
<1> QED
  BY <1>1, <1>2, <1>3, <1>4, <1>5, EventsGo DEF Reloads

LEMMA ComesGoesOn ==
    ASSUME ChatInv, Tells, ToldOnce, TextsOnce, [ChatNext]_chatVars, AllTold',
           NEW u \in Panes, NEW i \in RowsOf("ALL"), Comes(u, i)
    PROVE  Comes(u, i)' \/ Unsent(u, i)' \/ HearsOf(u, i) \/ Applied(u, i)
<1> USE DEF AllTold
<1>1. CASE Reloads(u)
  BY <1>1, ReloadGoesOn DEF Asked, Comes, Answered
<1>2. CASE Stored(u, i)
  BY <1>2, StoredGoesOn DEF Comes
<1>3. CASE Heralded(u, i)
  BY <1>3, HeraldedGoesOn DEF Comes
<1>4. CASE Answered(u, i)
  <2>1. PICK f \in fetches : f.by = u /\ f.why = "joined" /\ i \in f.got
    BY <1>4 DEF Answered
  <2>2. f.chan = "ALL" /\ ~FetchFails(f)
    BY <2>1, Failing DEF Tells, FetchTells
  <2> QED
    BY <2>1, <2>2, FetchesGo DEF Comes, Answered, Applied, Found, Marked
<1> QED
  BY <1>1, <1>2, <1>3, <1>4 DEF Comes

\* Unless an answer timed out, an entry is replaced by the message it became.
LEMMA UnsentGoesOn ==
    ASSUME ChatInv, Tells, TextsOnce, [ChatNext]_chatVars, NEW u \in Panes,
           NEW i \in MessageIds, Unsent(u, i), AllTold'
    PROVE  Unsent(u, i)' \/ (HearsOf(u, i) /\ pane[u].active \in {"NONE", messages[i].chan})
<1> DEFINE t == messages[i].text
<1>1. messages'[i] = messages[i] /\ messages[i].from = u /\ t \in Texts
  BY RowsGrow DEF Kept, Unsent, Tells
<1>2. CASE "TIMED_OUT" \in mishaps' \/ draft'[t].state # "SENT"
  BY <1>1, <1>2 DEF Unsent
<1>3. CASE "TIMED_OUT" \notin mishaps' /\ draft'[t].state = "SENT"
  <2>1. "TIMED_OUT" \notin mishaps /\ draft[t].state # "SENT" /\ TextOnce(t)
    BY <1>1, <1>3, RowsGrow DEF Unsent, TextsOnce, AnswersFit, AllTold
  <2> HIDE DEF t
  <2>2. PICK v \in Panes : \E e \in Events(v) :
           /\ Hear(v) /\ HearMessage(v, e) /\ Here(v, e)
           /\ IsTry(t, v, e.try) /\ e.text = t /\ e.row \notin pane[v].seen
    BY <1>1, <1>3, <2>1, DraftsGo DEF Sent, Becomes
  <2>3. PICK e \in Events(v) :
           /\ Hear(v) /\ HearMessage(v, e) /\ Here(v, e)
           /\ IsTry(t, v, e.try) /\ e.text = t /\ e.row \notin pane[v].seen
    BY <2>2
  <2>4. e.row \in MessageIds /\ messages[e.row].text = t
    BY <2>3, EventsFitting DEF HearMessage, Tells, EventTells, EventsFor, MayRead
  <2>5. e.row = i /\ v = u
    BY <1>1, <2>1, <2>3, <2>4 DEF t, TextOnce, AuthorOfText, IsTry
  <2>6. HeardMessage(u, e)
    BY <2>3, <2>5, HeardPane
  <2> QED
    BY <2>3, <2>5, <2>6 DEF HearsOf, Here
<1> QED
  BY <1>2, <1>3

TabReturns(u) == pane[u].active = "PAIR" => Due(u)
ShowsAll(u) == pane[u].active = "ALL" =>
    \A i \in RowsOf("ALL") : i \in pane[u].shown \/ Comes(u, i) \/ Unsent(u, i)
AnswerFits(f) == f.why = "joined" /\ f.at # "sent" =>
    \A i \in RowsOf("ALL") :
        i \in f.got \cup pane[f.by].shown \cup pane[f.by].seen \/ Comes(f.by, i) \/ Unsent(f.by, i)
AnswerRead(f) == f.at = "ready" => \A i \in f.got : f.by \in readBy[i]

\* Whatever is not read is on its way, or about to be marked.
Reading(u, i) ==
    \/ u \in readBy[i] \/ Reloads(u) \/ Stored(u, i) \/ Heralded(u, i)
    \/ \E c \in calls : c.op = "read" /\ c.by = u /\ c.room = "ALL"
    \/ \E f \in fetches : f.by = u /\ f.why = "joined" /\ f.at = "found"
ReadsAll(u) == pane[u].active = "ALL" => \A i \in RowsOf("ALL") : Reading(u, i)

Shows == \A u \in Panes : TabReturns(u) /\ ShowsAll(u) /\ ReadsAll(u)
Answers == \A f \in fetches : AnswerFits(f)
AnswersRead == \A f \in fetches : AnswerRead(f)

LEMMA NewRow ==
    ASSUME ChatInv, [ChatNext]_chatVars, NEW i \in RowsOf("ALL")', i \notin RowsOf("ALL")
    PROVE  \A u : Stored(u, i)'
<1>1. i \in MessageIds' /\ i \notin MessageIds
  BY RowsGrow DEF RowsOf, Kept
<1>2. PICK c \in calls : SendStore(c) /\ i = Len(messages) + 1
  BY <1>1, RowsGrow
<1>3. PICK d : StoredAs(c, d)
  BY <1>2, StoringStores
<1> QED
  BY <1>2, <1>3 DEF StoredAs, Stored

LEMMA TabReturnsGoesOn ==
    ASSUME ChatInv, Tells, [ChatNext]_chatVars, Undisturbed', NEW u \in Panes, TabReturns(u)
    PROVE  TabReturns(u)'
<1> SUFFICES ASSUME pane'[u].active = "PAIR" PROVE Due(u)'
  BY DEF TabReturns
<1>1. CASE pane[u].active = "PAIR"
  <2>1. ~\E f \in fetches : FetchApply(f) /\ f.by = u /\ f.chan = "ALL"
    BY AppliedPane DEF Replaced
  <2> QED
    BY <1>1, <2>1, DueGoesOn DEF TabReturns
<1>2. CASE pane[u].active # "PAIR"
  <2>1. CASE \E f \in fetches : Replaced(u, f)
    <3>1. PICK f \in fetches : Replaced(u, f)
      BY <2>1
    <3>2. f.why = "tab"
      BY <3>1 DEF Replaced, Tells, FetchTells, ChatInv, FetchesFit, FetchFits, FetchRow
    <3> QED
      BY <3>1, <3>2, Switching DEF Replaced, Due
  <2>2. CASE \E e \in Events(u) : HeardJoined(u, e)
    BY <2>2, Hearing DEF HeardJoined, Due
  <2> QED
    BY <1>2, <2>1, <2>2, PanesGo DEF Still, HeardMessage
<1> QED
  BY <1>1, <1>2

\* What the pane has of the conversation stays, until an answer replaces it.
LEMMA ShownStays ==
    ASSUME ChatInv, Tells, [ChatNext]_chatVars, Undisturbed', NEW u \in Panes,
           NEW i \in RowsOf("ALL"), i \in pane[u].shown \cup pane[u].seen
    PROVE  i \in pane'[u].shown \cup pane'[u].seen \/ Reloads(u)'
<1>1. CASE \E f \in fetches : Replaced(u, f)
  <2>1. PICK f \in fetches : Replaced(u, f)
    BY <1>1
  <2>2. f.why = "tab" \/ f.chan = "ALL"
    BY DEF Tells, FetchTells, ChatInv, FetchesFit, FetchFits, FetchRow
  <2> QED
    BY <2>1, <2>2, Switching, Overwriting DEF Replaced
<1>2. CASE ~\E f \in fetches : Replaced(u, f)
  BY <1>2, PanesGo DEF Still, HeardJoined, HeardMessage
<1> QED
  BY <1>1, <1>2

\* Applying an answer brings all rows, or their answer.
LEMMA AnswerBrings ==
    ASSUME ChatInv, Tells, ToldOnce, TextsOnce, [ChatNext]_chatVars, AllTold',
           NEW f \in fetches, FetchApply(f), f.why = "joined", AnswerFits(f), NEW i \in RowsOf("ALL")
    PROVE  i \in f.got \/ Comes(f.by, i)' \/ Unsent(f.by, i)'
<1> USE DEF AllTold
<1> DEFINE u == f.by
<1>1. u \in Panes /\ f.chan = "ALL" /\ f.at = "ready" /\ i \in MessageIds
  BY DEF FetchApply, Tells, FetchTells, ChatInv, FetchesFit, FetchFits, FetchRow, RowsOf
<1>2. ~HearsOf(u, i)
  BY DEF HearsOf, HeardMessage, HearMessage, FetchApply
<1>3. Applied(u, i) => i \in f.got
  BY AppliedPane DEF Applied, Replaced
<1>4. i \in f.got \cup pane[u].shown \cup pane[u].seen \/ Comes(u, i) \/ Unsent(u, i)
  BY <1>1 DEF AnswerFits
<1>5. CASE i \in f.got \cup pane[u].shown \cup pane[u].seen
  BY <1>1, <1>5, Overwriting
<1>6. CASE Comes(u, i)
  BY <1>1, <1>2, <1>3, <1>6, ComesGoesOn
<1>7. CASE Unsent(u, i)
  BY <1>1, <1>2, <1>7, UnsentGoesOn
<1> QED
  BY <1>4, <1>5, <1>6, <1>7

LEMMA ShowsAllGoesOn ==
    ASSUME ChatInv, Tells, ToldOnce, TextsOnce, [ChatNext]_chatVars, AllTold',
           NEW u \in Panes, ShowsAll(u), Answers
    PROVE  ShowsAll(u)'
<1> USE DEF AllTold
<1> SUFFICES ASSUME pane'[u].active = "ALL", NEW i \in RowsOf("ALL")'
             PROVE  i \in pane'[u].shown \/ Comes(u, i)' \/ Unsent(u, i)'
  BY DEF ShowsAll
<1>1. CASE i \notin RowsOf("ALL")
  BY <1>1, NewRow DEF Comes
<1>2. CASE \E f \in fetches : Replaced(u, f)
  <2>1. PICK f \in fetches : Replaced(u, f)
    BY <1>2
  <2>2. CASE f.why = "tab"
    BY <2>1, <2>2, Switching DEF Replaced, Comes
  <2>3. CASE f.why = "joined"
    BY <1>1, <2>1, <2>3, AnswerBrings DEF Replaced, Answers
  <2> QED
    BY <2>2, <2>3 DEF ChatInv, FetchesFit, FetchFits, FetchRow
<1>3. CASE \E e \in Events(u) : HeardJoined(u, e)
  BY <1>3, Hearing DEF HeardJoined, Comes
<1>4. CASE i \in RowsOf("ALL") /\ pane[u].active = "ALL" /\ pane[u].shown \subseteq pane'[u].shown
  <2>1. i \in MessageIds /\ messages[i].chan = "ALL"
    BY <1>4 DEF RowsOf
  <2>2. HearsOf(u, i) => i \in pane'[u].shown
    BY <1>4, <2>1 DEF HearsOf, HeardMessage, Here
  <2>3. Applied(u, i) => i \in pane'[u].shown
    BY AppliedPane DEF Applied, Replaced
  <2>4. i \in pane[u].shown \/ Comes(u, i) \/ Unsent(u, i)
    BY <1>4 DEF ShowsAll
  <2> QED
    BY <1>4, <2>1, <2>2, <2>3, <2>4, ComesGoesOn, UnsentGoesOn
<1>5. CASE Still(u) \/ \E e \in Events(u) : HeardMessage(u, e)
  BY <1>1, <1>4, <1>5 DEF Still, HeardMessage
<1> QED
  BY <1>2, <1>3, <1>5, PanesGo

LEMMA AnswersGoOn ==
    ASSUME ChatInv, Tells, ToldOnce, TextsOnce, [ChatNext]_chatVars, AllTold', Answers
    PROVE  Answers'
<1> USE DEF AllTold
<1> SUFFICES ASSUME NEW f \in fetches', f.why = "joined", f.at # "sent", NEW i \in RowsOf("ALL")'
             PROVE  \/ i \in f.got \cup pane'[f.by].shown \cup pane'[f.by].seen
                    \/ Comes(f.by, i)' \/ Unsent(f.by, i)'
  BY DEF Answers, AnswerFits
<1>1. CASE i \notin RowsOf("ALL")
  BY <1>1, NewRow DEF Comes
<1>2. CASE \E g \in fetches : Found(g, f)
  <2>1. f.got = RowsOf("ALL")
    BY <1>2 DEF Found, Tells, FetchTells
  <2> QED
    BY <1>1, <2>1
<1>3. ASSUME i \in RowsOf("ALL"),
             NEW g \in fetches, g.by = f.by, g.why = "joined", g.at # "sent", g.got = f.got
      PROVE  \/ i \in f.got \cup pane'[f.by].shown \cup pane'[f.by].seen
             \/ Comes(f.by, i)' \/ Unsent(f.by, i)'
  <2> DEFINE u == f.by
  <2>1. u \in Panes /\ i \in MessageIds
    BY <1>3 DEF ChatInv, FetchesFit, FetchFits, FetchRow, RowsOf
  <2>2. HearsOf(u, i) => i \in pane'[u].seen
    BY DEF HearsOf, HeardMessage
  <2>3. Applied(u, i) => i \in pane'[u].shown
    BY AppliedPane DEF Applied, Replaced
  <2>4. i \in f.got \cup pane[u].shown \cup pane[u].seen \/ Comes(u, i) \/ Unsent(u, i)
    BY <1>3 DEF Answers, AnswerFits
  <2>5. CASE i \in pane[u].shown \cup pane[u].seen
    BY <1>3, <2>1, <2>5, ShownStays DEF Comes
  <2>6. CASE Comes(u, i)
    BY <1>3, <2>1, <2>2, <2>3, <2>6, ComesGoesOn
  <2>7. CASE Unsent(u, i)
    BY <2>1, <2>2, <2>7, UnsentGoesOn
  <2> QED
    BY <2>4, <2>5, <2>6, <2>7
<1>4. f.at = "sent" \/ f.why = "tab" \/ f \in fetches \/ \E g \in fetches : Found(g, f) \/ Marked(g, f)
  BY FetchesCome DEF Fetch
<1>5. CASE \E g \in fetches : Marked(g, f)
  BY <1>1, <1>3, <1>5 DEF Marked, FetchMark
<1> QED
  BY <1>1, <1>2, <1>3, <1>4, <1>5

LEMMA AnswersReadGoesOn ==
    ASSUME ChatInv, [ChatNext]_chatVars, AnswersRead
    PROVE  AnswersRead'
<1> SUFFICES ASSUME NEW f \in fetches', f.at = "ready", NEW i \in f.got PROVE f.by \in readBy'[i]
  BY DEF AnswersRead, AnswerRead
<1>1. CASE f \in fetches
  <2>1. i \in MessageIds /\ f.by \in readBy[i]
    BY <1>1 DEF AnswersRead, AnswerRead, ChatInv, FetchesFit, FetchFits, RowsOf
  <2> QED
    BY <2>1, RowsGrow
<1>2. CASE \E g \in fetches : Marked(g, f)
  <2>1. PICK g \in fetches : Marked(g, f)
    BY <1>2
  <2>2. i \in RowsOf(g.chan) /\ i \in MessageIds
    BY <2>1 DEF Marked, ChatInv, FetchesFit, FetchFits, RowsOf
  <2> QED
    BY <2>1, <2>2 DEF Marked, FetchMark, MarkedBy
<1> QED
  BY <1>1, <1>2, FetchesCome DEF Fetch, Found

LEMMA ReadingGoesOn ==
    ASSUME ChatInv, Tells, ToldOnce, TextsOnce, [ChatNext]_chatVars, AllTold',
           NEW u \in Panes, NEW i \in RowsOf("ALL"), Reading(u, i)
    PROVE  Reading(u, i)' \/ HearsOf(u, i)
<1> USE DEF AllTold
<1>1. i \in MessageIds /\ messages[i].chan = "ALL"
  BY DEF RowsOf
<1>2. u \in readBy[i] => u \in readBy'[i]
  BY <1>1, RowsGrow
<1>3. CASE Reloads(u)
  BY <1>3, ReloadGoesOn DEF Asked, Reading
<1>4. CASE Stored(u, i)
  <2>1. Unsent(u, i)' => u \in readBy[i]
    BY <1>1, RowsGrow DEF Unsent, Kept, ChatInv, RowsFit, RowFits
  <2> QED
    BY <1>2, <1>4, <2>1, StoredGoesOn DEF Reading
<1>5. CASE Heralded(u, i)
  BY <1>5, HeraldedGoesOn DEF Reading
<1>6. CASE \E c \in calls : c.op = "read" /\ c.by = u /\ c.room = "ALL"
  <2>1. PICK c \in calls : c.op = "read" /\ c.by = u /\ c.room = "ALL"
    BY <1>6
  <2>2. /\ c.at \notin {"stored", "told"} /\ ~JoinEnter(c)
        /\ ~SendEmit(c) /\ ~SendAnswer(c) /\ ~Refused(c)
    BY <2>1 DEF Tells, CallTells, JoinEnter, SendEmit, SendAnswer, Refused, SendCheck
  <2>3. Read(c) => u \in readBy'[i]
    BY <1>1, <2>1 DEF Read, MarkedBy
  <2> QED
    BY <2>1, <2>2, <2>3, CallsGo DEF Reading, Reloads, Goes, SameCall
<1>7. CASE \E f \in fetches : f.by = u /\ f.why = "joined" /\ f.at = "found"
  <2>1. PICK f \in fetches : f.by = u /\ f.why = "joined" /\ f.at = "found"
    BY <1>7
  <2>2. f.chan = "ALL" /\ ~FetchFails(f) /\ ~FetchFind(f) /\ ~FetchApply(f)
    BY <2>1, Failing DEF Tells, FetchTells, FetchFind, FetchApply
  <2>3. FetchMark(f) => u \in readBy'[i]
    BY <1>1, <2>1, <2>2 DEF FetchMark, MarkedBy
  <2> QED
    BY <2>1, <2>2, <2>3, FetchesGo DEF Reading, Found, Marked
<1> QED
  BY <1>2, <1>3, <1>4, <1>5, <1>6, <1>7 DEF Reading

LEMMA ReadsAllGoesOn ==
    ASSUME ChatInv, Tells, ToldOnce, TextsOnce, [ChatNext]_chatVars, AllTold',
           NEW u \in Panes, ReadsAll(u), Answers, AnswersRead
    PROVE  ReadsAll(u)'
<1> USE DEF AllTold
<1> SUFFICES ASSUME pane'[u].active = "ALL", NEW i \in RowsOf("ALL")' PROVE Reading(u, i)'
  BY DEF ReadsAll
<1>1. CASE i \notin RowsOf("ALL")
  BY <1>1, NewRow DEF Reading
<1>2. CASE \E f \in fetches : Replaced(u, f)
  <2>1. PICK f \in fetches : Replaced(u, f)
    BY <1>2
  <2>2. CASE f.why = "tab"
    BY <2>1, <2>2, Switching DEF Replaced, Reading
  <2>3. CASE f.why = "joined" /\ i \in RowsOf("ALL")
    <3>1. f.at = "ready" /\ FetchApply(f) /\ f.by = u /\ AnswerFits(f) /\ f.chan = "ALL" /\ i \in MessageIds
      BY <2>1, <2>3 DEF Replaced, FetchApply, Answers, Tells, FetchTells, RowsOf
    <3>2. ASSUME NEW g \in fetches, g.by = u, g.why = "joined", i \in g.got PROVE Reading(u, i)
      <4>1. g.at \in {"found", "ready"}
        BY <3>2 DEF Tells, FetchTells, ChatInv, FetchesFit, FetchFits, FetchRow
      <4> QED
        BY <3>2, <4>1 DEF Reading, AnswersRead, AnswerRead
    <3>3. i \in pane[u].shown \cup pane[u].seen => i \in f.got
      BY <2>3, <3>1, Overwriting
    <3>4. Unsent(u, i) => u \in readBy[i]
      BY <3>1 DEF Unsent, ChatInv, RowsFit, RowFits
    <3>5. Reading(u, i)
      BY <2>3, <3>1, <3>2, <3>3, <3>4 DEF AnswerFits, Comes, Answered, Reading
    <3>6. ~HearsOf(u, i)
      BY <3>1 DEF HearsOf, HeardMessage, HearMessage, FetchApply
    <3> QED
      BY <2>3, <3>5, <3>6, ReadingGoesOn
  <2> QED
    BY <1>1, <2>2, <2>3 DEF ChatInv, FetchesFit, FetchFits, FetchRow
<1>3. CASE \E e \in Events(u) : HeardJoined(u, e)
  BY <1>3, Hearing DEF HeardJoined, Reading
<1>4. CASE i \in RowsOf("ALL") /\ pane[u].active = "ALL"
  <2>1. i \in MessageIds /\ messages[i].chan = "ALL"
    BY <1>4 DEF RowsOf
  <2>2. ASSUME HearsOf(u, i) PROVE Reading(u, i)'
    <3>1. CASE messages[i].from = u
      BY <2>1, <3>1, RowsGrow DEF Reading, ChatInv, RowsFit, RowFits
    <3>2. CASE messages[i].from # u
      <4>1. Request("read", u, "ALL") \in calls'
        BY <1>4, <2>1, <2>2, <3>2 DEF HearsOf, HeardMessage, HearMessage
      <4>2. Request("read", u, "ALL").op = "read" /\ Request("read", u, "ALL").by = u
            /\ Request("read", u, "ALL").room = "ALL"
        BY DEF Request
      <4> QED
        BY <4>1, <4>2 DEF Reading
    <3> QED
      BY <3>1, <3>2
  <2> QED
    BY <1>4, <2>2, ReadingGoesOn DEF ReadsAll
<1>5. CASE Still(u) \/ \E e \in Events(u) : HeardMessage(u, e)
  BY <1>1, <1>4, <1>5 DEF Still, HeardMessage
<1> QED
  BY <1>2, <1>3, <1>5, PanesGo

-----------------------------------------------------------------------------
(* A text being sent from the messages page is told of what became of it.    *)

Speaks(e, t) == e.text = t /\ e.try = draft[t].try
Told(u, t) == \E e \in Events(u) :
    /\ e.kind = "message" /\ Speaks(e, t)
    /\ e.row \notin pane[u].seen /\ messages[e.row].chan = "ALL"
    /\ \A d \in Events(u) : d.kind = "message" /\ d.row = e.row => Speaks(d, t)
Resolves(u, t) ==
    \/ \E c \in Sends(t) : c.alive /\ c.by = u /\ c.try = draft[t].try
    \/ \E e \in Events(u) : e.kind = "ack" /\ ~e.ok /\ Speaks(e, t)
    \/ Told(u, t)
    \/ Due(u)
Awaits(u, t) == draft[t].state = "SENDING" /\ draft[t].by = u
Resolving == \A u \in Panes \ ByOrder, t \in Texts : Awaits(u, t) => Resolves(u, t)

LEMMA Refusing ==
    ASSUME NEW c
    PROVE  LET e == Ack(c, FALSE) IN e.kind = "ack" /\ ~e.ok /\ e.text = c.text /\ e.try = c.try
BY DEF Ack

LEMMA EmitTells ==
    ASSUME ChatInv, Tells, PagesFit, ToldOnce, NEW u \in Panes \ ByOrder, NEW t \in Texts,
           NEW c \in Sends(t), SendEmit(c), c.alive, c.by = u, c.try = draft[t].try
    PROVE  Resolves(u, t)'
<1>1. UNCHANGED <<messages, online, rooms, pane, draft>> /\ c.at = "stored" /\ c \in calls /\ c.text = t
  BY DEF SendEmit, Sends
<1>2. c.room = "ALL" /\ rooms[u] \subseteq {"ALL"}
  BY <1>1 DEF PagesFit, PageFits
<1>3. CASE rooms[u] = {}
  BY <1>1, <1>3 DEF Resolves, Due, Reloads
<1>4. CASE rooms[u] # {}
  <2>1. c.room \in rooms[u]
    BY <1>2, <1>4
  <2>2. /\ Message(c) \in Events(u)'
        /\ \A d \in Events(u)' : d \in Events(u) \/ d = Message(c)
    BY <1>1, <2>1, EmittedEvents
  <2>3. messages[c.row].chan = "ALL"
    BY <1>1, <1>2 DEF ChatInv, CallsFit, CallFits, ChannelOf
  <2>4. Unheard(c.row)
    BY <1>1 DEF ToldOnce
  <2>5. Message(c).kind = "message" /\ Message(c).row = c.row /\ Message(c).text = t
        /\ Message(c).try = draft'[t].try
    BY <1>1, EventKinds
  <2>6. \A d \in Events(u)' : d.kind = "message" /\ d.row = c.row => d = Message(c)
    BY <2>2, <2>4, <2>5 DEF Unheard
  <2>7. Told(u, t)'
    BY <1>1, <2>2, <2>3, <2>4, <2>5, <2>6 DEF Told, Speaks, Unheard
  <2> QED
    BY <2>7 DEF Resolves
<1> QED
  BY <1>3, <1>4

LEMMA ToldGoesOn ==
    ASSUME ChatInv, Tells, PagesFit, ToldOnce, [ChatNext]_chatVars,
           NEW u \in Panes \ ByOrder, NEW t \in Texts,
           draft'[t] = draft[t], Awaits(u, t), Told(u, t)
    PROVE  Told(u, t)' \/ Due(u)'
<1>1. PICK e \in Events(u) :
        /\ e.kind = "message" /\ Speaks(e, t)
        /\ e.row \notin pane[u].seen /\ messages[e.row].chan = "ALL"
        /\ \A d \in Events(u) : d.kind = "message" /\ d.row = e.row => Speaks(d, t)
  BY DEF Told
<1>2. e.row \in MessageIds /\ messages'[e.row] = messages[e.row]
  BY <1>1, EventsFitting, RowsGrow DEF EventsFor, MayRead, Kept
<1>3. ASSUME NEW d \in Events(u)', d.kind = "message", d.row = e.row PROVE Speaks(d, t)'
  <2>1. d \in Events(u)
    <3>1. ASSUME NEW c \in calls, SendEmit(c), d.row = c.row PROVE FALSE
      BY <1>1, <1>3, <3>1 DEF SendEmit, ToldOnce, Unheard
    <3>2. ASSUME NEW c \in calls, PartyTold(c, u, d), d.row = c.row PROVE FALSE
      <4>1. Dropped(u, c.row)
        BY <1>1, <1>3, <3>2, DroppedEvents
      <4> QED
        BY <3>2, <4>1 DEF PartyTold, Audience
    <3> QED
      BY <1>3, <3>1, <3>2, MessagesCome
  <2> QED
    BY <1>1, <1>3, <2>1 DEF Speaks
<1>4. ASSUME NEW d \in Events(u), d.kind = "message", d.row = e.row, Hear(u), HearMessage(u, d) PROVE FALSE
  <2>1. Speaks(d, t) /\ pane[u].active = "ALL"
    BY <1>1, <1>4 DEF PagesFit, PageFits
  <2>2. draft' = [draft EXCEPT ![t].state = "SENT"]
    BY <1>1, <1>4, <2>1 DEF HearMessage, Speaks, IsTry, Listed, Awaits
  <2>3. draft'[t].state = "SENT"
    <3>1. draft \in [Texts -> DraftRow]
      BY DEF ChatInv, DraftsFit
    <3> QED
      BY <2>2, <3>1 DEF DraftRow
  <2> QED
    BY <2>3 DEF Awaits
<1>5. e.row \notin pane'[u].seen
  <2>1. ASSUME NEW d \in Events(u), HeardMessage(u, d), d.row = e.row PROVE FALSE
    BY <1>4, <2>1 DEF HeardMessage, HearMessage
  <2> QED
    BY <1>1, <2>1, PanesGo DEF Still, Replaced, HeardJoined, HeardMessage
<1>6. e \in Events(u)' \/ rooms'[u] = {}
  <2>1. ~HearJoined(u, e) /\ ~HearAck(u, e)
    BY <1>1 DEF HearJoined, HearAck
  <2> QED
    BY <1>1, <1>4, <2>1, EventsGo
<1> QED
  BY <1>1, <1>2, <1>3, <1>5, <1>6 DEF Told, Due, Reloads, Speaks

LEMMA ResolvingGoesOn ==
    ASSUME ChatInv, Tells, PagesFit, ToldOnce, [ChatNext]_chatVars, Undisturbed', Resolving
    PROVE  Resolving'
<1> SUFFICES ASSUME NEW u \in Panes \ ByOrder, NEW t \in Texts, Awaits(u, t)' PROVE Resolves(u, t)'
  BY DEF Resolving
<1>1. draft'[t].state = "SENDING" /\ draft'[t].by = u
  BY DEF Awaits
<1>2. draft'[t] = draft[t] \/ \E n \in Nat : Sent(u, t, n)
  BY <1>1, DraftsGo DEF Sent, Becomes
<1>3. CASE \E n \in Nat : Sent(u, t, n)
  <2>1. PICK n \in Nat : Sent(u, t, n)
    BY <1>3
  <2>2. PICK room, tab : Send(u, room, t, n, tab) \in calls'
    BY <2>1 DEF Sent, Says, SendText
  <2>3. /\ Send(u, room, t, n, tab).op = "send" /\ Send(u, room, t, n, tab).text = t
        /\ Send(u, room, t, n, tab).by = u /\ Send(u, room, t, n, tab).try = n
        /\ Send(u, room, t, n, tab).alive /\ Send(u, room, t, n, tab).at # "told"
    BY DEF Send, Request
  <2> QED
    BY <2>1, <2>2, <2>3 DEF Sent, Sends, Resolves
<1>4. CASE draft'[t] = draft[t]
  <2>1. Awaits(u, t) /\ Resolves(u, t)
    BY <1>1, <1>4 DEF Awaits, Resolving
  <2>2. CASE \E c \in Sends(t) : c.alive /\ c.by = u /\ c.try = draft[t].try
    <3>1. PICK c \in Sends(t) : c.alive /\ c.by = u /\ c.try = draft[t].try
      BY <2>2
    <3>2. c \in calls /\ c.op = "send" /\ c.text = t /\ c.at # "told"
      BY DEF Sends
    <3>3. CASE \E d \in calls' : Goes(c, d)
      <4>1. PICK d \in calls' : Goes(c, d)
        BY <3>3
      <4>2. d \in Sends(t)' /\ d.by = c.by /\ d.try = c.try /\ d.alive = c.alive
        BY <3>2, <4>1 DEF Goes, SameCall, Sends
      <4> QED
        BY <1>4, <3>1, <4>2 DEF Resolves
    <3>4. CASE rooms'[u] = {}
      BY <3>4 DEF Resolves, Due, Reloads
    <3>5. CASE SendEmit(c)
      BY <3>1, <3>5, EmitTells
    <3>6. CASE Refused(c)
      <4>1. PICK e : e = Ack(c, FALSE)
        OBVIOUS
      <4>2. e.kind = "ack" /\ ~e.ok /\ e.text = c.text /\ e.try = c.try
        BY <4>1, Refusing
      <4>3. Deliver(u, e) /\ u \in Panes
        BY <3>1, <3>6, <4>1 DEF Refused
      <4>4. e \in Events(u)'
        BY <4>3, DeliveredEvents
      <4> QED
        BY <1>4, <3>1, <3>2, <4>2, <4>4 DEF Resolves, Speaks
    <3> QED
      <4>1. ~SendAnswer(c) /\ ~JoinEnter(c) /\ ~Read(c)
        BY <3>2 DEF Sends, SendAnswer, JoinEnter, Read
      <4> QED
        BY <3>1, <3>2, <3>3, <3>4, <3>5, <3>6, <4>1, CallsGo
  <2>3. CASE \E e \in Events(u) : e.kind = "ack" /\ ~e.ok /\ Speaks(e, t)
    <3>1. PICK e \in Events(u) : e.kind = "ack" /\ ~e.ok /\ Speaks(e, t)
      BY <2>3
    <3>2. ASSUME HearAck(u, e) PROVE FALSE
      <4>1. draft' = [draft EXCEPT ![t].state = "FAILED"]
        BY <2>1, <3>1, <3>2 DEF HearAck, Speaks, IsTry, Listed, Awaits
      <4>2. draft \in [Texts -> DraftRow]
        BY DEF ChatInv, DraftsFit
      <4>3. draft'[t].state = "FAILED"
        BY <4>1, <4>2 DEF DraftRow
      <4> QED
        BY <1>1, <4>3
    <3>3. e \in Events(u)' \/ rooms'[u] = {}
      BY <3>1, <3>2, EventsGo DEF HearJoined, HearMessage
    <3> QED
      BY <1>4, <3>1, <3>3 DEF Resolves, Due, Reloads, Speaks
  <2>4. CASE Told(u, t)
    BY <1>4, <2>1, <2>4, ToldGoesOn DEF Resolves
  <2>5. CASE Due(u)
    <3>1. ASSUME NEW f \in fetches, FetchApply(f), f.by = u PROVE FALSE
      <4>1. draft'[t] = [draft[t] EXCEPT !.state = "ERASED"]
        BY <2>1, <3>1 DEF FetchApply, Listed, Awaits
      <4>2. draft[t] \in DraftRow
        BY DEF ChatInv, DraftsFit
      <4> QED
        BY <1>1, <4>1, <4>2 DEF DraftRow
    <3> QED
      BY <2>5, <3>1, DueGoesOn DEF Resolves
  <2> QED
    BY <2>1, <2>2, <2>3, <2>4, <2>5 DEF Resolves
<1> QED
  BY <1>2, <1>3, <1>4

-----------------------------------------------------------------------------
(* All of it together. *)

LiveInv ==
    /\ ChatInv /\ Tells /\ PagesFit /\ ToldOnce /\ TextsOnce /\ AnswersRead
    /\ Undisturbed => Resolving
    /\ AllTold => Shows /\ Answers

LEMMA LiveStarts == ChatInit => LiveInv
<1> SUFFICES ASSUME ChatInit PROVE LiveInv
  OBVIOUS
<1>1. ChatInv
  BY ChatStarts
<1>2. /\ calls = {} /\ fetches = {} /\ MessageIds = {} /\ mishaps = {}
      /\ \A u \in Panes : /\ Events(u) = {}
                          /\ pane[u].active = IF u \in ByOrder THEN "NONE" ELSE "ALL"
                          /\ pane[u].seen = {}
                          /\ rooms[u] = IF u \in ByOrder THEN {} ELSE {"ALL"}
      /\ \A t \in Texts : draft[t].state = "NEW" /\ draft[t].try = 0
  <2>1. MessageIds = {}
    BY EmptyIsSeq DEF ChatInit, MessageIds
  <2>2. \A u \in Panes : Events(u) = {}
    BY NoEvents DEF ChatInit
  <2>3. \A u \in Panes : pane[u].active = (IF u \in ByOrder THEN "NONE" ELSE "ALL") /\ pane[u].seen = {}
    BY DEF ChatInit, NewPane
  <2> QED
    BY <2>1, <2>2, <2>3 DEF ChatInit
<1>3. Tells /\ PagesFit /\ ToldOnce /\ AnswersRead
  BY <1>2 DEF Tells, PagesFit, PageFits, ToldOnce, AnswersRead
<1>4. TextsOnce
  BY <1>2 DEF TextsOnce, TextOnce, CallsOfText, DraftOfText, EventsOfText, AuthorOfText, Free, Sends
<1>5. Shows /\ Answers /\ Resolving
  BY <1>2 DEF Shows, TabReturns, ShowsAll, ReadsAll, RowsOf, Answers, Resolving, Awaits
<1> QED
  BY <1>1, <1>3, <1>4, <1>5 DEF LiveInv

LEMMA LiveGoesOn == LiveInv /\ [ChatNext]_chatVars => LiveInv'
<1> SUFFICES ASSUME LiveInv, [ChatNext]_chatVars PROVE LiveInv'
  OBVIOUS
<1>1. ChatInv /\ Tells /\ PagesFit /\ ToldOnce /\ TextsOnce /\ AnswersRead
  BY DEF LiveInv
<1>2. ChatInv' /\ Tells' /\ PagesFit' /\ ToldOnce' /\ TextsOnce' /\ AnswersRead'
  BY <1>1, ChatGoesOn, TellsGoesOn, PagesFitGoesOn, ToldOnceGoesOn, TextsOnceGoesOn, AnswersReadGoesOn
<1>3. (Undisturbed' => Undisturbed) /\ (AllTold' => AllTold /\ Undisturbed')
  BY <1>1, RowsGrow DEF Undisturbed, AllTold
<1>4. ASSUME Undisturbed' PROVE Resolving'
  BY <1>1, <1>3, <1>4, ResolvingGoesOn DEF LiveInv
<1>5. ASSUME AllTold' PROVE Shows' /\ Answers'
  <2>1. Shows /\ Answers
    BY <1>3, <1>5 DEF LiveInv
  <2>2. Shows'
    BY <1>1, <1>3, <1>5, <2>1, TabReturnsGoesOn, ShowsAllGoesOn, ReadsAllGoesOn DEF Shows
  <2> QED
    BY <1>1, <1>5, <2>1, <2>2, AnswersGoOn
<1> QED
  BY <1>2, <1>4, <1>5 DEF LiveInv

LEMMA LiveInvariance == ChatSpec => []LiveInv
<1>1. ChatInit => LiveInv
  BY LiveStarts
<1>2. LiveInv /\ [ChatNext]_chatVars => LiveInv'
  BY LiveGoesOn
<1> QED
  BY <1>1, <1>2, PTL DEF ChatSpec

\* Nothing comes to a pane at rest.
LEMMA AtRest ==
    ASSUME NEW u \in Panes, Quiet(u)
    PROVE  /\ Events(u) = {} /\ ~Due(u)
           /\ \A i : ~Stored(u, i) /\ ~Heralded(u, i) /\ ~Comes(u, i)
<1>1. Events(u) = {}
  BY NoEvents DEF Quiet
<1> QED
  BY <1>1 DEF Quiet, Due, Reloads, Stored, Heralded, Answered, Comes

(* A pane at rest shows every message of its conversation and has cleared its  *)
(* badge, however many sockets were lost, tabs changed and texts sent before,   *)
(* unless a fetch failed, its answer was older than what was shown, or the      *)
(* parties to tell were not found (conversation-pane.tsx, handleJoin,            *)
(* handleSend, getUnreadCount).                                                 *)
THEOREM RestingPaneIsUpToDate == ChatSpec => []PaneUpToDate
<1>1. LiveInv => PaneUpToDate
  <2> SUFFICES ASSUME LiveInv, AllTold, NEW u \in Panes, Quiet(u), NEW i \in RowsOf(pane[u].active)
               PROVE  u \in readBy[i] /\ (i \in pane[u].shown \/ Unsent(u, i))
    BY DEF PaneUpToDate, AllTold
  <2>1. pane[u].active = "ALL"
    <3>1. messages[i] \in MessageRow /\ messages[i].chan = pane[u].active
      BY DEF RowsOf, LiveInv, ChatInv, RowsFit, MessageIds
    <3>2. pane[u].active \in Channels
      BY <3>1 DEF MessageRow
    <3> QED
      BY <3>2, AtRest DEF LiveInv, Shows, TabReturns, Channels
  <2>2. i \in pane[u].shown \/ Unsent(u, i)
    BY <2>1, AtRest DEF LiveInv, Shows, ShowsAll
  <2>3. Reading(u, i)
    BY <2>1 DEF LiveInv, Shows, ReadsAll
  <2>4. u \in readBy[i]
    BY <2>3, AtRest DEF Reading, Quiet, Due
  <2> QED
    BY <2>2, <2>4
<1> QED
  BY <1>1, LiveInvariance, PTL

(* A text is stored twice only if its acknowledgement timed out or said that    *)
(* it failed after it was stored, and none is left "sending" in a pane of the    *)
(* messages page at rest (handleSend, retryMessage).                            *)
THEOREM EveryTextSettles == ChatSpec => []TextsSettle
<1>1. LiveInv => TextsSettle
  <2> SUFFICES ASSUME LiveInv PROVE TextsSettle
    OBVIOUS
  <2>1. AnswersFit => \A i, j \in MessageIds : messages[i].text = messages[j].text => i = j
    BY DEF LiveInv, TextsOnce, TextOnce, Tells
  <2>2. ASSUME Undisturbed, NEW u \in Panes \ ByOrder, Quiet(u), NEW t \in Texts, draft[t].by = u
        PROVE  draft[t].state # "SENDING"
    <3>1. ~Resolves(u, t)
      BY <2>2, AtRest DEF Resolves, Told, Sends, Quiet
    <3> QED
      BY <2>2, <3>1 DEF LiveInv, Resolving, Awaits
  <2> QED
    BY <2>1, <2>2 DEF TextsSettle, AnswersFit
<1> QED
  BY <1>1, LiveInvariance, PTL
=============================================================================
