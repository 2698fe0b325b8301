----------------------------- MODULE Messaging -----------------------------
(***************************************************************************)
(* The messaging service of the terminal UI: MessagingService             *)
(* (messaging.h), the channels and messages tables it writes through       *)
(* Database (src/dag.h lines 636-702), and its in-memory event log, a      *)
(* CircularBuffer<std::string> of capacity 256 (circular_buffer.h) filled  *)
(* with push_overwrite and read with last_n.                               *)
(*                                                                         *)
(* The UI is one thread and each menu entry runs to completion, so each    *)
(* is one action: "Send Message" and "Share File" both create_channel and  *)
(* then send a message, and each of the two calls logs an event.  An event *)
(* is its sequence number (1 for the first log_event call, ...): the text  *)
(* is not compared, only which event sits where.  buf_ slots that were     *)
(* never written hold 0, the default-constructed string.                   *)
(*                                                                         *)
(* now_epoch_ms() is `clock`, a millisecond count that Tick moves on: two  *)
(* UI actions in one millisecond give their rows the same created_at.      *)
(* "View Messages" (get_messages) changes nothing; it is the operator      *)
(* GetMessages, the set of results the SELECT may return.                  *)
(***************************************************************************)
EXTENDS Naturals, Sequences, FiniteSets

CONSTANTS
    Capacity,   \* the event log's capacity (256 in MessagingService)
    Channels,   \* channel names the user types
    MaxEvents,  \* bound on log_event calls
    Limit,      \* get_messages' limit (50, the default the UI uses)
    MaxTime     \* bound on the millisecond clock

ASSUME Capacity \in Nat \ {0} /\ MaxEvents \in Nat
ASSUME Limit \in Nat \ {0} /\ MaxTime \in Nat

LOCAL SeqX == INSTANCE SequencesExt

VARIABLES
    ring,      \* event_log_: [buf, head, tail, count]
    logged,    \* log_event calls so far (the number of the last event)
    channels,  \* names with a channels row
    messages,  \* messages rows, in msg_id order: [channel, type, at (created_at)]
    clock      \* now_epoch_ms()

vars == <<ring, logged, channels, messages, clock>>

Slots == 0..Capacity - 1

-----------------------------------------------------------------------------
(* CircularBuffer<T> (circular_buffer.h).                                  *)

\* Mutant of PushOverwrite: tail_ is not wrapped.
PushOverwriteNoWrap(r, e) ==
    [r EXCEPT !.buf[r.tail] = e,
              !.tail = r.tail + 1,
              !.head = IF r.count = Capacity THEN (r.head + 1) % Capacity ELSE r.head,
              !.count = IF r.count = Capacity THEN r.count ELSE r.count + 1]

\* Mutant of PushOverwrite: on a full buffer head_ is not moved past the
\* overwritten oldest item.
PushOverwriteNoHead(r, e) ==
    [r EXCEPT !.buf[r.tail] = e,
              !.tail = (r.tail + 1) % Capacity,
              !.count = IF r.count = Capacity THEN r.count ELSE r.count + 1]

\* CircularBuffer::push_overwrite(item).
PushOverwrite(r, e) ==
    [r EXCEPT !.buf[r.tail] = e,
              !.tail = (r.tail + 1) % Capacity,
              !.head = IF r.count = Capacity THEN (r.head + 1) % Capacity ELSE r.head,
              !.count = IF r.count = Capacity THEN r.count ELSE r.count + 1]

\* Mutant of LastN: the start index is computed from n, not from the
\* clamped count.
LastNUnclamped(r, n) ==
    LET actual == IF n < r.count THEN n ELSE r.count
        start  == (r.head + r.count - n) % Capacity
    IN  [i \in 1..actual |-> r.buf[(start + i - 1) % Capacity]]

\* CircularBuffer::last_n(n): the most recent min(n, count_) items, oldest
\* first.
LastN(r, n) ==
    LET actual == IF n < r.count THEN n ELSE r.count
        start  == (r.head + r.count - actual) % Capacity
    IN  [i \in 1..actual |-> r.buf[(start + i - 1) % Capacity]]

-----------------------------------------------------------------------------
(* MessagingService (messaging.h) and its Database calls.                 *)

\* MessagingService::log_event for the events numbered first, first + 1, ...
LogEvents(r, first, k) ==
    SeqX!FoldLeft(LAMBDA acc, e : PushOverwrite(acc, e), r,
                  [i \in 1..k |-> first + i - 1])

\* Database::create_channel(name): INSERT OR IGNORE; an existing name is
\* looked up.  Either way an id >= 0 comes back.
DbCreateChannel(chs, c) == chs \cup {c}

\* Database::send_message: one INSERT into messages, no check that the
\* channel exists, stamped with now_epoch_ms().
DbSendMessage(msgs, c, type, t) == Append(msgs, [channel |-> c, type |-> type, at |-> t])

\* The msg_ids of channel c's rows.
ChannelIds(c) == {i \in DOMAIN messages : messages[i].channel = c}

\* ORDER BY created_at DESC: every order of the ids that is newest first.
\* SQLite fixes no order among rows with equal created_at.
ByCreatedDesc(ids) ==
    {o \in SeqX!SetToSeqs(ids) :
        SeqX!IsSorted(o, LAMBDA x, y : messages[x].at >= messages[y].at)}

\* Mutant of GetMessages: the rows are returned newest first.
GetMessagesNoReverse(c, lim) ==
    {SubSeq(o, 1, IF lim < Len(o) THEN lim ELSE Len(o)) : o \in ByCreatedDesc(ChannelIds(c))}

\* Database::get_messages(channel, limit): the first `limit` rows of the
\* SELECT, then std::reverse so that the oldest comes first.
GetMessages(c, lim) ==
    {SeqX!Reverse(SubSeq(o, 1, IF lim < Len(o) THEN lim ELSE Len(o))) :
        o \in ByCreatedDesc(ChannelIds(c))}

Init ==
    /\ ring = [buf |-> [i \in Slots |-> 0], head |-> 0, tail |-> 0, count |-> 0]
    /\ logged = 0
    /\ channels = {}
    /\ messages = <<>>
    /\ clock = 0

\* TerminalUI::do_messaging, "Send Message" (type "text") or "Share File"
\* (type "file"): create_channel(ch), which logs "Channel created", then
\* send_message or share_file, which logs the message.
SendFromUi(c, type) ==
    /\ logged + 2 <= MaxEvents
    /\ channels' = DbCreateChannel(channels, c)
    /\ messages' = DbSendMessage(messages, c, type, clock)
    /\ ring' = LogEvents(ring, logged + 1, 2)
    /\ logged' = logged + 2
    /\ UNCHANGED clock

\* MessagingService::create_channel on its own.
CreateChannel(c) ==
    /\ logged + 1 <= MaxEvents
    /\ channels' = DbCreateChannel(channels, c)
    /\ ring' = LogEvents(ring, logged + 1, 1)
    /\ logged' = logged + 1
    /\ UNCHANGED <<messages, clock>>

\* A millisecond passes.
Tick ==
    /\ clock < MaxTime
    /\ clock' = clock + 1
    /\ UNCHANGED <<ring, logged, channels, messages>>

Next ==
    \/ \E c \in Channels, type \in {"text", "file"} : SendFromUi(c, type)
    \/ \E c \in Channels : CreateChannel(c)
    \/ Tick

Spec == Init /\ [][Next]_vars

-----------------------------------------------------------------------------
(* Properties.                                                             *)

TypeOK ==
    /\ ring.buf \in [Slots -> 0..MaxEvents]
    /\ ring.head \in Slots /\ ring.tail \in Slots
    /\ ring.count \in 0..Capacity
    /\ logged \in 0..MaxEvents
    /\ channels \subseteq Channels
    /\ clock \in 0..MaxTime

\* get_recent_events(n) (last_n) returns the n most recent events in the
\* order they were logged, for every n including 0 and n > capacity.
RecentEventsAreLatest ==
    \A n \in 0..Capacity + 1 :
        LET k == IF n < logged THEN (IF n < Capacity THEN n ELSE Capacity)
                 ELSE (IF logged < Capacity THEN logged ELSE Capacity)
        IN  LastN(ring, n) = [i \in 1..k |-> logged - k + i]

\* "View Messages" (get_messages(ch), limit 50) shows, oldest first, the
\* newest `limit` messages of the channel: as many as the limit allows, no
\* message left out is newer than one shown, and messages sent in
\* different milliseconds appear in the order they were sent.  The order of
\* messages sent in the same millisecond is not promised.
ViewShowsNewest ==
    \A c \in Channels : \A r \in GetMessages(c, Limit) :
        LET ids   == ChannelIds(c)
            shown == {r[i] : i \in DOMAIN r}
        IN  /\ shown \subseteq ids
            /\ Len(r) = Cardinality(shown)
            /\ Len(r) = IF Limit < Cardinality(ids) THEN Limit ELSE Cardinality(ids)
            /\ \A i \in ids \ shown, j \in shown : messages[i].at <= messages[j].at
            /\ \A x, y \in DOMAIN r :
                  x < y /\ messages[r[x]].at # messages[r[y]].at => r[x] < r[y]

=============================================================================
