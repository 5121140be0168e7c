--------------------------- MODULE ParameterProofs ---------------------------
(***************************************************************************)
(* For every set of parameters and slots and every number of edits: the    *)
(* types, and what flush promises.  For every set of polled parameters and *)
(* number of starts: the types, and that listed parameters are polled.     *)
(*                                                                         *)
(* A flush that returns finds the last edit of a cell on the device because*)
(* that edit is always somewhere: it waits, is in the line, was given up,  *)
(* or has arrived (LatestIsOnItsWay).  An older edit in the line would be  *)
(* sent after it, so the line has one update at most (OneUpdate), and one  *)
(* that is not the last only while the last one waits.                     *)
(* The string shown is the device's because a string of an older value is  *)
(* under way only while the query that follows the update is not sent, or  *)
(* as an exception that the property names (AnswersAreCurrent).            *)
(***************************************************************************)
EXTENDS MCParameters, SequenceTheorems, TLAPS

-----------------------------------------------------------------------------
(* Edits *)

\* A request of the update the queue is busy with: its value, or its string.
OfUpdate(b) == b.op \in {"set", "text"}

\* The line holds at most one such request, for the cell that is updating.
OneUpdate ==
    /\ \A i \in DOMAIN bus : OfUpdate(bus[i]) => bus[i].cell = updating
    /\ \A i, j \in DOMAIN bus : OfUpdate(bus[i]) /\ OfUpdate(bus[j]) => i = j

\* What waits for a cell is its last edit.
PendingIsLatest == \A i \in DOMAIN pending : pending[i].value = last[pending[i].cell]

Waits(c) == \E i \in DOMAIN pending : pending[i].cell = c

\* The last edit of a cell waits, is being sent, failed, or is on the device; an
\* older one is sent only while the last one waits.
LatestIsOnItsWay ==
    \A c \in Cell :
        /\ \/ Waits(c) \/ c \in unsent \/ device[c] = last[c]
           \/ \E i \in DOMAIN bus : /\ bus[i].op = "set" /\ bus[i].cell = c
                                    /\ bus[i].value = last[c]
        /\ \A i \in DOMAIN bus :
              bus[i].op = "set" /\ bus[i].cell = c => bus[i].value = last[c] \/ Waits(c)

\* Edits are numbered: the device's is no later than the one in the line, and
\* that no later than the last.
Ascending ==
    /\ \A c \in Cell : device[c] <= last[c] /\ last[c] <= edits
    /\ \A i \in DOMAIN bus : bus[i].op = "set" =>
          device[bus[i].cell] <= bus[i].value /\ bus[i].value <= last[bus[i].cell]

\* What has been asked and not answered is a read.
ReadAsked == asked => bus # <<>> /\ Head(bus).op # "set"

\* The queue's query for the string of c is to be sent, and has been sent.
AskWaits(c) == \E i \in DOMAIN bus : bus[i] = Ask(c) /\ (i = 1 => ~asked)
AskSent(c)  == asked /\ bus # <<>> /\ Head(bus) = Ask(c)

(***************************************************************************)
(* The string of an older value is under way only before the queue's query *)
(* for the new one is sent, or for a cell in doubt, or one whose query got *)
(* no answer.                                                              *)
(***************************************************************************)
Excused(c) == c \in doubt \/ AskWaits(c) \/ (c \in mute /\ ~AskSent(c))
StaleFor(c) == \E i \in DOMAIN wire : Stale(wire[i]) /\ wire[i].cell = c
AnswersAreCurrent == \A c \in Textual : StaleFor(c) => Excused(c)

\* The queue asks for the string of c.
Asks(c) == \E i \in DOMAIN bus : bus[i].op = "text" /\ bus[i].cell = c

\* A string is the device's, could not be read, is in doubt, or is being asked for.
TextFollows ==
    /\ \A i \in DOMAIN bus : bus[i].op = "text" => bus[i].cell \in Textual
    /\ \A c \in Textual : text[c] = device[c] \/ c \in mute \/ c \in doubt \/ Asks(c)

\* Each armed refresh timer was armed by an edit of its own.
RefreshesAreEdits ==
    \A s \in Slot : strays[s] + (IF refresh = s THEN 1 ELSE 0) <= edits

EditInv ==
    /\ TypeOK /\ OneUpdate /\ PendingIsLatest /\ LatestIsOnItsWay /\ Ascending
    /\ ReadAsked /\ AnswersAreCurrent /\ TextFollows /\ RefreshesAreEdits

USE CellAssumption

\* The elements of a sequence after its head is removed.
LEMMA TailFacts ==
    ASSUME NEW S, NEW s \in Seq(S), s # <<>>
    PROVE  /\ Tail(s) \in Seq(S) /\ Head(s) = s[1] /\ 1 \in DOMAIN s /\ s[1] \in S
           /\ \A i \in DOMAIN Tail(s) : i + 1 \in DOMAIN s /\ i + 1 # 1 /\ Tail(s)[i] = s[i+1]
           /\ \A i \in DOMAIN s : i # 1 => i - 1 \in DOMAIN Tail(s) /\ Tail(s)[i-1] = s[i]
           /\ \A i, j \in DOMAIN s : i - 1 = j - 1 => i = j
           /\ \A i, j \in DOMAIN Tail(s) : i + 1 = j + 1 => i = j
  OBVIOUS

\* The elements of a sequence after one is added.
LEMMA AppendFacts ==
    ASSUME NEW S, NEW s \in Seq(S), NEW x \in S
    PROVE  /\ Append(s, x) \in Seq(S) /\ Append(s, x) # <<>>
           /\ Len(s) + 1 \in DOMAIN Append(s, x) /\ Append(s, x)[Len(s) + 1] = x
           /\ Len(s) + 1 \notin DOMAIN s
           /\ \A i \in DOMAIN s : i \in DOMAIN Append(s, x) /\ Append(s, x)[i] = s[i]
           /\ \A i \in DOMAIN Append(s, x) :
                 (i \in DOMAIN s /\ Append(s, x)[i] = s[i]) \/ i = Len(s) + 1
           /\ s # <<>> => Head(Append(s, x)) = Head(s)
<1> DEFINE t == Append(s, x)
<1>1. /\ t \in Seq(S) /\ t # <<>> /\ Len(t) = Len(s) + 1 /\ t[Len(s) + 1] = x
      /\ \A i \in 1..Len(s) : t[i] = s[i]
  BY AppendProperties
<1>2. /\ Len(s) \in Nat /\ DOMAIN s = 1..Len(s) /\ DOMAIN t = 1..Len(t)
  BY <1>1, LenProperties
<1>3. s # <<>> => Head(t) = Head(s)
  BY HeadTailAppend
<1> QED
  BY <1>1, <1>2, <1>3

\* What is left of the answers under way when one has been taken.
LEMMA TakenFacts ==
    ASSUME NEW S, NEW s \in Seq(S), NEW i \in DOMAIN s
    PROVE  LET t == Ext!RemoveAt(s, i) IN
           /\ t \in Seq(S) /\ Len(t) = Len(s) - 1
           /\ \A j \in DOMAIN t : \E k \in DOMAIN s : t[j] = s[k]
<1> DEFINE a == SubSeq(s, 1, i - 1)
           b == SubSeq(s, i + 1, Len(s))
           t == Ext!RemoveAt(s, i)
<1>1. t = a \o b
  BY DEF Ext!RemoveAt
<1>2. Len(s) \in Nat /\ DOMAIN s = 1..Len(s) /\ i \in 1..Len(s)
  BY LenProperties
<1>3. /\ a \in Seq(S) /\ Len(a) = i - 1 /\ \A j \in 1..(i-1) : a[j] = s[j]
  BY <1>2, SubSeqProperties
<1>4. /\ b \in Seq(S) /\ Len(b) = Len(s) - i /\ \A j \in 1..(Len(s) - i) : b[j] = s[i + j]
  BY <1>2, SubSeqProperties
<1> HIDE DEF a, b, t
<1>5. /\ t \in Seq(S) /\ Len(t) = Len(s) - 1
      /\ \A j \in 1..Len(t) : t[j] = IF j <= i - 1 THEN a[j] ELSE b[j - (i - 1)]
  <2>1. /\ t \in Seq(S) /\ Len(t) = Len(a) + Len(b)
        /\ \A j \in 1..(Len(a) + Len(b)) : t[j] = IF j <= Len(a) THEN a[j] ELSE b[j - Len(a)]
    BY <1>1, <1>3, <1>4, ConcatProperties
  <2>2. Len(a) + Len(b) = Len(s) - 1
    BY <1>2, <1>3, <1>4
  <2> QED
    BY <1>3, <2>1, <2>2
<1>6. ASSUME NEW j \in DOMAIN t PROVE \E k \in DOMAIN s : t[j] = s[k]
  <2>1. j \in 1..(Len(s) - 1)
    BY <1>5, LenProperties
  <2>2. CASE j <= i - 1
    BY <1>2, <1>3, <1>5, <2>1, <2>2
  <2>3. CASE j > i - 1
    <3>1. j - (i - 1) \in 1..(Len(s) - i) /\ i + (j - (i - 1)) = j + 1 /\ j + 1 \in DOMAIN s
      BY <1>2, <2>1, <2>3
    <3>2. t[j] = s[j + 1]
      BY <1>2, <1>4, <1>5, <2>1, <2>3, <3>1
    <3> QED
      BY <3>1, <3>2
  <2> QED
    BY <1>2, <2>1, <2>2, <2>3
<1> QED
  BY <1>5, <1>6 DEF t

\* What is under way is taken from what was under way.
FromWire == \A j \in DOMAIN wire' : \E k \in DOMAIN wire : wire'[j] = wire[k]

LEMMA WireTaken ==
    ASSUME TypeOK, NEW i \in DOMAIN wire, wire' = Ext!RemoveAt(wire, i)
    PROVE  wire' \in Seq(Answers) /\ Len(wire') <= MaxAnswers /\ FromWire
<1>1. wire \in Seq(Answers) /\ Len(wire) \in Nat /\ Len(wire) <= MaxAnswers
  BY LenProperties DEF TypeOK
<1>2. /\ wire' \in Seq(Answers) /\ Len(wire') = Len(wire) - 1
      /\ \A j \in DOMAIN wire' : \E k \in DOMAIN wire : wire'[j] = wire[k]
  BY <1>1, TakenFacts
<1> QED
  BY <1>1, <1>2 DEF FromWire

\* The answer that ends a read is one of its kind.
LEMMA AnswerFields ==
    ASSUME TypeOK, NEW i \in DOMAIN wire, NEW b \in Requests, Matches(wire[i], b)
    PROVE  /\ b.op = "values" => wire[i].values \in [Cell -> 0..MaxEdits]
           /\ b.op # "values" => /\ wire[i].of = "text" /\ wire[i].cell = b.cell
                                 /\ wire[i].value \in 0..MaxEdits
<1>1. wire[i] \in Answers
  BY LenProperties, ElementOfSeq DEF TypeOK
<1> QED
  BY <1>1 DEF Answers, Matches

\* The requests have their fields.
LEMMA RequestFields ==
    ASSUME NEW b \in Requests
    PROVE  /\ b.op \in {"set", "text", "liveText", "values"}
           /\ b.op = "set" => b.cell \in Cell /\ b.value \in 0..MaxEdits
           /\ b.op \in {"text", "liveText"} => b.cell \in Cell
           /\ b.op = "values" => b.slot \in Slot
  BY DEF Requests

Updates == [cell : Cell, value : 1..MaxEdits]

\* p is the queue with a value for c put in: c waits with it, others as before.
PutIn(p, c, v) ==
    /\ p \in Seq(Updates)
    /\ \A i, j \in DOMAIN p : p[i].cell = p[j].cell => i = j
    /\ \E i \in DOMAIN p : p[i].cell = c
    /\ \A i \in DOMAIN p :
          \/ p[i].cell = c /\ p[i].value = v
          \/ p[i].cell # c /\ i \in DOMAIN pending /\ p[i] = pending[i]
    /\ \A i \in DOMAIN pending : i \in DOMAIN p /\ p[i].cell = pending[i].cell

\* That is what an edit does to the queue.
LEMMA PutFacts ==
    ASSUME pending \in Seq(Updates),
           \A i, j \in DOMAIN pending : pending[i].cell = pending[j].cell => i = j,
           NEW c \in Cell, NEW v \in 1..MaxEdits
    PROVE  PutIn(Put(c, v), c, v)
<1>1. CASE \E i \in DOMAIN pending : pending[i].cell = c
  <2> DEFINE put(i) ==
        IF pending[i].cell = c THEN [pending[i] EXCEPT !.value = v] ELSE pending[i]
  <2>1. Put(c, v) = [i \in DOMAIN pending |-> put(i)]
    BY <1>1 DEF Put
  <2>2. DOMAIN Put(c, v) = DOMAIN pending
    BY <2>1
  <2>3. ASSUME NEW i \in DOMAIN pending
        PROVE  /\ Put(c, v)[i] \in Updates /\ Put(c, v)[i].cell = pending[i].cell
               /\ pending[i].cell = c => Put(c, v)[i].value = v
               /\ pending[i].cell # c => Put(c, v)[i] = pending[i]
    <3>1. pending[i] \in Updates
      BY ElementOfSeq, LenProperties
    <3> QED
      BY <2>1, <3>1 DEF Updates
  <2>4. Put(c, v) \in Seq(Updates)
    <3>1. DOMAIN pending = 1..Len(pending) /\ Len(pending) \in Nat
      OBVIOUS
    <3> HIDE DEF put
    <3>2. Put(c, v) = [i \in 1..Len(pending) |-> Put(c, v)[i]]
      BY <2>1, <3>1
    <3>3. Put(c, v) \in [1..Len(pending) -> Updates]
      BY <2>3, <3>1, <3>2
    <3> QED
      BY <3>1, <3>3
  <2>5. PICK i \in DOMAIN pending : pending[i].cell = c
    BY <1>1
  <2>6. \A j \in DOMAIN pending : Put(c, v)[j].cell = pending[j].cell
    BY <2>3
  <2>7. \A j, k \in DOMAIN pending : Put(c, v)[j].cell = Put(c, v)[k].cell => j = k
    BY <2>6
  <2>8. \E j \in DOMAIN Put(c, v) : Put(c, v)[j].cell = c
    BY <2>2, <2>5, <2>6
  <2> QED
    BY <2>2, <2>3, <2>4, <2>6, <2>7, <2>8 DEF PutIn
<1>2. CASE ~\E i \in DOMAIN pending : pending[i].cell = c
  <2> DEFINE x == [cell |-> c, value |-> v]
  <2>1. Put(c, v) = Append(pending, x) /\ x \in Updates /\ x.cell = c /\ x.value = v
    BY <1>2 DEF Put, Updates
  <2> HIDE DEF x
  <2> QED
    BY <1>2, <2>1, AppendFacts DEF PutIn
<1> QED
  BY <1>1, <1>2

\* The requests of updates are those there were, d places nearer to the head.
SameUpdates(d) ==
    /\ bus' \in Seq(Requests)
    /\ \A i \in DOMAIN bus' :
          OfUpdate(bus'[i]) => i + d \in DOMAIN bus /\ bus[i + d] = bus'[i]
    /\ \A i \in DOMAIN bus :
          OfUpdate(bus[i]) => i - d \in DOMAIN bus' /\ bus'[i - d] = bus[i]
    /\ \A i, j \in DOMAIN bus' : i + d = j + d => i = j

\* A read enters the line.
LEMMA ReadEnters ==
    ASSUME TypeOK, NEW b \in Requests, ~OfUpdate(b), bus' = Append(bus, b)
    PROVE  /\ SameUpdates(0) /\ bus' # <<>>
           /\ bus # <<>> => Head(bus') = Head(bus)
<1>1. bus \in Seq(Requests)
  BY DEF TypeOK
<1>2. /\ \A i \in DOMAIN bus : i \in Int /\ i + 0 = i /\ i - 0 = i
      /\ \A i \in DOMAIN bus' : i \in Int /\ i + 0 = i /\ i - 0 = i
  BY <1>1, AppendProperties, LenProperties
<1>3. SameUpdates(0)
  BY <1>1, <1>2, AppendFacts DEF SameUpdates
<1>4. bus' # <<>> /\ (bus # <<>> => Head(bus') = Head(bus))
  BY <1>1, AppendFacts
<1> QED
  BY <1>3, <1>4

\* A read leaves the line.
LEMMA ReadLeaves ==
    ASSUME TypeOK, bus # <<>>, ~OfUpdate(Head(bus)), bus' = Tail(bus)
    PROVE  SameUpdates(1)
  BY TailFacts DEF TypeOK, SameUpdates

\* Reads come and go: what is on its way stays there, and strings become the
\* device's or stay.
LEMMA ReadsKeepUpdates ==
    ASSUME EditInv, NEW d \in {0, 1}, SameUpdates(d),
           UNCHANGED <<edits, last, pending, updating, device, failures>>,
           \A c \in Textual :
              text'[c] = text[c] \/ text'[c] = device[c] \/ c \in mute \/ c \in doubt \/ Asks(c)
    PROVE  OneUpdate' /\ PendingIsLatest' /\ LatestIsOnItsWay' /\ Ascending' /\ TextFollows'
<1> USE DEF EditInv, failures
<1>1. OneUpdate'
  BY DEF OneUpdate, SameUpdates
<1>2. PendingIsLatest'
  BY DEF PendingIsLatest
<1>3. LatestIsOnItsWay'
  BY DEF LatestIsOnItsWay, SameUpdates, OfUpdate, Waits
<1>4. Ascending'
  BY DEF Ascending, SameUpdates, OfUpdate
<1>5. TextFollows'
  <2>1. \A c \in Textual : Asks(c) => Asks(c)'
    BY DEF Asks, SameUpdates, OfUpdate
  <2> QED
    BY <2>1 DEF TextFollows, SameUpdates, OfUpdate
<1> QED
  BY <1>1, <1>2, <1>3, <1>4, <1>5

\* Reads come and go, answers arrive or are lost: none becomes stale, and a query
\* that waits goes on waiting.
LEMMA AnswersStay ==
    ASSUME EditInv, NEW d \in {0, 1}, SameUpdates(d), FromWire,
           UNCHANGED <<device, mute, doubt>>,
           d = 0 => asked' = asked /\ (asked => bus' # <<>> /\ Head(bus') = Head(bus)),
           d = 1 => asked' = FALSE /\ bus # <<>> /\ ~OfUpdate(Head(bus))
    PROVE  ReadAsked' /\ AnswersAreCurrent'
<1> USE DEF EditInv
<1>1. ReadAsked'
  BY DEF ReadAsked
<1>2. ASSUME NEW c, AskWaits(c) PROVE AskWaits(c)'
  <2>1. PICK i \in DOMAIN bus : bus[i] = Ask(c) /\ (i = 1 => ~asked)
    BY <1>2 DEF AskWaits
  <2>2. i - d \in DOMAIN bus' /\ bus'[i - d] = Ask(c)
    BY <2>1 DEF SameUpdates, OfUpdate, Ask
  <2>3. (i - d = 1 => ~asked')
    <3>1. i \in Nat
      BY LenProperties DEF TypeOK
    <3> QED
      BY <2>1, <3>1
  <2>4. Ask(c)' = Ask(c)
    BY DEF Ask
  <2> QED
    BY <2>2, <2>3, <2>4 DEF AskWaits
<1>3. ASSUME NEW c, AskSent(c)' PROVE AskSent(c)
  BY <1>3 DEF AskSent, Ask, ReadAsked
<1>4. ASSUME NEW c, StaleFor(c)' PROVE StaleFor(c)
  <2>1. PICK j \in DOMAIN wire' : Stale(wire[j])' /\ wire'[j].cell = c
    BY <1>4 DEF StaleFor
  <2>2. PICK k \in DOMAIN wire : wire'[j] = wire[k]
    BY DEF FromWire
  <2> QED
    BY <2>1, <2>2 DEF StaleFor, Stale
<1>5. AnswersAreCurrent'
  BY <1>2, <1>3, <1>4 DEF AnswersAreCurrent, Excused
<1> QED
  BY <1>1, <1>5

LEMMA EditStep ==
    ASSUME EditInv, NEW c \in Cell, NEW moving \in BOOLEAN, Edit(c, moving)
    PROVE  EditInv'
<1> USE DEF EditInv
<1>1. /\ edits' \in 1..MaxEdits /\ edits' = edits + 1 /\ edits \in 0..MaxEdits
      /\ last \in [Cell -> 0..MaxEdits] /\ last' = [last EXCEPT ![c] = edits']
      /\ pending' = Put(c, edits')
      /\ UNCHANGED <<text, updating, asked, wire, device, unsent, mute, doubt>>
  BY DEF Edit, TypeOK, failures
<1>2. PutIn(pending', c, edits')
  <2>1. /\ pending \in Seq(Updates)
        /\ \A i, j \in DOMAIN pending : pending[i].cell = pending[j].cell => i = j
    BY DEF TypeOK, Updates
  <2>2. PutIn(Put(c, edits'), c, edits')
    BY <1>1, <2>1, PutFacts
  <2> QED
    BY <1>1, <2>2
<1>3. /\ SameUpdates(0) /\ bus' \in Seq(Requests)
      /\ bus # <<>> => bus' # <<>> /\ Head(bus') = Head(bus)
  <2>1. CASE UNCHANGED bus
    <3>1. bus \in Seq(Requests) /\ \A i \in DOMAIN bus : i + 0 = i /\ i - 0 = i
      BY LenProperties DEF TypeOK
    <3> QED
      BY <2>1, <3>1 DEF SameUpdates
  <2>2. CASE bus' = Append(bus, AskLive(c))
    <3>1. AskLive(c) \in Requests /\ ~OfUpdate(AskLive(c))
      BY DEF AskLive, Requests, OfUpdate
    <3>2. SameUpdates(0) /\ bus' # <<>> /\ (bus # <<>> => Head(bus') = Head(bus))
      BY <2>2, <3>1, ReadEnters
    <3> QED
      BY <3>2 DEF SameUpdates
  <2> QED
    BY <2>1, <2>2 DEF Edit
<1>4. TypeOK'
  <2>1. /\ ui' \in [Cell -> 0..MaxEdits] /\ timer' \in BOOLEAN
        /\ refresh' \in Slot \cup {NoSlot} /\ strays' \in [Slot -> 0..MaxEdits]
    BY <1>1, CellAssumption DEF TypeOK, Edit, ScheduleRefresh
  <2>2. /\ edits' \in 0..MaxEdits /\ last' \in [Cell -> 0..MaxEdits]
        /\ device' \in [Cell -> 0..MaxEdits] /\ text' \in [Textual -> 0..MaxEdits]
        /\ updating' \in Cell \cup {NoCell}
        /\ asked' \in BOOLEAN /\ wire' \in Seq(Answers) /\ Len(wire') <= MaxAnswers
        /\ unsent' \subseteq Cell /\ mute' \subseteq Textual /\ doubt' \subseteq Textual
    BY <1>1 DEF TypeOK, Edit
  <2> QED
    BY <1>2, <1>3, <2>1, <2>2 DEF TypeOK, Updates, PutIn
<1>5. OneUpdate'
  BY <1>1, <1>3 DEF OneUpdate, SameUpdates
<1>6. PendingIsLatest'
  <2>1. \A i \in DOMAIN pending : pending[i].cell \in Cell
    <3>1. pending \in Seq(Updates)
      BY DEF TypeOK, Updates
    <3>2. \A i \in DOMAIN pending : pending[i] \in Updates
      BY <3>1, LenProperties, ElementOfSeq
    <3> QED
      BY <3>2 DEF Updates
  <2> QED
    BY <1>1, <1>2, <2>1 DEF PendingIsLatest, PutIn
<1>7. LatestIsOnItsWay'
  <2>1. Waits(c)' /\ \A x \in Cell : Waits(x) => Waits(x)'
    BY <1>2 DEF Waits, PutIn
  <2>2. \A x \in Cell : x # c => last'[x] = last[x]
    BY <1>1
  <2> QED
    BY <1>1, <1>3, <2>1, <2>2 DEF LatestIsOnItsWay, SameUpdates, OfUpdate
<1>8. Ascending'
  <2>1. \A x \in Cell : device[x] \in 0..MaxEdits /\ last[x] \in 0..MaxEdits
    BY DEF TypeOK
  <2>2. \A x \in Cell : last[x] <= last'[x] /\ last'[x] <= edits'
    BY <1>1, <2>1 DEF Ascending
  <2>3. ASSUME NEW i \in DOMAIN bus', bus'[i].op = "set"
        PROVE  /\ device[bus'[i].cell] <= bus'[i].value
               /\ bus'[i].value <= last'[bus'[i].cell]
    <3>1. bus'[i] \in Requests
      BY <1>3, LenProperties, ElementOfSeq
    <3>2. bus'[i].cell \in Cell /\ bus'[i].value \in 0..MaxEdits
      BY <2>3, <3>1, RequestFields
    <3>3. /\ device[bus'[i].cell] <= bus'[i].value
          /\ bus'[i].value <= last[bus'[i].cell]
      BY <1>3, <2>3 DEF Ascending, SameUpdates, OfUpdate
    <3>4. last'[bus'[i].cell] \in Nat
      BY <1>1, <3>2
    <3> QED
      BY <2>1, <2>2, <3>2, <3>3, <3>4
  <2>4. \A x \in Cell : device[x] <= last'[x]
    BY <1>1, <2>1, <2>2 DEF Ascending
  <2> QED
    BY <1>1, <2>2, <2>3, <2>4 DEF Ascending
<1>9. ReadAsked' /\ AnswersAreCurrent'
  <2>1. FromWire
    BY <1>1 DEF FromWire
  <2>2. asked => bus # <<>>
    BY DEF ReadAsked
  <2> QED
    BY <1>1, <1>3, <2>1, <2>2, AnswersStay
<1>10. TextFollows'
  BY <1>1, <1>3 DEF TextFollows, Asks, SameUpdates, OfUpdate
<1>11. RefreshesAreEdits'
  <2>1. /\ edits \in Nat /\ edits' = edits + 1 /\ strays' = strays
        /\ strays \in [Slot -> 0..MaxEdits]
    BY <1>1 DEF Edit, ScheduleRefresh, TypeOK
  <2>2. \A s \in Slot : strays[s] \in Nat /\ strays[s] <= edits
    BY <2>1 DEF RefreshesAreEdits
  <2> QED
    BY <2>1, <2>2 DEF RefreshesAreEdits
<1> QED
  BY <1>4, <1>5, <1>6, <1>7, <1>8, <1>9, <1>10, <1>11

\* The queue sends an update only when the line has none of its own.
LEMMA ProcessNextStep ==
    ASSUME EditInv, ProcessNext
    PROVE  EditInv'
<1> USE DEF EditInv
<1>1. /\ timer' = FALSE
      /\ UNCHANGED <<edits, last, ui, text, refresh, strays, asked, wire, device, unsent, mute,
                     doubt>>
  BY DEF ProcessNext, failures
<1>2. CASE UNCHANGED <<pending, updating, bus>>
  <2>1. TypeOK'
    BY <1>1, <1>2 DEF TypeOK
  <2>2. OneUpdate' /\ PendingIsLatest' /\ LatestIsOnItsWay' /\ Ascending'
    BY <1>1, <1>2 DEF OneUpdate, PendingIsLatest, LatestIsOnItsWay, Ascending, Waits
  <2>3. ReadAsked' /\ AnswersAreCurrent' /\ TextFollows' /\ RefreshesAreEdits'
    BY <1>1, <1>2 DEF ReadAsked, AnswersAreCurrent, Excused, StaleFor, AskWaits, AskSent, Ask,
      Stale, TextFollows, Asks, RefreshesAreEdits
  <2> QED
    BY <2>1, <2>2, <2>3
<1>3. CASE pending # <<>> /\ updating = NoCell
  <2> DEFINE c == Head(pending).cell
             b == Set(c, Head(pending).value)
  <2>1. pending \in Seq(Updates) /\ bus \in Seq(Requests)
    BY DEF TypeOK, Updates
  <2>2. pending' = Tail(pending) /\ updating' = c /\ bus' = Append(bus, b)
    BY <1>3 DEF ProcessNext
  <2>3. /\ Tail(pending) \in Seq(Updates) /\ Head(pending) = pending[1] /\ 1 \in DOMAIN pending
        /\ pending[1] \in Updates
        /\ \A i \in DOMAIN pending' :
              i + 1 \in DOMAIN pending /\ i + 1 # 1 /\ pending'[i] = pending[i + 1]
        /\ \A i \in DOMAIN pending :
              i # 1 => i - 1 \in DOMAIN pending' /\ pending'[i - 1] = pending[i]
        /\ \A i, j \in DOMAIN pending' : i + 1 = j + 1 => i = j
    BY <1>3, <2>1, <2>2, TailFacts
  <2>4. c \in Cell /\ Head(pending).value \in 1..MaxEdits /\ Head(pending).value = last[c]
    BY <2>3 DEF Updates, PendingIsLatest
  <2>5. /\ b \in Requests /\ b.op = "set" /\ b.cell = c /\ b.value = last[c]
    BY <2>4 DEF Set, Requests
  <2> HIDE DEF b
  <2>6. /\ bus' \in Seq(Requests) /\ bus' # <<>>
        /\ Len(bus) + 1 \in DOMAIN bus' /\ bus'[Len(bus) + 1] = b
        /\ \A i \in DOMAIN bus : i \in DOMAIN bus' /\ bus'[i] = bus[i]
        /\ \A i \in DOMAIN bus' : (i \in DOMAIN bus /\ bus'[i] = bus[i]) \/ i = Len(bus) + 1
        /\ bus # <<>> => Head(bus') = Head(bus)
    BY <2>1, <2>2, <2>5, AppendFacts
  <2>7. \A i \in DOMAIN bus : ~OfUpdate(bus[i])
    <3>1. \A i \in DOMAIN bus : bus[i] \in Requests
      BY <2>1, LenProperties, ElementOfSeq
    <3>2. \A i \in DOMAIN bus : OfUpdate(bus[i]) => bus[i].cell \in Cell
      BY <3>1, RequestFields DEF OfUpdate
    <3> QED
      BY <1>3, <3>2 DEF OneUpdate
  <2> HIDE DEF c
  <2>8. TypeOK'
    <3>1. \A i, j \in DOMAIN pending : pending[i].cell = pending[j].cell => i = j
      BY DEF TypeOK
    <3>2. \A i, j \in DOMAIN pending' : pending'[i].cell = pending'[j].cell => i = j
      BY <2>3, <3>1
    <3> QED
      BY <1>1, <2>2, <2>3, <2>4, <2>6, <3>2 DEF TypeOK, Updates
  <2>9. OneUpdate'
    BY <2>2, <2>5, <2>6, <2>7 DEF OneUpdate
  <2>10. PendingIsLatest'
    BY <1>1, <2>3 DEF PendingIsLatest
  <2>11. LatestIsOnItsWay'
    <3>1. ASSUME NEW x \in Cell, x # c PROVE Waits(x)' <=> Waits(x)
      BY <2>3, <3>1 DEF Waits, c
    <3>2. \A i \in DOMAIN bus' : bus'[i].op = "set" => bus'[i] = b
      BY <2>6, <2>7 DEF OfUpdate
    <3>3. \A i \in DOMAIN bus : bus[i].op # "set"
      BY <2>7 DEF OfUpdate
    <3> QED
      BY <1>1, <2>5, <2>6, <3>1, <3>2, <3>3 DEF LatestIsOnItsWay
  <2>12. Ascending'
    <3>1. \A i \in DOMAIN bus' : bus'[i].op = "set" => bus'[i] = b
      BY <2>6, <2>7 DEF OfUpdate
    <3>2. last[c] \in Nat
      BY <2>4 DEF TypeOK
    <3> QED
      BY <1>1, <2>4, <2>5, <3>1, <3>2 DEF Ascending
  <2>13. ReadAsked' /\ AnswersAreCurrent'
    <3>1. ReadAsked'
      BY <1>1, <2>6 DEF ReadAsked
    <3>2. ASSUME NEW x, AskWaits(x) PROVE AskWaits(x)'
      BY <1>1, <2>6, <3>2 DEF AskWaits, Ask
    <3>3. ASSUME NEW x, AskSent(x)' PROVE AskSent(x)
      BY <1>1, <2>6, <3>3 DEF AskSent, Ask, ReadAsked
    <3>4. \A x : StaleFor(x)' <=> StaleFor(x)
      BY <1>1 DEF StaleFor, Stale
    <3> QED
      BY <1>1, <3>1, <3>2, <3>3, <3>4 DEF AnswersAreCurrent, Excused
  <2>14. TextFollows'
    <3>1. \A i \in DOMAIN bus' : bus'[i].op = "text" => i \in DOMAIN bus
      BY <2>5, <2>6
    <3> QED
      BY <1>1, <2>6, <3>1 DEF TextFollows, Asks
  <2>15. RefreshesAreEdits'
    BY <1>1 DEF RefreshesAreEdits
  <2> QED
    BY <2>8, <2>9, <2>10, <2>11, <2>12, <2>13, <2>14, <2>15
<1> QED
  BY <1>2, <1>3 DEF ProcessNext

\* The request at the head of the line, when it is one of an update, is the
\* only one of an update.
LEMMA HeadIsUpdate ==
    ASSUME EditInv, bus # <<>>, OfUpdate(Head(bus))
    PROVE  /\ Head(bus) \in Requests /\ Tail(bus) \in Seq(Requests)
           /\ updating \in Cell /\ Head(bus).cell = updating
           /\ 1 \in DOMAIN bus /\ bus[1] = Head(bus)
           /\ \A i \in DOMAIN bus : OfUpdate(bus[i]) => bus[i] = Head(bus)
           /\ \A i \in DOMAIN Tail(bus) : ~OfUpdate(Tail(bus)[i])
<1>1. bus \in Seq(Requests)
  BY DEF EditInv, TypeOK
<1>2. /\ Tail(bus) \in Seq(Requests) /\ Head(bus) = bus[1] /\ 1 \in DOMAIN bus
      /\ bus[1] \in Requests
      /\ \A i \in DOMAIN Tail(bus) :
            i + 1 \in DOMAIN bus /\ i + 1 # 1 /\ Tail(bus)[i] = bus[i + 1]
  BY <1>1, TailFacts
<1>3. Head(bus).cell \in Cell
  BY <1>2, RequestFields DEF OfUpdate
<1>4. OneUpdate
  BY DEF EditInv
<1> QED
  BY <1>2, <1>3, <1>4 DEF OneUpdate

\* The value reaches the device, and the line has no other value.
LEMMA SetSentStep ==
    ASSUME EditInv, SetSent
    PROVE  EditInv'
<1> USE DEF EditInv
<1> DEFINE c == Head(bus).cell
           v == Head(bus).value
<1>1. /\ bus # <<>> /\ Head(bus).op = "set" /\ OfUpdate(Head(bus))
      /\ device' = [device EXCEPT ![c] = v] /\ unsent' = unsent \ {c}
      /\ UNCHANGED <<edits, last, ui, text, pending, refresh, strays, asked, wire, mute, doubt>>
  BY DEF SetSent, OfUpdate, FinishUpdate, queueVars
<1>2. /\ Head(bus) \in Requests /\ Tail(bus) \in Seq(Requests)
      /\ updating \in Cell /\ c = updating /\ 1 \in DOMAIN bus /\ bus[1] = Head(bus)
      /\ \A i \in DOMAIN bus : OfUpdate(bus[i]) => bus[i] = Head(bus)
      /\ \A i \in DOMAIN Tail(bus) : ~OfUpdate(Tail(bus)[i])
  BY <1>1, HeadIsUpdate
<1>3. c \in Cell /\ v \in 0..MaxEdits
  BY <1>1, <1>2, RequestFields
<1>4. /\ device[c] <= v /\ v <= last[c] /\ (v = last[c] \/ Waits(c))
  BY <1>1, <1>2, <1>3 DEF Ascending, LatestIsOnItsWay
<1>5. asked = FALSE
  BY <1>1 DEF ReadAsked, TypeOK
<1>6. /\ bus' \in Seq(Requests) /\ timer' \in BOOLEAN /\ updating' \in Cell \cup {NoCell}
      /\ \A i \in DOMAIN bus' : OfUpdate(bus'[i]) => /\ bus'[i] = Ask(c) /\ i = Len(bus')
                                                   /\ updating' = c /\ c \in Textual
      /\ c \in Textual => \E i \in DOMAIN bus' : bus'[i] = Ask(c)
  <2>1. CASE c \in Textual
    <3>1. Ask(c) \in Requests
      BY <1>3 DEF Ask, Requests
    <3>2. bus' = Append(Tail(bus), Ask(c)) /\ UNCHANGED <<updating, timer>>
      BY <2>1 DEF SetSent, queueVars
    <3>3. /\ bus' \in Seq(Requests) /\ Len(bus') = Len(Tail(bus)) + 1
          /\ Len(Tail(bus)) + 1 \in DOMAIN bus' /\ bus'[Len(Tail(bus)) + 1] = Ask(c)
          /\ \A i \in DOMAIN bus' : \/ i \in DOMAIN Tail(bus) /\ bus'[i] = Tail(bus)[i]
                                    \/ i = Len(Tail(bus)) + 1
      BY <1>2, <3>1, <3>2, AppendFacts, AppendProperties
    <3>4. timer \in BOOLEAN
      BY DEF TypeOK
    <3> QED
      BY <1>2, <2>1, <3>2, <3>3, <3>4
  <2>2. CASE c \notin Textual
    <3>1. FinishUpdate(Tail(bus))
      BY <2>2 DEF SetSent
    <3> QED
      BY <1>2, <2>2, <3>1 DEF FinishUpdate
  <2> QED
    BY <2>1, <2>2
<1> HIDE DEF c, v
<1>7. Ask(c).op = "text" /\ Ask(c).cell = c
  BY DEF Ask
<1>8. TypeOK'
  <2>1. /\ device' \in [Cell -> 0..MaxEdits] /\ unsent' \subseteq Cell
    BY <1>1, <1>3 DEF TypeOK
  <2> QED
    BY <1>1, <1>6, <2>1 DEF TypeOK
<1>9. OneUpdate'
  BY <1>6, <1>7 DEF OneUpdate
<1>10. PendingIsLatest'
  BY <1>1 DEF PendingIsLatest
<1>11. \A i \in DOMAIN bus' : bus'[i].op # "set"
  BY <1>6, <1>7 DEF OfUpdate
<1>12. LatestIsOnItsWay'
  <2>1. ASSUME NEW x \in Cell
        PROVE  Waits(x) \/ x \in unsent' \/ device'[x] = last[x]
    <3>1. CASE x = c
      BY <1>1, <1>3, <1>4, <3>1 DEF TypeOK
    <3>2. CASE x # c
      <4>1. device'[x] = device[x] /\ (x \in unsent => x \in unsent')
        BY <1>1, <3>2 DEF TypeOK
      <4>2. \A i \in DOMAIN bus : bus[i].op = "set" => bus[i].cell # x
        BY <1>2, <3>2 DEF OfUpdate, c
      <4> QED
        BY <4>1, <4>2 DEF LatestIsOnItsWay
    <3> QED
      BY <3>1, <3>2
  <2> QED
    BY <1>1, <1>11, <2>1 DEF LatestIsOnItsWay, Waits
<1>13. Ascending'
  <2>1. \A x \in Cell : device'[x] <= last[x]
    BY <1>1, <1>4 DEF TypeOK, Ascending
  <2> QED
    BY <1>1, <1>11, <2>1 DEF Ascending
<1>14. ReadAsked' /\ AnswersAreCurrent'
  <2>1. ReadAsked'
    BY <1>1, <1>5 DEF ReadAsked
  <2>2. asked' = FALSE /\ \A x : ~AskSent(x)'
    BY <1>1, <1>5 DEF AskSent
  <2>3. ASSUME NEW x \in Textual, x = c PROVE AskWaits(x)'
    <3>1. \E i \in DOMAIN bus' : bus'[i] = Ask(x)
      BY <1>6, <2>3
    <3> QED
      BY <2>2, <3>1 DEF AskWaits, Ask
  <2>4. ASSUME NEW x, x # c PROVE ~AskWaits(x)
    <3>1. \A i \in DOMAIN bus : bus[i].op # "text"
      BY <1>1, <1>2 DEF OfUpdate
    <3> QED
      BY <3>1 DEF AskWaits, Ask
  <2>5. ASSUME NEW x \in Textual, x # c, StaleFor(x)' PROVE Excused(x)'
    <3>1. device'[x] = device[x] /\ x \in Cell
      BY <1>1, <2>5 DEF TypeOK
    <3>2. StaleFor(x)
      BY <1>1, <2>5, <3>1 DEF StaleFor, Stale
    <3> QED
      BY <1>1, <2>2, <2>4, <2>5, <3>2 DEF AnswersAreCurrent, Excused
  <2> QED
    BY <2>1, <2>3, <2>5 DEF AnswersAreCurrent, Excused
<1>15. TextFollows'
  <2>1. ASSUME NEW x \in Textual, x # c
        PROVE  text[x] = device'[x] \/ x \in mute \/ x \in doubt
    <3>1. \A i \in DOMAIN bus : bus[i].op # "text"
      BY <1>1, <1>2 DEF OfUpdate
    <3>2. x \in Cell /\ device'[x] = device[x]
      BY <1>1, <2>1 DEF TypeOK
    <3> QED
      BY <3>1, <3>2 DEF TextFollows, Asks
  <2>2. ASSUME NEW x \in Textual, x = c PROVE Asks(x)'
    <3>1. \E i \in DOMAIN bus' : bus'[i].op = "text" /\ bus'[i].cell = x
      BY <1>6, <1>7, <2>2
    <3> QED
      BY <3>1 DEF Asks
  <2>3. \A x \in Textual : text'[x] = device'[x] \/ x \in mute' \/ x \in doubt' \/ Asks(x)'
    BY <1>1, <2>1, <2>2
  <2>4. \A i \in DOMAIN bus' : bus'[i].op = "text" => bus'[i].cell \in Textual
    BY <1>6, <1>7 DEF OfUpdate
  <2> QED
    BY <2>3, <2>4 DEF TextFollows
<1>16. RefreshesAreEdits'
  BY <1>1 DEF RefreshesAreEdits
<1> QED
  BY <1>8, <1>9, <1>10, <1>12, <1>13, <1>14, <1>15, <1>16

\* An update ends, its value or its string having failed, or its string being there.
LEMMA FinishStep ==
    ASSUME EditInv, SetFails \/ TextArrives \/ TextFails
    PROVE  EditInv'
<1> USE DEF EditInv
<1> DEFINE c == Head(bus).cell
<1>1. /\ bus # <<>> /\ OfUpdate(Head(bus)) /\ FinishUpdate(Tail(bus))
      /\ UNCHANGED <<edits, last, ui, device, pending, refresh, strays>>
  BY DEF SetFails, TextArrives, TextFails, Answered, NotAnswered, OfUpdate, FinishUpdate
<1>2. /\ Head(bus) \in Requests /\ Tail(bus) \in Seq(Requests)
      /\ updating \in Cell /\ c = updating /\ 1 \in DOMAIN bus /\ bus[1] = Head(bus)
      /\ \A i \in DOMAIN bus : OfUpdate(bus[i]) => bus[i] = Head(bus)
      /\ \A i \in DOMAIN Tail(bus) : ~OfUpdate(Tail(bus)[i])
  BY <1>1, HeadIsUpdate
<1>3. bus' = Tail(bus) /\ timer' \in BOOLEAN /\ updating' = NoCell
  BY <1>1 DEF FinishUpdate
<1>4. \A i \in DOMAIN bus' : ~OfUpdate(bus'[i])
  BY <1>2, <1>3
<1>5. /\ asked' = FALSE /\ doubt' = doubt /\ FromWire
      /\ wire' \in Seq(Answers) /\ Len(wire') <= MaxAnswers
  <2>1. CASE TextArrives
    <3>1. PICK i \in DOMAIN wire : Answered("text", i)
      BY <2>1 DEF TextArrives
    <3> QED
      BY <2>1, <3>1, WireTaken DEF TextArrives, Answered
  <2>2. CASE SetFails \/ TextFails
    <3>1. wire' = wire /\ doubt' = doubt /\ asked' = FALSE
      BY <2>2 DEF SetFails, TextFails, NotAnswered, ReadAsked, TypeOK
    <3> QED
      BY <3>1 DEF FromWire, TypeOK
  <2> QED
    BY <2>1, <2>2
<1> HIDE DEF c
<1>6. /\ unsent' \in {unsent, unsent \cup {c}} /\ mute' \in {mute, mute \cup {c}, mute \ {c}}
      /\ Head(bus).op = "set" => /\ unsent' = unsent \cup {c} /\ UNCHANGED <<text, mute>>
      /\ Head(bus).op = "text" =>
            /\ UNCHANGED unsent
            /\ \/ c \in mute' /\ text' = text /\ mute \subseteq mute'
               \/ /\ \E v \in 0..MaxEdits : /\ text' = [text EXCEPT ![c] = v]
                                            /\ v = device[c] \/ c \in doubt
                  /\ mute' = mute \ {c}
                  /\ StaleFor(c) => c \in doubt
  <2>1. CASE SetFails
    BY <2>1 DEF SetFails, c
  <2>2. CASE TextArrives
    <3>1. PICK i \in DOMAIN wire : /\ Answered("text", i)
                                   /\ text' = [text EXCEPT ![wire[i].cell] = wire[i].value]
      BY <2>2 DEF TextArrives
    <3>2. /\ Head(bus).op = "text" /\ asked /\ Matches(wire[i], Head(bus))
          /\ mute' = mute \ {c} /\ unsent' = unsent
      BY <2>2, <3>1 DEF TextArrives, Answered, c
    <3>3. wire[i].of = "text" /\ wire[i].cell = c /\ wire[i].value \in 0..MaxEdits
      BY <1>2, <3>2, AnswerFields DEF c
    <3>4. c \in Textual
      BY <1>2, <3>2 DEF TextFollows, c
    <3>5. Head(bus) = Ask(c)
      BY <1>2, <3>2 DEF Requests, Ask, c
    <3>6. AskSent(c) /\ ~AskWaits(c)
      <4>1. \A j \in DOMAIN bus : bus[j] = Ask(c) => j = 1
        BY <1>2, <3>2 DEF OneUpdate, OfUpdate, Ask
      <4> QED
        BY <1>1, <3>2, <3>5, <4>1 DEF AskSent, AskWaits
    <3>7. StaleFor(c) => c \in doubt
      BY <3>4, <3>6 DEF AnswersAreCurrent, Excused
    <3>8. wire[i].value = device[c] \/ c \in doubt
      BY <3>3, <3>7 DEF StaleFor, Stale
    <3> QED
      BY <3>1, <3>2, <3>3, <3>7, <3>8
  <2>3. CASE TextFails
    BY <2>3 DEF TextFails, NotAnswered, c
  <2> QED
    BY <2>1, <2>2, <2>3
<1>7. Head(bus).op \in {"set", "text"}
  BY <1>1 DEF OfUpdate
<1>8. TypeOK'
  <2>1. Head(bus).op = "text" => c \in Textual
    BY <1>2 DEF TextFollows, c
  <2>2. /\ text' \in [Textual -> 0..MaxEdits] /\ mute' \subseteq Textual
        /\ unsent' \subseteq Cell
    <3>1. text \in [Textual -> 0..MaxEdits] /\ mute \subseteq Textual /\ unsent \subseteq Cell
      BY DEF TypeOK
    <3>2. CASE Head(bus).op = "set"
      BY <1>2, <1>6, <3>1, <3>2
    <3>3. CASE Head(bus).op = "text" /\ text' = text
      BY <1>6, <2>1, <3>1, <3>3
    <3>4. CASE Head(bus).op = "text" /\ \E v \in 0..MaxEdits : text' = [text EXCEPT ![c] = v]
      BY <1>6, <2>1, <3>1, <3>4
    <3> QED
      BY <1>6, <1>7, <3>2, <3>3, <3>4
  <2> QED
    BY <1>1, <1>2, <1>3, <1>5, <2>2 DEF TypeOK
<1>9. OneUpdate'
  BY <1>4 DEF OneUpdate
<1>10. PendingIsLatest'
  BY <1>1 DEF PendingIsLatest
<1>11. LatestIsOnItsWay'
  <2>1. ASSUME NEW x \in Cell
        PROVE  Waits(x) \/ x \in unsent' \/ device[x] = last[x]
    <3>1. CASE x = c /\ Head(bus).op = "set"
      BY <1>6, <3>1
    <3>2. CASE x # c \/ Head(bus).op # "set"
      <4>1. ~\E i \in DOMAIN bus : bus[i].op = "set" /\ bus[i].cell = x
        BY <1>2, <3>2 DEF OfUpdate, c
      <4>2. unsent \subseteq unsent'
        BY <1>6
      <4> QED
        BY <4>1, <4>2 DEF LatestIsOnItsWay
    <3> QED
      BY <3>1, <3>2
  <2> QED
    BY <1>1, <1>4, <2>1 DEF LatestIsOnItsWay, Waits, OfUpdate
<1>12. Ascending'
  BY <1>1, <1>4 DEF Ascending, OfUpdate
<1>13. ReadAsked' /\ AnswersAreCurrent'
  <2>1. ReadAsked' /\ \A x : ~AskSent(x)'
    BY <1>5 DEF ReadAsked, AskSent
  <2>2. ASSUME NEW x, x # c \/ Head(bus).op = "set" PROVE ~AskWaits(x)
    BY <1>2, <2>2 DEF AskWaits, Ask, OfUpdate, c
  <2>3. ASSUME NEW x \in Textual, StaleFor(x)' PROVE x \in doubt \/ x \in mute'
    <3>1. StaleFor(x)
      <4>1. PICK j \in DOMAIN wire' : Stale(wire[j])' /\ wire'[j].cell = x
        BY <2>3 DEF StaleFor
      <4>2. PICK k \in DOMAIN wire : wire'[j] = wire[k]
        BY <1>5 DEF FromWire
      <4> QED
        BY <1>1, <4>1, <4>2 DEF StaleFor, Stale
    <3>2. Excused(x)
      BY <3>1 DEF AnswersAreCurrent
    <3>3. CASE x = c /\ Head(bus).op = "text"
      BY <1>6, <3>1, <3>3
    <3>4. CASE x # c \/ Head(bus).op = "set"
      BY <1>6, <1>7, <2>2, <3>2, <3>4 DEF Excused
    <3> QED
      BY <1>7, <3>3, <3>4
  <2> QED
    BY <1>5, <2>1, <2>3 DEF AnswersAreCurrent, Excused
<1>14. TextFollows'
  <2>1. ASSUME NEW x \in Textual
        PROVE  text'[x] = device[x] \/ x \in mute' \/ x \in doubt
    <3>1. CASE x = c /\ Head(bus).op = "text"
      BY <1>6, <3>1 DEF TypeOK
    <3>2. CASE x # c \/ Head(bus).op # "text"
      <4>1. ~\E i \in DOMAIN bus : bus[i].op = "text" /\ bus[i].cell = x
        BY <1>2, <3>2 DEF OfUpdate, c
      <4>2. text'[x] = text[x] /\ (x \in mute => x \in mute')
        BY <1>6, <1>7, <3>2 DEF TypeOK
      <4> QED
        BY <4>1, <4>2 DEF TextFollows, Asks
    <3> QED
      BY <3>1, <3>2
  <2> QED
    BY <1>1, <1>4, <1>5, <2>1 DEF TextFollows, OfUpdate
<1>15. RefreshesAreEdits'
  BY <1>1 DEF RefreshesAreEdits
<1> QED
  BY <1>8, <1>9, <1>10, <1>11, <1>12, <1>13, <1>14, <1>15

\* A read is sent: its answer, if it comes, is current, and a string query that
\* meets an older string leaves its cell in doubt.
LEMMA SendReadStep ==
    ASSUME EditInv, SendRead
    PROVE  EditInv'
<1> USE DEF EditInv
<1> DEFINE b == Head(bus)
<1>1. /\ bus # <<>> /\ b.op # "set" /\ asked' = TRUE
      /\ UNCHANGED <<edits, last, ui, text, pending, updating, timer, refresh, strays, bus,
                     device, unsent, mute>>
  BY DEF SendRead, queueVars
<1>2. b \in Requests /\ 1 \in DOMAIN bus /\ bus[1] = b
  BY <1>1, TailFacts DEF TypeOK
<1>3. b.op \in {"text", "liveText", "values"} /\ (b.op = "text" => b.cell \in Textual)
  BY <1>1, <1>2, RequestFields DEF TextFollows
<1>4. Answer(b) \in Answers /\ ~Stale(Answer(b))
  <2>1. device \in [Cell -> 0..MaxEdits]
    BY DEF TypeOK
  <2>2. CASE b.op = "values"
    BY <1>2, <2>1, <2>2, RequestFields DEF Answer, Answers, Stale
  <2>3. CASE b.op # "values"
    <3>1. b.cell \in Cell
      BY <1>2, <1>3, <2>3, RequestFields
    <3> QED
      BY <2>1, <2>3, <3>1 DEF Answer, Answers, Stale
  <2> QED
    BY <2>2, <2>3
<1>5. /\ wire' \in Seq(Answers) /\ Len(wire') <= MaxAnswers
      /\ \A j \in DOMAIN wire' : \/ j \in DOMAIN wire /\ wire'[j] = wire[j]
                                 \/ wire'[j] = Answer(b)
  <2>1. wire \in Seq(Answers) /\ Len(wire) \in Nat /\ Len(wire) <= MaxAnswers
    BY LenProperties DEF TypeOK
  <2>2. CASE UNCHANGED wire
    BY <2>1, <2>2
  <2>3. CASE Len(wire) < MaxAnswers /\ wire' = Append(wire, Answer(b))
    <3>1. Len(wire') = Len(wire) + 1
      BY <1>4, <2>1, <2>3, AppendProperties
    <3> QED
      BY <1>4, <2>1, <2>3, <3>1, AppendFacts
  <2> QED
    BY <2>2, <2>3 DEF SendRead
<1>6. doubt' \subseteq Textual /\ (b.op # "text" => doubt' = doubt)
  BY <1>3 DEF SendRead, TypeOK
<1>7. b.op = "text" =>
        /\ \A x \in Textual : x # b.cell => (x \in doubt' <=> x \in doubt)
        /\ StaleFor(b.cell) => b.cell \in doubt'
  <2> SUFFICES ASSUME b.op = "text"
               PROVE  /\ \A x \in Textual : x # b.cell => (x \in doubt' <=> x \in doubt)
                      /\ StaleFor(b.cell) => b.cell \in doubt'
    OBVIOUS
  <2>1. doubt' = IF \E i \in DOMAIN wire : Stale(wire[i]) /\ Matches(wire[i], b)
                 THEN doubt \cup {b.cell} ELSE doubt \ {b.cell}
    BY DEF SendRead
  <2>2. StaleFor(b.cell) => \E i \in DOMAIN wire : Stale(wire[i]) /\ Matches(wire[i], b)
    BY DEF StaleFor, Stale, Matches
  <2> QED
    BY <2>1, <2>2
<1>8. TypeOK'
  BY <1>1, <1>5, <1>6 DEF TypeOK
<1>9. OneUpdate' /\ PendingIsLatest' /\ LatestIsOnItsWay' /\ Ascending'
  BY <1>1 DEF OneUpdate, PendingIsLatest, LatestIsOnItsWay, Ascending, Waits
<1>10. ReadAsked' /\ RefreshesAreEdits'
  BY <1>1 DEF ReadAsked, RefreshesAreEdits
<1>11. ASSUME NEW x \in Textual
       PROVE  /\ (b.op # "text" \/ x # b.cell) => ~AskSent(x)' /\ (AskWaits(x) => AskWaits(x)')
              /\ (b.op = "text" /\ x # b.cell) => ~AskWaits(x)
  <2>1. (b.op # "text" \/ x # b.cell) => b # Ask(x)
    BY DEF Ask
  <2>2. (b.op # "text" \/ x # b.cell) => ~AskSent(x)'
    BY <1>1, <2>1 DEF AskSent, Ask
  <2>3. (b.op # "text" \/ x # b.cell) /\ AskWaits(x) => AskWaits(x)'
    BY <1>1, <1>2, <2>1 DEF AskWaits, Ask
  <2>4. (b.op = "text" /\ x # b.cell) => ~AskWaits(x)
    BY <1>1, <1>2, HeadIsUpdate DEF AskWaits, Ask, OfUpdate
  <2> QED
    BY <2>2, <2>3, <2>4
<1>12. AnswersAreCurrent'
  <2> SUFFICES ASSUME NEW x \in Textual, StaleFor(x)' PROVE Excused(x)'
    BY DEF AnswersAreCurrent
  <2>1. StaleFor(x)
    BY <1>1, <1>4, <1>5 DEF StaleFor, Stale
  <2>2. x \in doubt \/ AskWaits(x) \/ x \in mute
    BY <2>1 DEF AnswersAreCurrent, Excused
  <2> HIDE DEF b
  <2>3. CASE b.op = "text" /\ x = b.cell
    BY <1>7, <2>1, <2>3 DEF Excused
  <2>4. CASE b.op = "text" /\ x # b.cell
    BY <1>1, <1>7, <1>11, <2>2, <2>4 DEF Excused
  <2>5. CASE b.op # "text"
    BY <1>1, <1>6, <1>11, <2>2, <2>5 DEF Excused
  <2> QED
    BY <2>3, <2>4, <2>5
<1>13. TextFollows'
  <2>1. \A x \in Textual : Asks(x)' <=> Asks(x)
    BY <1>1 DEF Asks
  <2>2. b.op = "text" => Asks(b.cell)
    BY <1>2 DEF Asks
  <2> HIDE DEF b
  <2>3. \A x \in Textual : text[x] = device[x] \/ x \in mute \/ x \in doubt' \/ Asks(x)
    BY <1>6, <1>7, <2>2 DEF TextFollows
  <2> QED
    BY <1>1, <2>1, <2>3 DEF TextFollows
<1> QED
  BY <1>8, <1>9, <1>10, <1>12, <1>13

\* An answer is lost.
LEMMA LoseStep ==
    ASSUME EditInv, Lose
    PROVE  EditInv'
<1> USE DEF EditInv
<1>1. UNCHANGED <<edits, last, ui, text, pending, updating, timer, refresh, strays, bus, asked,
                  device, unsent, mute, doubt>>
  BY DEF Lose, queueVars, failures
<1>2. PICK i \in DOMAIN wire : wire' = Ext!RemoveAt(wire, i)
  BY DEF Lose
<1>3. wire' \in Seq(Answers) /\ Len(wire') <= MaxAnswers /\ FromWire
  BY <1>2, WireTaken
<1>4. SameUpdates(0)
  <2>1. bus \in Seq(Requests) /\ \A j \in DOMAIN bus : j + 0 = j /\ j - 0 = j
    BY LenProperties DEF TypeOK
  <2> QED
    BY <1>1, <2>1 DEF SameUpdates
<1>5. ReadAsked' /\ AnswersAreCurrent'
  <2>1. asked => bus # <<>>
    BY DEF ReadAsked
  <2> QED
    BY <1>1, <1>3, <1>4, <2>1, AnswersStay
<1>6. TypeOK'
  BY <1>1, <1>3 DEF TypeOK
<1>7. OneUpdate' /\ PendingIsLatest' /\ LatestIsOnItsWay' /\ Ascending'
  BY <1>1 DEF OneUpdate, PendingIsLatest, LatestIsOnItsWay, Ascending, Waits
<1>8. TextFollows' /\ RefreshesAreEdits'
  BY <1>1 DEF TextFollows, Asks, RefreshesAreEdits
<1> QED
  BY <1>5, <1>6, <1>7, <1>8

\* A read ends: the reply of the string query of a slider, or of a refresh.
LEMMA ReadStep ==
    ASSUME EditInv, LiveTextArrives \/ LiveTextFails \/ ValuesArrive \/ ValuesFail
    PROVE  EditInv'
<1> USE DEF EditInv
<1>1. /\ bus # <<>> /\ ~OfUpdate(Head(bus)) /\ bus' = Tail(bus) /\ asked' = FALSE
      /\ UNCHANGED <<edits, last, pending, updating, timer, device, unsent, mute, doubt>>
  BY DEF LiveTextArrives, LiveTextFails, ValuesArrive, ValuesFail, Answered, NotAnswered,
         OfUpdate, queueVars, failures
<1>2. SameUpdates(1)
  BY <1>1, ReadLeaves
<1>3. Head(bus) \in Requests
  BY <1>1, TailFacts DEF TypeOK
<1>4. wire' \in Seq(Answers) /\ Len(wire') <= MaxAnswers /\ FromWire
  <2>1. CASE \E i \in DOMAIN wire : wire' = Ext!RemoveAt(wire, i)
    BY <2>1, WireTaken
  <2>2. CASE UNCHANGED wire
    BY <2>2 DEF FromWire, TypeOK
  <2> QED
    BY <2>1, <2>2 DEF LiveTextArrives, LiveTextFails, ValuesArrive, ValuesFail, Answered,
      NotAnswered
<1>5. /\ text' \in [Textual -> 0..MaxEdits]
      /\ \A c \in Textual :
            text'[c] = text[c] \/ text'[c] = device[c] \/ c \in mute \/ c \in doubt \/ Asks(c)
  <2>1. CASE LiveTextArrives
    <3>1. PICK i \in DOMAIN wire : /\ Answered("liveText", i)
                                   /\ text' = [text EXCEPT ![wire[i].cell] = wire[i].value]
      BY <2>1 DEF LiveTextArrives
    <3>2. wire[i].of = "text" /\ wire[i].value \in 0..MaxEdits
      BY <1>3, <3>1, AnswerFields DEF Answered
    <3>3. text' \in [Textual -> 0..MaxEdits]
      BY <3>1, <3>2 DEF TypeOK
    <3>4. ASSUME NEW c \in Textual, c = wire[i].cell
          PROVE  text'[c] = device[c] \/ c \in mute \/ c \in doubt \/ Asks(c)
      <4>1. text'[c] = wire[i].value
        BY <3>1, <3>4 DEF TypeOK
      <4>2. CASE Stale(wire[i])
        BY <3>4, <4>2 DEF AnswersAreCurrent, Excused, StaleFor, AskWaits, Ask, Asks
      <4>3. CASE ~Stale(wire[i])
        BY <3>2, <3>4, <4>1, <4>3 DEF Stale
      <4> QED
        BY <4>2, <4>3
    <3>5. ASSUME NEW c \in Textual, c # wire[i].cell PROVE text'[c] = text[c]
      BY <3>1, <3>5 DEF TypeOK
    <3> QED
      BY <3>3, <3>4, <3>5
  <2>2. CASE ~LiveTextArrives
    BY <2>2 DEF LiveTextFails, ValuesArrive, ValuesFail, TypeOK
  <2> QED
    BY <2>1, <2>2
<1>6. /\ ui' \in [Cell -> 0..MaxEdits] /\ refresh' \in Slot \cup {NoSlot}
      /\ strays' \in [Slot -> 0..MaxEdits] /\ RefreshesAreEdits'
  <2>1. CASE ValuesArrive
    <3>1. PICK i \in DOMAIN wire :
            /\ Answered("values", i)
            /\ ui' = [c \in Cell |->
                        IF SlotOf[c] = Head(bus).slot THEN wire[i].values[c] ELSE ui[c]]
      BY <2>1 DEF ValuesArrive
    <3>2. wire[i].values \in [Cell -> 0..MaxEdits] /\ ui \in [Cell -> 0..MaxEdits]
      BY <1>3, <3>1, AnswerFields DEF Answered, TypeOK
    <3>3. ui' \in [Cell -> 0..MaxEdits]
      BY <3>1, <3>2
    <3>4. /\ refresh' = NoSlot
          /\ strays' = IF refresh = NoSlot THEN strays ELSE [strays EXCEPT ![refresh] = @ + 1]
      BY <2>1 DEF ValuesArrive
    <3>5. /\ edits \in 0..MaxEdits /\ edits' = edits /\ strays \in [Slot -> 0..MaxEdits]
          /\ refresh \in Slot \cup {NoSlot}
      BY <1>1 DEF TypeOK
    <3>6. ASSUME NEW s \in Slot
          PROVE  strays'[s] \in 0..MaxEdits /\ strays'[s] <= edits
      BY <3>4, <3>5 DEF RefreshesAreEdits
    <3>7. strays' \in [Slot -> 0..MaxEdits]
      BY <3>4, <3>5, <3>6
    <3>8. RefreshesAreEdits'
      BY <3>4, <3>5, <3>6, <3>7 DEF RefreshesAreEdits
    <3> QED
      BY <3>3, <3>4, <3>7, <3>8
  <2>2. CASE ~ValuesArrive
    <3>1. UNCHANGED <<ui, refresh, strays, edits>>
      BY <2>2 DEF LiveTextArrives, LiveTextFails, ValuesFail
    <3> QED
      BY <3>1 DEF TypeOK, RefreshesAreEdits
  <2> QED
    BY <2>1, <2>2
<1>7. TypeOK'
  BY <1>1, <1>2, <1>4, <1>5, <1>6 DEF TypeOK, SameUpdates
<1>8. ReadAsked' /\ AnswersAreCurrent'
  <2>1. asked' = FALSE /\ bus # <<>> /\ ~OfUpdate(Head(bus)) /\ UNCHANGED <<device, mute, doubt>>
    BY <1>1
  <2>2. 1 \in {0, 1} /\ 1 # 0 /\ FromWire
    BY <1>4
  <2> QED
    BY ONLY EditInv, <1>2, <2>1, <2>2, AnswersStay
<1>9. OneUpdate' /\ PendingIsLatest' /\ LatestIsOnItsWay' /\ Ascending' /\ TextFollows'
  BY <1>1, <1>2, <1>5, ReadsKeepUpdates DEF failures
<1> QED
  BY <1>6, <1>7, <1>8, <1>9

\* A refresh timer fires.
LEMMA RefreshStep ==
    ASSUME EditInv, RefreshTimer \/ \E s \in Slot : StrayTimer(s)
    PROVE  EditInv'
<1> USE DEF EditInv
<1>1. PICK s \in Slot : /\ AskForValues(s)
                        /\ \/ refresh = s /\ refresh' = NoSlot /\ UNCHANGED strays
                           \/ /\ strays[s] > 0 /\ strays' = [strays EXCEPT ![s] = @ - 1]
                              /\ UNCHANGED refresh
  <2>1. CASE RefreshTimer
    BY <2>1 DEF RefreshTimer, TypeOK
  <2>2. CASE \E s \in Slot : StrayTimer(s)
    BY <2>2 DEF StrayTimer
  <2> QED
    BY <2>1, <2>2
<1>2. /\ bus' = Append(bus, AskAll(s))
      /\ UNCHANGED <<edits, last, ui, text, pending, updating, timer, asked, wire, device,
                     unsent, mute, doubt>>
  BY <1>1 DEF AskForValues, queueVars, failures
<1>3. AskAll(s) \in Requests /\ ~OfUpdate(AskAll(s))
  BY DEF AskAll, Requests, OfUpdate
<1>4. SameUpdates(0) /\ bus' # <<>> /\ (bus # <<>> => Head(bus') = Head(bus))
  BY <1>2, <1>3, ReadEnters
<1>5. /\ refresh' \in Slot \cup {NoSlot} /\ strays' \in [Slot -> 0..MaxEdits]
      /\ RefreshesAreEdits'
  <2>1. /\ edits \in 0..MaxEdits /\ strays \in [Slot -> 0..MaxEdits]
        /\ refresh \in Slot \cup {NoSlot}
    BY DEF TypeOK
  <2>2. refresh' \in Slot \cup {NoSlot} /\ strays' \in [Slot -> 0..MaxEdits]
    BY <1>1, <2>1
  <2>3. ASSUME NEW t \in Slot
        PROVE  strays'[t] + (IF refresh' = t THEN 1 ELSE 0) <= edits
    BY <1>1, <2>1 DEF RefreshesAreEdits
  <2> QED
    BY <1>2, <2>2, <2>3 DEF RefreshesAreEdits
<1>6. TypeOK'
  BY <1>2, <1>4, <1>5 DEF TypeOK, SameUpdates
<1>7. ReadAsked' /\ AnswersAreCurrent'
  <2>1. FromWire /\ (asked => bus # <<>>)
    BY <1>2 DEF FromWire, ReadAsked
  <2> QED
    BY <1>2, <1>4, <2>1, AnswersStay
<1>8. OneUpdate' /\ PendingIsLatest' /\ LatestIsOnItsWay' /\ Ascending' /\ TextFollows'
  BY <1>2, <1>4, ReadsKeepUpdates DEF failures
<1> QED
  BY <1>5, <1>6, <1>7, <1>8

LEMMA EditInvInit == Init => EditInv
<1> SUFFICES ASSUME Init PROVE EditInv
  OBVIOUS
<1>1. /\ pending = <<>> /\ bus = <<>> /\ asked = FALSE /\ wire = <<>>
      /\ DOMAIN pending = {} /\ DOMAIN bus = {} /\ DOMAIN wire = {}
  BY DEF Init
<1>2. TypeOK
  <2>1. 0 \in 0..MaxEdits
    OBVIOUS
  <2>2. /\ last \in [Cell -> 0..MaxEdits] /\ ui = last /\ device = last
        /\ text \in [Textual -> 0..MaxEdits] /\ strays \in [Slot -> 0..MaxEdits]
    BY <2>1 DEF Init
  <2>3. /\ <<>> \in Seq(Requests) /\ <<>> \in Seq(Updates) /\ <<>> \in Seq(Answers)
        /\ Len(wire) <= MaxAnswers
    BY <1>1
  <2> QED
    BY <1>1, <2>1, <2>2, <2>3 DEF Init, TypeOK, Updates
<1>3. OneUpdate /\ PendingIsLatest /\ LatestIsOnItsWay /\ Ascending
  BY <1>1 DEF Init, OneUpdate, PendingIsLatest, LatestIsOnItsWay, Ascending
<1>4. ReadAsked /\ AnswersAreCurrent /\ TextFollows /\ RefreshesAreEdits
  BY <1>1 DEF Init, ReadAsked, AnswersAreCurrent, StaleFor, TextFollows, RefreshesAreEdits
<1> QED
  BY <1>2, <1>3, <1>4 DEF EditInv

LEMMA EditInvStep == EditInv /\ [Next]_vars => EditInv'
<1> SUFFICES ASSUME EditInv, [Next]_vars PROVE EditInv'
  OBVIOUS
<1>1. CASE UNCHANGED vars
  <2>1. UNCHANGED <<edits, last, ui, text, pending, updating, timer, refresh, strays, bus,
                    asked, wire, device, unsent, mute, doubt>>
    BY <1>1 DEF vars, queueVars, lineVars, failures
  <2>2. TypeOK' <=> TypeOK
    BY <2>1 DEF TypeOK
  <2>3. OneUpdate /\ PendingIsLatest /\ LatestIsOnItsWay /\ Ascending =>
          OneUpdate' /\ PendingIsLatest' /\ LatestIsOnItsWay' /\ Ascending'
    BY <2>1 DEF OneUpdate, PendingIsLatest, LatestIsOnItsWay, Ascending, Waits
  <2>4. ReadAsked /\ TextFollows /\ RefreshesAreEdits =>
          ReadAsked' /\ TextFollows' /\ RefreshesAreEdits'
    BY <2>1 DEF ReadAsked, TextFollows, Asks, RefreshesAreEdits
  <2>5. AnswersAreCurrent => AnswersAreCurrent'
    BY <2>1 DEF AnswersAreCurrent, Excused, StaleFor, Stale, AskWaits, AskSent, Ask
  <2> QED
    BY <2>2, <2>3, <2>4, <2>5 DEF EditInv
<1>2. CASE \E c \in Cell, moving \in BOOLEAN : Edit(c, moving)
  BY <1>2, EditStep
<1>3. CASE ProcessNext
  BY <1>3, ProcessNextStep
<1>4. CASE RefreshTimer \/ \E s \in Slot : StrayTimer(s)
  BY <1>4, RefreshStep
<1>5. CASE SendRead \/ Lose
  BY <1>5, SendReadStep, LoseStep
<1>6. CASE SetSent
  BY <1>6, SetSentStep
<1>7. CASE SetFails \/ TextArrives \/ TextFails
  BY <1>7, FinishStep
<1>8. CASE LiveTextArrives \/ LiveTextFails \/ ValuesArrive \/ ValuesFail
  BY <1>8, ReadStep
<1> QED
  BY <1>1, <1>2, <1>3, <1>4, <1>5, <1>6, <1>7, <1>8 DEF Next, Served

(***************************************************************************)
(* A flush that has returned has left nothing behind: for every cell whose *)
(* last update did not fail, the device has the last edit.                 *)
(***************************************************************************)
THEOREM FlushedIsAlwaysSent == Spec => []FlushedIsSent
<1>1. EditInv => FlushedIsSent
  <2> SUFFICES ASSUME EditInv, Flushed, NEW c \in Cell \ unsent PROVE device[c] = last[c]
    BY DEF FlushedIsSent
  <2>1. ~Waits(c)
    BY DEF Flushed, Waits
  <2>2. \A i \in DOMAIN bus : bus[i].op # "set"
    <3>1. \A i \in DOMAIN bus : bus[i] \in Requests
      BY LenProperties, ElementOfSeq DEF EditInv, TypeOK
    <3>2. \A i \in DOMAIN bus : OfUpdate(bus[i]) => bus[i].cell \in Cell
      BY <3>1, RequestFields DEF OfUpdate
    <3> QED
      BY <3>2 DEF EditInv, OneUpdate, Flushed, OfUpdate
  <2> QED
    BY <2>1, <2>2 DEF EditInv, LatestIsOnItsWay
<1> QED
  BY <1>1, EditInvInit, EditInvStep, PTL DEF Spec

(***************************************************************************)
(* Nor has it left the string of an older value behind, although the       *)
(* queries of a moving slider race with the updates.                       *)
(***************************************************************************)
THEOREM FlushedTextIsAlwaysCurrent == Spec => []FlushedTextIsCurrent
<1>1. EditInv => FlushedTextIsCurrent
  <2> SUFFICES ASSUME EditInv, Flushed, NEW c \in Textual \ (mute \cup doubt)
               PROVE  text[c] = device[c]
    BY DEF FlushedTextIsCurrent
  <2>1. \A i \in DOMAIN bus : bus[i].op # "text"
    <3>1. \A i \in DOMAIN bus : bus[i].op = "text" => bus[i].cell \in Cell
      BY DEF EditInv, TextFollows
    <3> QED
      BY <3>1 DEF EditInv, OneUpdate, Flushed, OfUpdate
  <2> QED
    BY <2>1 DEF EditInv, TextFollows, Asks
<1> QED
  BY <1>1, EditInvInit, EditInvStep, PTL DEF Spec

\* The device never goes back to an older edit: every step that sets a value
\* sets one that is no older (Ascending).
THEOREM EditsAlwaysLandInOrder == Spec => EditsLandInOrder
<1>1. EditInv /\ [Next]_vars => [\A c \in Cell : device'[c] >= device[c]]_vars
  <2> SUFFICES ASSUME EditInv, Next, NEW c \in Cell PROVE device'[c] >= device[c]
    BY DEF EditInv
  <2>1. device \in [Cell -> 0..MaxEdits]
    BY DEF EditInv, TypeOK
  <2>2. CASE SetSent
    <3>1. OfUpdate(Head(bus)) /\ bus # <<>> /\ Head(bus).op = "set"
      BY <2>2 DEF SetSent, OfUpdate
    <3>2. 1 \in DOMAIN bus /\ bus[1] = Head(bus) /\ Head(bus) \in Requests
      BY <3>1, HeadIsUpdate
    <3>3. device[Head(bus).cell] <= Head(bus).value
      BY <3>1, <3>2 DEF EditInv, Ascending
    <3>4. Head(bus).value \in 0..MaxEdits
      BY <3>1, <3>2, RequestFields
    <3> QED
      BY <2>1, <2>2, <3>3, <3>4 DEF SetSent
  <2>3. CASE ~SetSent
    <3>1. device' = device
      BY <2>3 DEF Next, Served, Edit, ProcessNext, SetFails, SendRead, Lose, TextArrives,
        TextFails, LiveTextArrives, LiveTextFails, RefreshTimer, StrayTimer, AskForValues,
        ValuesArrive, ValuesFail
    <3> QED
      BY <2>1, <3>1
  <2> QED
    BY <2>2, <2>3
<1> QED
  BY <1>1, EditInvInit, EditInvStep, PTL DEF Spec, EditsLandInOrder

-----------------------------------------------------------------------------
(* Polling *)

USE PollAssumption

\* No parameter counts as steady without a synchronized state; with one, a loop
\* that ends takes its key along (TasksArePolled).
PollInv == pollTypeOK /\ (~synced => steady = {}) /\ TasksArePolled

LEMMA PollInvInit == pollInit => PollInv
<1> SUFFICES ASSUME pollInit PROVE PollInv
  OBVIOUS
<1>1. pollTypeOK
  BY DEF pollInit, pollTypeOK
<1>2. TasksArePolled /\ (~synced => steady = {})
  BY DEF pollInit, TasksArePolled
<1> QED
  BY <1>1, <1>2 DEF PollInv

\* A step of a loop moves it on, from awaiting to sleeping and back, or ends it;
\* one that ends takes its key along, or finds it gone.
LEMMA LoopStep ==
    ASSUME PollInv, NEW c \in Polled, NEW g \in Generation, Reply(c, g) \/ Error(c, g) \/ Wake(c, g)
    PROVE  PollInv'
<1> USE DEF PollInv
<1>1. /\ UNCHANGED <<present, synced, holds, turns, starts, steady>>
      /\ tasks' \subseteq tasks /\ tasks \subseteq Polled
  BY DEF Reply, Error, Wake, pollTypeOK
<1>2. /\ asking \in [Polled -> SUBSET (1..starts)] /\ asleep \in [Polled -> SUBSET (1..starts)]
      /\ asking[c] \cap asleep[c] = {}
  BY DEF pollTypeOK
<1>3. \E a, b \in SUBSET Loops(c) :
        /\ asking' = [asking EXCEPT ![c] = a] /\ asleep' = [asleep EXCEPT ![c] = b]
        /\ a \cap b = {} /\ (c \in tasks' /\ synced => a \cup b = Loops(c))
  <2> DEFINE A == asking[c]
             S == asleep[c]
  <2>1. CASE Reply(c, g) /\ synced /\ c \in present
    <3>1. g \in A /\ asking' = [asking EXCEPT ![c] = A \ {g}]
          /\ asleep' = [asleep EXCEPT ![c] = S \cup {g}]
      BY <2>1 DEF Reply
    <3>2. /\ A \ {g} \in SUBSET Loops(c) /\ S \cup {g} \in SUBSET Loops(c)
          /\ (A \ {g}) \cap (S \cup {g}) = {} /\ (A \ {g}) \cup (S \cup {g}) = Loops(c)
      BY <1>2, <3>1 DEF Loops
    <3> QED
      BY <3>1, <3>2
  <2>2. CASE Reply(c, g) /\ ~(synced /\ c \in present)
    <3>1. /\ asking' = [asking EXCEPT ![c] = A \ {g}] /\ asleep' = [asleep EXCEPT ![c] = S]
          /\ ~(c \in tasks' /\ synced)
      BY <1>2, <2>2 DEF Reply
    <3>2. A \ {g} \in SUBSET Loops(c) /\ S \in SUBSET Loops(c) /\ (A \ {g}) \cap S = {}
      BY <1>2 DEF Loops
    <3> QED
      BY <3>1, <3>2
  <2>3. CASE Error(c, g)
    <3>1. g \in A /\ asking' = [asking EXCEPT ![c] = A \ {g}]
          /\ asleep' = [asleep EXCEPT ![c] = S \cup {g}]
      BY <2>3 DEF Error
    <3>2. /\ A \ {g} \in SUBSET Loops(c) /\ S \cup {g} \in SUBSET Loops(c)
          /\ (A \ {g}) \cap (S \cup {g}) = {} /\ (A \ {g}) \cup (S \cup {g}) = Loops(c)
      BY <1>2, <3>1 DEF Loops
    <3> QED
      BY <3>1, <3>2
  <2>4. CASE Wake(c, g) /\ GoesOn(c)
    <3>1. g \in S /\ asking' = [asking EXCEPT ![c] = A \cup {g}]
          /\ asleep' = [asleep EXCEPT ![c] = S \ {g}]
      BY <2>4 DEF Wake
    <3>2. /\ A \cup {g} \in SUBSET Loops(c) /\ S \ {g} \in SUBSET Loops(c)
          /\ (A \cup {g}) \cap (S \ {g}) = {} /\ (A \cup {g}) \cup (S \ {g}) = Loops(c)
      BY <1>2, <3>1 DEF Loops
    <3> QED
      BY <3>1, <3>2
  <2>5. CASE Wake(c, g) /\ ~GoesOn(c)
    <3>1. /\ asking' = [asking EXCEPT ![c] = A \cup {}] /\ asleep' = [asleep EXCEPT ![c] = S \ {g}]
          /\ ~(c \in tasks' /\ synced)
      BY <2>5 DEF Wake, GoesOn
    <3>2. /\ A \cup {} \in SUBSET Loops(c) /\ S \ {g} \in SUBSET Loops(c)
          /\ (A \cup {}) \cap (S \ {g}) = {}
      BY <1>2 DEF Loops
    <3> QED
      BY <3>1, <3>2
  <2> QED
    BY <2>1, <2>2, <2>3, <2>4, <2>5
<1>4. PICK a \in SUBSET Loops(c), b \in SUBSET Loops(c) :
        /\ asking' = [asking EXCEPT ![c] = a] /\ asleep' = [asleep EXCEPT ![c] = b]
        /\ a \cap b = {} /\ (c \in tasks' /\ synced => a \cup b = Loops(c))
  BY <1>3
<1>5. a \in SUBSET (1..starts) /\ b \in SUBSET (1..starts)
  BY <1>2 DEF Loops
<1>6. /\ asking' \in [Polled -> SUBSET (1..starts)] /\ asleep' \in [Polled -> SUBSET (1..starts)]
      /\ asking'[c] = a /\ asleep'[c] = b
      /\ \A x \in Polled : x # c => asking'[x] = asking[x] /\ asleep'[x] = asleep[x]
  BY <1>2, <1>4, <1>5
<1>7. shows' \in [Polled -> 0..turns] /\ answers' \in [Polled -> SUBSET (0..turns)]
  <2>1. shows \in [Polled -> 0..turns] /\ answers \in [Polled -> SUBSET (0..turns)]
    BY DEF pollTypeOK
  <2>2. CASE Reply(c, g)
    <3>1. PICK v \in answers[c] :
            /\ answers' = [answers EXCEPT ![c] = @ \ {v}]
            /\ shows' = shows \/ shows' = [shows EXCEPT ![c] = v]
      BY <2>2 DEF Reply
    <3>2. v \in 0..turns /\ answers[c] \ {v} \in SUBSET (0..turns)
      BY <2>1
    <3> QED
      BY <2>1, <3>1, <3>2
  <2>3. CASE Error(c, g) \/ Wake(c, g)
    BY <2>1, <2>3 DEF Error, Wake
  <2> QED
    BY <2>2, <2>3
<1>8. pollTypeOK'
  <2>1. \A x \in Polled : asking'[x] \cap asleep'[x] = {}
    BY <1>4, <1>6 DEF pollTypeOK
  <2> QED
    BY <1>1, <1>6, <1>7, <2>1 DEF pollTypeOK
<1>9. TasksArePolled'
  <2> SUFFICES ASSUME NEW x \in tasks' \cap steady PROVE Loops(x)' # {}
    BY <1>1 DEF TasksArePolled
  <2>1. x \in Polled /\ Loops(x) # {} /\ synced
    BY <1>1 DEF TasksArePolled
  <2>2. CASE x = c
    BY <1>4, <1>6, <2>1, <2>2 DEF Loops
  <2>3. CASE x # c
    BY <1>6, <2>1, <2>3 DEF Loops
  <2> QED
    BY <2>2, <2>3
<1> QED
  BY <1>1, <1>8, <1>9

LEMMA PollInvStep == PollInv /\ [pollNext]_pollVars => PollInv'
<1> SUFFICES ASSUME PollInv, [pollNext]_pollVars PROVE PollInv'
  OBVIOUS
<1> USE DEF PollInv
<1>1. CASE UNCHANGED pollVars
  BY <1>1 DEF pollVars, loopVars, pollTypeOK, TasksArePolled, Loops
<1>2. CASE Start
  <2>1. /\ tasks' \subseteq Polled /\ steady' = tasks' /\ starts' = starts + 1
        /\ starts \in 0..MaxStarts /\ starts' \in 0..MaxStarts
        /\ asking' = [c \in Polled |-> asking[c] \cup (IF c \in tasks' THEN {starts'} ELSE {})]
        /\ asking \in [Polled -> SUBSET (1..starts)] /\ asleep \in [Polled -> SUBSET (1..starts)]
        /\ UNCHANGED <<asleep, answers, present, synced, shows, holds, turns>>
    BY <1>2 DEF Start, pollTypeOK
  <2>2. 1..starts \subseteq 1..starts' /\ starts' \in 1..starts' /\ starts' \notin 1..starts
    BY <2>1
  <2>3. ASSUME NEW c \in Polled
        PROVE  /\ asking'[c] \in SUBSET (1..starts') /\ asleep'[c] \in SUBSET (1..starts')
               /\ asking'[c] \cap asleep'[c] = {} /\ (c \in tasks' => Loops(c)' # {})
    <3>1. /\ asking[c] \subseteq 1..starts /\ asleep[c] \subseteq 1..starts
          /\ asking[c] \cap asleep[c] = {}
      BY <2>1 DEF pollTypeOK
    <3>2. /\ asking'[c] = asking[c] \cup (IF c \in tasks' THEN {starts'} ELSE {})
          /\ asleep'[c] = asleep[c]
      BY <2>1
    <3> QED
      BY <2>2, <3>1, <3>2 DEF Loops
  <2>4. asking' \in [Polled -> SUBSET (1..starts')] /\ asleep' \in [Polled -> SUBSET (1..starts')]
    BY <2>1, <2>3
  <2>5. pollTypeOK'
    BY <2>1, <2>3, <2>4 DEF pollTypeOK
  <2>6. TasksArePolled'
    BY <2>1, <2>3 DEF TasksArePolled
  <2>7. ~synced' => steady' = {}
    BY <1>2 DEF Start
  <2> QED
    BY <2>5, <2>6, <2>7
<1>3. CASE Stop \/ LoseSync \/ Sync \/ \E c \in Polled : DeviceReads(c) \/ Remove(c) \/ Turn(c)
  <2>1. UNCHANGED <<asking, asleep, starts>>
    BY <1>3 DEF Stop, LoseSync, Sync, DeviceReads, Remove, Turn, loopVars
  <2>2. \A c \in Polled : Loops(c)' = Loops(c)
    BY <2>1 DEF Loops
  <2>3. /\ tasks' \subseteq Polled /\ present' \subseteq Polled /\ steady' \subseteq steady
        /\ synced' \in BOOLEAN /\ tasks' \subseteq tasks /\ (~synced' => steady' = {})
    BY <1>3 DEF Stop, LoseSync, Sync, DeviceReads, Remove, Turn, loopVars, pollTypeOK
  <2>4. /\ turns' \in 0..MaxTurns /\ answers' \in [Polled -> SUBSET (0..turns')]
        /\ shows' \in [Polled -> 0..turns'] /\ holds' \in [Polled -> 0..turns']
    <3>1. /\ turns \in 0..MaxTurns /\ answers \in [Polled -> SUBSET (0..turns)]
          /\ shows \in [Polled -> 0..turns] /\ holds \in [Polled -> 0..turns]
      BY DEF pollTypeOK
    <3>2. CASE \E c \in Polled : Turn(c)
      <4>1. /\ turns < MaxTurns /\ turns' = turns + 1 /\ shows' = shows /\ answers' = answers
            /\ \E c \in Polled : holds' = [holds EXCEPT ![c] = turns']
        BY <3>2 DEF Turn
      <4>2. 0..turns \subseteq 0..turns' /\ turns' \in 0..turns' /\ turns' \in 0..MaxTurns
        BY <3>1, <4>1
      <4>3. answers' \in [Polled -> SUBSET (0..turns')]
        BY <3>1, <4>1, <4>2
      <4> QED
        BY <3>1, <4>1, <4>2, <4>3
    <3>3. CASE \E c \in Polled : DeviceReads(c)
      <4>1. PICK c \in Polled : answers' = [answers EXCEPT ![c] = @ \cup {holds[c]}]
        BY <3>3 DEF DeviceReads
      <4>2. answers[c] \cup {holds[c]} \in SUBSET (0..turns)
        BY <3>1
      <4>3. answers' \in [Polled -> SUBSET (0..turns)]
        BY <3>1, <4>1, <4>2
      <4>4. UNCHANGED <<turns, shows, holds>>
        BY <3>3 DEF DeviceReads
      <4> QED
        BY <3>1, <4>3, <4>4
    <3>4. CASE Stop \/ LoseSync \/ Sync \/ \E c \in Polled : Remove(c)
      <4>1. turns' = turns /\ holds' = holds /\ shows' \in {shows, holds} /\ answers' = answers
        BY <3>4 DEF Stop, LoseSync, Sync, Remove
      <4> QED
        BY <3>1, <4>1
    <3> QED
      BY <1>3, <3>2, <3>3, <3>4
  <2>5. pollTypeOK'
    BY <2>1, <2>3, <2>4 DEF pollTypeOK
  <2>6. TasksArePolled'
    BY <2>2, <2>3 DEF TasksArePolled
  <2> QED
    BY <2>3, <2>5, <2>6
<1>4. CASE \E c \in Polled, g \in Generation : Reply(c, g) \/ Error(c, g) \/ Wake(c, g)
  BY <1>4, LoopStep
<1> QED
  BY <1>1, <1>2, <1>3, <1>4 DEF pollNext

(***************************************************************************)
(* A key of the task map has a loop behind it, whatever replies were lost  *)
(* and however often polling was stopped and started.                      *)
(***************************************************************************)
THEOREM TasksAreAlwaysPolled == pollSpec => []TasksArePolled
<1>1. PollInv => TasksArePolled
  BY DEF PollInv
<1> QED
  BY <1>1, PollInvInit, PollInvStep, PTL DEF pollSpec

\* The state of both keeps its types, whichever of the two moves: numbers stay
\* in their bounds, a cell waits once, and no loop awaits and sleeps at a time.
THEOREM BothTypesAreKept == BothSpec => []BothTypeOK
<1> DEFINE BothNext == Edits(Next) \/ Polls(pollNext)
           BothInv == EditInv /\ PollInv
<1>1. BothInit => BothInv
  BY EditInvInit, PollInvInit DEF BothInit
<1>2. BothInv /\ [BothNext]_bothVars => BothInv'
  <2> SUFFICES ASSUME BothInv, [BothNext]_bothVars PROVE BothInv'
    OBVIOUS
  <2>1. [Next]_vars /\ [pollNext]_pollVars
    BY DEF Edits, Polls, bothVars
  <2> QED
    BY <2>1, EditInvStep, PollInvStep
<1>3. BothInv => BothTypeOK
  BY DEF BothTypeOK, EditInv, PollInv
<1> QED
  BY <1>1, <1>2, <1>3, PTL DEF BothSpec
=============================================================================
