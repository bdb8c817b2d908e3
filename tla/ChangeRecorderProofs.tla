------------------------- MODULE ChangeRecorderProofs -------------------------
(***************************************************************************)
(* The file of a ChangeRecorder follows the pending changes, the count the *)
(* recorder keeps is right, a replay task always has exactly one thing     *)
(* that moves it on, and the agent is given the head of the queue: for any *)
(* number of items, collections, notifications, and restarts at any point. *)
(*                                                                         *)
(* From this follows that a recorder implements the durable queue of       *)
(* ChangeQueue: every step of it is one step of the queue, or none.  What  *)
(* takes work is a list of notifications: its messages are compressed into *)
(* the pending changes one by one, and recorded all at once when the list  *)
(* ends.                                                                   *)
(***************************************************************************)
EXTENDS ChangeRecorder, SublistProofs, SequenceTheorems

----------------------------------------------------------------------------
(* Lists                                                                   *)

\* Moving the start of a list on by one takes its first entry away.
LEMMA NextStart ==
    ASSUME NEW S, NEW s \in Seq(S), NEW n \in Nat, n < Len(s)
    PROVE  /\ SubSeq(s, n + 1, Len(s)) # <<>>
           /\ SubSeq(s, n + 2, Len(s)) = Tail(SubSeq(s, n + 1, Len(s)))
<1> DEFINE t == SubSeq(s, n + 1, Len(s))
<1>1. t \in Seq(S) /\ Len(t) = Len(s) - n /\ \A i \in 1 .. Len(t) : t[i] = s[n + i]
  BY SMTT(30)
<1>2. t # <<>>
  <2> HIDE DEF t
  <2>1. Len(t) # 0
    BY <1>1
  <2> QED BY <2>1
<1>3. Tail(t) \in Seq(S) /\ Len(Tail(t)) = Len(s) - n - 1
      /\ \A i \in 1 .. Len(Tail(t)) : Tail(t)[i] = s[n + 1 + i]
  BY <1>1, <1>2, SMTT(30)
<1>4. /\ SubSeq(s, n + 2, Len(s)) \in Seq(S) /\ Len(SubSeq(s, n + 2, Len(s))) = Len(s) - n - 1
      /\ \A i \in 1 .. Len(s) - n - 1 : SubSeq(s, n + 2, Len(s))[i] = s[n + 1 + i]
  BY SMTT(30)
<1>5. SubSeq(s, n + 2, Len(s)) = Tail(t)
  BY <1>3, <1>4, SeqEqual
<1> QED BY <1>2, <1>5

----------------------------------------------------------------------------
(* Compression                                                             *)

\* A translated message is a message.
LEMMA TranslatedType ==
    ASSUME collections \subseteq Collection, NEW m \in Message, ~IsIgnored(m)
    PROVE  Translated(m) \in Message
<1>1. CASE m.from \in collections
  BY <1>1 DEF Translated, Message, Operation
<1>2. CASE m.from \notin collections /\ m.op = "Move"
  <2>1. m.to \in Collection
    BY <1>2 DEF IsIgnored, IgnoredBy
  <2> QED BY <1>2, <2>1 DEF Translated, Message, Operation
<1>3. CASE m.op # "Move"
  BY <1>3 DEF Translated
<1> QED BY <1>1, <1>2, <1>3

\* Compression leaves a list of messages: longer by at most one if it was
\* appended to, as long as before if it was not, and a single message if it
\* was empty.
LEMMA CompressedType ==
    ASSUME NEW q \in Seq(Message), NEW m \in Message, NEW r \in Compressed(q, m)
    PROVE  /\ r.queue \in Seq(Message) /\ r.appended \in BOOLEAN
           /\ r.appended => Len(r.queue) <= Len(q) + 1 /\ r.queue # <<>>
           /\ ~r.appended => Len(r.queue) = Len(q)
           /\ q = <<>> => r.appended
<1> DEFINE Same(k) == [q[k] EXCEPT !.parts = m.parts] = m
           moot    == {k \in DOMAIN q :
                          /\ m.op = "Remove" /\ q[k].op = "Modify"
                          /\ q[k].uid = m.uid /\ q[k].from = m.from}
           merged  == [k \in DOMAIN q |-> IF Same(k) /\ \A j \in 1 .. k - 1 : ~Same(j)
                                          THEN [q[k] EXCEPT !.parts = @ \cup m.parts]
                                          ELSE q[k]]
<1>0. Compressed(q, m) = IF \E k \in DOMAIN q : Same(k)
                        THEN {[queue |-> merged, appended |-> FALSE]}
                        ELSE {[queue |-> Append(kept, m), appended |-> TRUE] :
                                  kept \in Sublist(q, DOMAIN q \ moot)}
  BY Zenon DEF Compressed
<1>1. CASE \E k \in DOMAIN q : Same(k)
  <2> HIDE DEF merged, Same
  <2>1. r = [queue |-> merged, appended |-> FALSE]
    BY <1>0, <1>1
  <2> USE DEF merged, Same
  <2>2. ASSUME NEW n \in Message
        PROVE  [n EXCEPT !.parts = @ \cup m.parts] \in Message
    BY DEF Message
  <2>3. DOMAIN q = 1 .. Len(q) /\ \A k \in 1 .. Len(q) : q[k] \in Message
    OBVIOUS
  <2> HIDE DEF Same
  <2>4. merged \in [1 .. Len(q) -> Message]
    BY <2>2, <2>3
  <2>5. merged \in Seq(Message) /\ Len(merged) = Len(q)
    <3> HIDE DEF merged
    <3> QED BY <2>4
  <2>6. q # <<>>
    BY <1>1
  <2> QED BY <2>1, <2>5, <2>6
<1>2. CASE ~\E k \in DOMAIN q : Same(k)
  <2> HIDE DEF merged, Same
  <2>1. PICK kept \in Sublist(q, DOMAIN q \ moot) : r = [queue |-> Append(kept, m), appended |-> TRUE]
    BY <1>0, <1>2, Zenon
  <2>2. kept \in Seq(Message) /\ Len(kept) <= Len(q)
    BY <2>1, SublistType
  <2> QED BY <2>1, <2>2
<1> QED BY <1>1, <1>2

\* The same of translateAndCompress(), which may also leave the list alone.
LEMMA TranslateAndCompressType ==
    ASSUME collections \subseteq Collection, NEW q \in Seq(Message), NEW m \in Message,
           NEW r \in TranslateAndCompress(q, m)
    PROVE  /\ r.queue \in Seq(Message) /\ r.appended \in BOOLEAN
           /\ r.appended => Len(r.queue) <= Len(q) + 1 /\ r.queue # <<>>
           /\ ~r.appended => Len(r.queue) = Len(q)
<1>1. CASE IsIgnored(m)
  <2>1. r = [queue |-> q, appended |-> FALSE]
    BY <1>1 DEF TranslateAndCompress
  <2> QED BY <2>1
<1>2. CASE ~IsIgnored(m)
  <2>1. r \in Compressed(q, Translated(m)) /\ Translated(m) \in Message
    BY <1>2, TranslatedType DEF TranslateAndCompress
  <2> QED BY <2>1, CompressedType
<1> QED BY <1>1, <1>2
----------------------------------------------------------------------------
(* The inductive invariant                                                 *)

\* Outside slotNotify() the recorder knows the number of pending changes, and
\* a file that is not being written holds them, with the offset the recorder
\* remembers unless it is going to rewrite the file anyway.
Written ==
    /\ lastKnown = Len(pending)
    /\ configured /\ ~saving =>
           /\ Contents(file) = pending
           /\ ~needFullSave => file.start = startOffset

FileBounded == file.start <= Len(file.msgs)

\* Only a file that is configured is written, never inside slotNotify(), and
\* the slot of quit() ends with the write.
SlotOK ==
    /\ saving => configured /\ call # "notify"
    /\ call = "quit" => saving

\* Inside slotNotify() the counters say what has happened to the changes.
TallyKept ==
    call = "notify" =>
        /\ tally.erased = 0 => Len(pending) = lastKnown + tally.appended
        /\ tally.appended = 0 => tally.erased = 0
        /\ tally.appended = 0 /\ tally.modified = 0 => Written
        /\ tally.old > 0 => scheduled \/ replaying

IInv ==
    /\ RecordsTypeOK
    /\ collections \subseteq Collection
    /\ SlotOK
    /\ FileBounded
    /\ call # "notify" => Written
    /\ TallyKept
    /\ OneInHand
    /\ PendingIsScheduled

\* The parts of RecordsTypeOK a change of the records touches.
RecordsOK ==
    /\ pending \in Seq(Message)
    /\ file \in [msgs : Seq(Message), start : Nat, version : {0, 1}]
    /\ startOffset \in Nat /\ lastKnown \in Int
    /\ needFullSave \in BOOLEAN /\ saving \in BOOLEAN
    /\ FileBounded
    /\ Written
    /\ saving => configured

\* Every step keeps the types of the queues, the file, the counters and the change in hand.
LEMMA RecordsKept ==
    ASSUME IInv, call # "notify"
    PROVE  RecordsOK
BY DEF IInv, RecordsTypeOK, RecordsOK, SlotOK

----------------------------------------------------------------------------
(* What the parts of the slots do to the records                           *)

\* Dequeuing moves the file and the memory alike.
LEMMA DequeueKeeps ==
    ASSUME RecordsOK, configured \in BOOLEAN, ~saving, pending # <<>>,
           configured' = configured, Dequeue
    PROVE  RecordsOK' /\ Len(pending') = Len(pending) - 1
<1> USE DEF RecordsOK, FileBounded, Written, fileVars, Save
<1>1. Tail(pending) \in Seq(Message) /\ Len(Tail(pending)) = Len(pending) - 1
  OBVIOUS
<1>2. pending' = Tail(pending) /\ lastKnown' = lastKnown - 1
  BY DEF Dequeue
<1>3. CASE needFullSave \/ Tail(pending) = <<>>
  BY <1>1, <1>2, <1>3 DEF Dequeue
<1>4. CASE ~needFullSave /\ Tail(pending) # <<>>
  <2>1. /\ startOffset' = startOffset + 1
        /\ file' = IF configured THEN [file EXCEPT !.start = startOffset + 1] ELSE file
        /\ needFullSave' = needFullSave /\ saving' = saving
    BY <1>4 DEF Dequeue
  <2>2. CASE ~configured
    BY <1>1, <1>2, <2>1, <2>2
  <2>3. CASE configured
    <3>1. file.start = startOffset /\ Contents(file) = pending
      BY <1>4, <2>3
    <3>2. /\ file'.msgs = file.msgs /\ file'.start = startOffset + 1
          /\ file' \in [msgs : Seq(Message), start : Nat, version : {0, 1}]
      BY <2>1, <2>3
    <3>3. file.start < Len(file.msgs)
      BY <3>1 DEF Contents
    <3>4. Contents(file') = Tail(pending)
      <4>1. SubSeq(file.msgs, file.start + 2, Len(file.msgs)) = Tail(Contents(file))
        BY <3>3, NextStart DEF Contents
      <4>2. file'.start + 1 = file.start + 2 /\ Len(file'.msgs) = Len(file.msgs)
        BY <3>1, <3>2
      <4> QED BY <3>1, <3>2, <4>1, <4>2 DEF Contents
    <3>5. Contents(file)' = pending'
      BY <1>2, <3>4 DEF Contents
    <3> HIDE DEF Contents
    <3>6. pending' \in Seq(Message) /\ lastKnown' = Len(pending')
      BY <1>1, <1>2
    <3>7. FileBounded'
      BY <3>2, <3>3, <3>1
    <3>8. Written'
      BY <2>1, <3>2, <3>5, <3>6
    <3> HIDE DEF Written, FileBounded
    <3>9. startOffset' \in Nat /\ lastKnown' \in Int /\ needFullSave' \in BOOLEAN
          /\ saving' \in BOOLEAN /\ ~saving'
      BY <1>1, <1>2, <2>1
    <3> QED BY <1>1, <1>2, <3>2, <3>6, <3>7, <3>8, <3>9
  <2> QED BY <2>2, <2>3
<1> QED BY <1>3, <1>4

\* Erasing old notifications leaves the records right, or has them written.
LEMMA CleanOldKeeps ==
    ASSUME RecordsOK, configured \in BOOLEAN, ~saving, configured' = configured,
           NEW pl \in Seq(Message), NEW w, CleanOld(pl, w)
    PROVE  /\ RecordsOK'
           /\ Len(pending') <= Len(pending)
           /\ pipeline' \in Seq(Message) /\ Len(pipeline') <= Len(pl)
<1> USE DEF RecordsOK, FileBounded, Written, fileVars, Save
<1>1. PICK rest \in Sublist(pending, {k \in DOMAIN pending : AcceptedBy(heard, w, pending[k])}),
           left \in Sublist(pl, {k \in DOMAIN pl : AcceptedBy(heard, w, pl[k])}) :
        /\ pending' = rest
        /\ pipeline' = left
        /\ IF rest = pending /\ left = pl
           THEN UNCHANGED <<lastKnown, fileVars, saving>>
           ELSE Erased
  BY DEF CleanOld
<1>2. rest \in Seq(Message) /\ Len(rest) <= Len(pending)
  BY SublistType
<1>3. left \in Seq(Message) /\ Len(left) <= Len(pl)
  BY SublistType
<1>4. CASE rest = pending /\ left = pl
  BY <1>1, <1>2, <1>3, <1>4
<1>5. CASE ~(rest = pending /\ left = pl)
  <2>1. pending' = rest /\ pipeline' = left /\ lastKnown' = Len(rest) /\ needFullSave' = TRUE
        /\ saving' = configured /\ file' = file /\ startOffset' = startOffset
    BY <1>1, <1>5 DEF Erased
  <2> QED BY <1>2, <1>3, <2>1
<1> QED BY <1>4, <1>5

\* An emission gives the change to the agent, or cleans up and queues a call.
LEMMA EmitKeeps ==
    ASSUME RecordsOK, configured \in BOOLEAN, ~saving, configured' = configured,
           NEW pl \in Seq(Message), NEW m \in Message, Emit(m, pl)
    PROVE  /\ RecordsOK'
           /\ Len(pending') <= Len(pending)
           /\ pipeline' \in Seq(Message)
           /\ \/ given' = m /\ posted' = posted /\ pipeline' = pl
              \/ given' = given /\ posted' = posted + 1 /\ Len(pipeline') <= Len(pl)
<1>1. CASE m.op \in heard
  BY <1>1 DEF Emit, RecordsOK, FileBounded, Written, fileVars
<1>2. CASE m.op \notin heard
  BY <1>2, CleanOldKeeps DEF Emit
<1> QED BY <1>1, <1>2
----------------------------------------------------------------------------
(* The invariant is kept                                                   *)

\* The types of the other variables.
OtherTypes ==
    /\ pipeline \in Seq(Message)
    /\ configured \in BOOLEAN
    /\ call \in {"none", "notify", "replay", "flush", "quit"}
    /\ tally \in [old : Nat, appended : Nat, modified : Nat, erased : Nat]
    /\ posted \in Nat
    /\ scheduled \in BOOLEAN /\ replaying \in BOOLEAN
    /\ given \in Message \cup {NoChange}
    /\ collections \subseteq Collection

\* The inductive invariant holds the types the head's proof needs.
LEMMA OtherTypesKept == IInv => OtherTypes
BY DEF IInv, RecordsTypeOK, OtherTypes

\* Outside slotNotify() the invariant is these parts.
LEMMA Assemble ==
    ASSUME RecordsOK', OtherTypes', call' # "notify", call' = "quit" => saving',
           OneInHand', PendingIsScheduled'
    PROVE  IInv'
BY DEF IInv, RecordsOK, OtherTypes, RecordsTypeOK, SlotOK, TallyKept

\* The initial states satisfy the invariant.
LEMMA InitInv == Init => IInv
<1> SUFFICES ASSUME Init PROVE IInv
  OBVIOUS
<1>1. <<>> \in Seq(Message) /\ Len(<<>>) = 0
  OBVIOUS
<1>2. Contents(file) = <<>>
  BY DEF Init, Contents
<1>3. RecordsTypeOK
  <2>1. file \in [msgs : Seq(Message), start : Nat, version : {0, 1}]
    BY <1>1 DEF Init
  <2>2. tally \in [old : Nat, appended : Nat, modified : Nat, erased : Nat]
    BY DEF Init, NoTally
  <2>3. pending \in Seq(Message) /\ pipeline \in Seq(Message)
    BY <1>1 DEF Init
  <2>4. startOffset \in Nat /\ lastKnown \in Int /\ posted \in Nat
    BY DEF Init
  <2>5. /\ needFullSave \in BOOLEAN /\ configured \in BOOLEAN /\ saving \in BOOLEAN
        /\ scheduled \in BOOLEAN /\ replaying \in BOOLEAN
        /\ call \in {"none", "notify", "replay", "flush", "quit"}
        /\ given \in Message \cup {NoChange}
    BY DEF Init
  <2> QED BY <2>1, <2>2, <2>3, <2>4, <2>5 DEF RecordsTypeOK
<1>4. SlotOK /\ FileBounded /\ Written /\ TallyKept /\ OneInHand /\ PendingIsScheduled
  BY <1>1, <1>2 DEF Init, SlotOK, FileBounded, Written, TallyKept, OneInHand, Tokens,
                    PendingIsScheduled
<1> QED BY <1>3, <1>4 DEF Init, IInv

\* The end of a write leaves the file with the pending changes.
LEMMA FinishSaveInv ==
    ASSUME IInv, FinishSave
    PROVE  IInv'
<1>1. RecordsOK /\ OtherTypes /\ configured /\ call # "notify"
  BY RecordsKept, OtherTypesKept DEF IInv, FinishSave, SlotOK
<1>2. RecordsOK'
  <2>1. /\ file' = [msgs |-> pending, start |-> 0, version |-> 1] /\ startOffset' = 0
        /\ needFullSave' = FALSE /\ saving' = FALSE
        /\ pending' = pending /\ lastKnown' = lastKnown
    BY DEF FinishSave
  <2>2. SubSeq(pending, 1, Len(pending)) = pending
    BY <1>1, SubSeqFull DEF RecordsOK
  <2>3. Contents(file)' = pending'
    BY <2>1, <2>2 DEF Contents
  <2>4. FileBounded' /\ Written'
    BY <1>1, <2>1, <2>3 DEF RecordsOK, FileBounded, Written
  <2> QED BY <1>1, <2>1, <2>4 DEF RecordsOK
<1>3. call' # "notify" /\ call' # "quit" /\ configured' \in BOOLEAN
      /\ call' \in {"none", "notify", "replay", "flush", "quit"}
  BY <1>1 DEF FinishSave, OtherTypes
<1>4. OtherTypes'
  BY <1>1, <1>3 DEF FinishSave, OtherTypes, clientVars, filterVars
<1>5. OneInHand' /\ PendingIsScheduled'
  BY <1>1 DEF IInv, FinishSave, OneInHand, PendingIsScheduled, Tokens, clientVars
<1> QED BY <1>2, <1>3, <1>4, <1>5, Assemble

\* A message of a list is compressed into the pending changes, and counted.
LEMMA NotifyOneInv ==
    ASSUME IInv, NEW m \in Message, NotifyOne(m)
    PROVE  IInv'
<1> DEFINE t == IF call = "none" THEN [NoTally EXCEPT !.old = Len(pending)] ELSE tally
<1>1. /\ ~saving /\ call \in {"none", "notify"} /\ call' = "notify"
      /\ UNCHANGED <<pipeline, file, startOffset, needFullSave, lastKnown, configured, saving,
                     posted, collections, scheduled, replaying, given>>
  BY DEF NotifyOne, fileVars, filterVars, clientVars
<1>2. /\ t \in [old : Nat, appended : Nat, modified : Nat, erased : Nat]
      /\ t.erased = 0 => Len(pending) = lastKnown + t.appended
      /\ t.appended = 0 => t.erased = 0
      /\ t.appended = 0 /\ t.modified = 0 => Written
      /\ t.old > 0 => scheduled \/ replaying
  <2>1. CASE call = "none"
    <3>1. t = [old |-> Len(pending), appended |-> 0, modified |-> 0, erased |-> 0]
      BY <2>1 DEF NoTally
    <3>2. Written /\ lastKnown = Len(pending) /\ Len(pending) \in Nat /\ pending \in Seq(Message)
      BY <2>1 DEF IInv, Written, RecordsTypeOK
    <3>3. Len(pending) > 0 => scheduled \/ replaying
      BY <2>1, <3>2 DEF IInv, PendingIsScheduled
    <3> QED BY <3>1, <3>2, <3>3
  <2>2. CASE call = "notify"
    BY <2>2 DEF IInv, TallyKept, RecordsTypeOK
  <2> QED BY <1>1, <2>1, <2>2
<1>3. /\ pending' \in Seq(Message)
      /\ tally' \in [old : Nat, appended : Nat, modified : Nat, erased : Nat]
      /\ tally'.erased = 0 => Len(pending') = lastKnown + tally'.appended
      /\ tally'.appended = 0 => tally'.erased = 0
      /\ tally'.appended = 0 /\ tally'.modified = 0 => Written /\ pending' = pending
      /\ tally'.old = t.old
  <2>0. pending \in Seq(Message) /\ lastKnown \in Int /\ collections \subseteq Collection
    BY DEF IInv, RecordsTypeOK
  <2>1. CASE Accepted(m)
    <3>1. PICK result \in TranslateAndCompress(pending, m) :
              pending' = result.queue /\ tally' = Count(t, pending, result)
      BY <2>1, Zenon DEF NotifyOne
    <3>2. /\ result.queue \in Seq(Message) /\ result.appended \in BOOLEAN
          /\ ~result.appended => Len(result.queue) = Len(pending)
      BY <2>0, TranslateAndCompressType
    <3>3. CASE result.appended
      <4>1. tally' = [old |-> t.old, appended |-> t.appended + 1, modified |-> t.modified,
                      erased |-> IF Len(result.queue) # Len(pending) + 1
                                 THEN t.erased + 1 ELSE t.erased]
        <5> HIDE DEF t
        <5> QED BY <1>2, <3>1, <3>3 DEF Count
      <4> HIDE DEF t
      <4> QED BY <1>2, <2>0, <3>1, <3>2, <3>3, <4>1
    <3>4. CASE ~result.appended
      <4>1. tally' = [old |-> t.old, appended |-> t.appended, modified |-> t.modified + 1,
                      erased |-> t.erased]
        <5> HIDE DEF t
        <5> QED BY <1>2, <3>1, <3>4 DEF Count
      <4> HIDE DEF t
      <4> QED BY <1>2, <2>0, <3>1, <3>2, <3>4, <4>1
    <3> QED BY <3>2, <3>3, <3>4
  <2>2. CASE ~Accepted(m)
    <3>1. tally' = t /\ pending' = pending
      BY <2>2 DEF NotifyOne
    <3> HIDE DEF t
    <3> QED BY <1>2, <2>0, <3>1
  <2> QED BY <2>1, <2>2
<1>4. Written /\ pending' = pending => Written'
  BY <1>1 DEF Written, Contents
<1>5. RecordsTypeOK' /\ collections' \subseteq Collection
  BY <1>1, <1>3 DEF IInv, RecordsTypeOK
<1>6. SlotOK' /\ FileBounded'
  BY <1>1 DEF IInv, SlotOK, FileBounded
<1>7. TallyKept'
  <2> HIDE DEF t
  <2> QED BY <1>1, <1>2, <1>3, <1>4 DEF TallyKept
<1>8. OneInHand'
  <2>1. disturbed' = disturbed \/ disturbed' = disturbed \cup {"compressed"}
    BY DEF NotifyOne
  <2> QED BY <1>1, <2>1 DEF IInv, OneInHand, Tokens
<1>9. PendingIsScheduled'
  BY <1>1 DEF PendingIsScheduled
<1> QED BY <1>1, <1>5, <1>6, <1>7, <1>8, <1>9 DEF IInv

\* The end of a list brings the count up to date and starts the write.
LEMMA NotifyEndInv ==
    ASSUME IInv, NotifyEnd
    PROVE  IInv'
<1> USE DEF fileVars, filterVars, clientVars
<1>1. /\ RecordsTypeOK /\ FileBounded /\ TallyKept /\ call = "notify" /\ ~saving
      /\ call' = "none" /\ tally' = NoTally
      /\ UNCHANGED <<pending, file, startOffset, pipeline, configured, posted, collections,
                     replaying, given, disturbed>>
      /\ scheduled' = (scheduled \/ Len(pending) # tally.old)
  BY DEF NotifyEnd, IInv, Enqueued
<1>2. RecordsOK'
  <2>1. CASE tally.appended = 0 /\ tally.modified = 0
    <3>1. Written /\ UNCHANGED <<lastKnown, needFullSave, saving>>
      BY <1>1, <2>1 DEF NotifyEnd, TallyKept
    <3>2. Written' /\ FileBounded'
      BY <1>1, <3>1 DEF Written, Contents, FileBounded
    <3> QED BY <1>1, <3>1, <3>2 DEF RecordsOK, RecordsTypeOK
  <2>2. CASE ~(tally.appended = 0 /\ tally.modified = 0)
    <3>1. saving' = configured /\ needFullSave' \in {needFullSave, TRUE}
      BY <2>2 DEF NotifyEnd, Enqueued, Save
    <3>2. lastKnown' = Len(pending)
      <4>1. CASE tally.erased > 0
        BY <2>2, <4>1 DEF NotifyEnd
      <4>2. CASE ~(tally.erased > 0)
        <5>1. lastKnown' = lastKnown + tally.appended
          BY <2>2, <4>2 DEF NotifyEnd, Enqueued
        <5>2. tally.erased = 0
          BY <1>1, <4>2 DEF RecordsTypeOK
        <5> QED BY <1>1, <5>1, <5>2 DEF TallyKept
      <4> QED BY <4>1, <4>2
    <3>3. Written' /\ FileBounded'
      BY <1>1, <3>1, <3>2 DEF Written, FileBounded
    <3>4. lastKnown' \in Int /\ needFullSave' \in BOOLEAN /\ saving' \in BOOLEAN
      <4>1. pending \in Seq(Message) /\ needFullSave \in BOOLEAN /\ configured \in BOOLEAN
        BY <1>1 DEF RecordsTypeOK
      <4>2. Len(pending) \in Int
        BY <4>1
      <4> QED BY <3>1, <3>2, <4>1, <4>2
    <3>5. /\ pending' \in Seq(Message) /\ startOffset' \in Nat /\ configured' = configured
          /\ file' \in [msgs : Seq(Message), start : Nat, version : {0, 1}]
      BY <1>1 DEF RecordsTypeOK
    <3> QED BY <3>1, <3>3, <3>4, <3>5 DEF RecordsOK
  <2> QED BY <2>1, <2>2
<1>3. OtherTypes'
  BY <1>1, OtherTypesKept DEF OtherTypes, NoTally
<1>4. OneInHand'
  BY <1>1 DEF IInv, OneInHand, Tokens
<1>5. PendingIsScheduled'
  <2>1. pending # <<>> => Len(pending) > 0
    BY <1>1 DEF RecordsTypeOK
  <2>2. tally.old \in Nat
    BY <1>1 DEF RecordsTypeOK
  <2> QED BY <1>1, <2>1, <2>2 DEF PendingIsScheduled, TallyKept
<1> QED BY <1>1, <1>2, <1>3, <1>4, <1>5, Assemble
\* Steps that leave the records alone.
LEMMA RecordsUntouched ==
    ASSUME RecordsOK, UNCHANGED <<pending, fileVars, lastKnown, configured, saving>>
    PROVE  RecordsOK'
BY DEF RecordsOK, fileVars, FileBounded, Written, Contents

\* The tokens of a replay, as the types have them.
LEMMA TokensType ==
    ASSUME OtherTypes
    PROVE  posted \in Nat /\ Len(pipeline) \in Nat
BY DEF OtherTypes

\* A replay starts when none is under way, and is its own token.
LEMMA StartReplayInv ==
    ASSUME IInv, StartReplay
    PROVE  IInv'
<1>1. call = "none" /\ call' = "replay" /\ ~saving /\ ~replaying /\ replaying' = TRUE
  BY DEF StartReplay, Idle
<1>2. RecordsOK'
  BY <1>1, RecordsKept, RecordsUntouched DEF StartReplay
<1>3. OtherTypes /\ OtherTypes'
  BY OtherTypesKept DEF StartReplay, OtherTypes, filterVars
<1>4. OneInHand'
  BY <1>1, <1>3, TokensType DEF IInv, OneInHand, Tokens, StartReplay
<1>5. PendingIsScheduled'
  BY <1>1 DEF PendingIsScheduled
<1> QED BY <1>1, <1>2, <1>3, <1>4, <1>5, Assemble

\* A queued call of replayNext() is exchanged for the call itself.
LEMMA PostedReplayInv ==
    ASSUME IInv, PostedReplay
    PROVE  IInv'
<1>1. /\ call = "none" /\ call' = "replay" /\ ~saving /\ posted > 0 /\ posted' = posted - 1
      /\ UNCHANGED <<pipeline, given, replaying, scheduled, pending, disturbed>>
  BY DEF PostedReplay, Idle, clientVars
<1>2. RecordsOK'
  BY <1>1, RecordsKept, RecordsUntouched DEF PostedReplay
<1>3. OtherTypes /\ OtherTypes'
  <2>1. OtherTypes
    BY OtherTypesKept
  <2>2. posted' \in Nat
    BY <2>1, <1>1 DEF OtherTypes
  <2> QED BY <2>1, <2>2 DEF PostedReplay, OtherTypes, filterVars, clientVars
<1>4. OneInHand'
  BY <1>1, <1>3, TokensType DEF IInv, OneInHand, Tokens
<1>5. PendingIsScheduled'
  BY <1>1 DEF IInv, PendingIsScheduled
<1> QED BY <1>1, <1>2, <1>3, <1>4, <1>5, Assemble

\* replayNext() with nothing left ends the replay together with its token.
LEMMA NothingToReplayInv ==
    ASSUME IInv, NothingToReplay
    PROVE  IInv'
<1>1. /\ call = "replay" /\ call' = "none" /\ ~saving /\ pending = <<>> /\ replaying' = FALSE
      /\ UNCHANGED <<pipeline, given, posted, pending>>
  BY DEF NothingToReplay
<1>2. RecordsOK'
  BY <1>1, RecordsKept, RecordsUntouched DEF NothingToReplay
<1>3. OtherTypes /\ OtherTypes'
  BY OtherTypesKept DEF NothingToReplay, OtherTypes, filterVars
<1>4. OneInHand'
  BY <1>1, <1>3, TokensType DEF IInv, OneInHand, Tokens
<1>5. PendingIsScheduled'
  BY <1>1 DEF PendingIsScheduled
<1> QED BY <1>1, <1>2, <1>3, <1>4, <1>5, Assemble

\* replayNext() under way is the only token there is.
LEMMA ReplayAlone ==
    ASSUME IInv, call = "replay"
    PROVE  posted = 0 /\ pipeline = <<>> /\ given = NoChange /\ replaying
<1>1. OtherTypes
  BY OtherTypesKept
<1>2. posted = 0 /\ Len(pipeline) = 0 /\ given = NoChange /\ replaying
  BY <1>1, TokensType DEF IInv, OneInHand, Tokens, OtherTypes
<1>3. pipeline = <<>>
  BY <1>1, <1>2 DEF OtherTypes
<1> QED BY <1>2, <1>3

\* It is exchanged for the agent's answer, or for another call.
LEMMA ReplayCachedInv ==
    ASSUME IInv, ReplayCached
    PROVE  IInv'
<1>1. /\ call = "replay" /\ call' = "none" /\ ~saving /\ pending # <<>>
      /\ Emit(Head(pending), pipeline)
      /\ UNCHANGED <<configured, tally, collections, scheduled, replaying, disturbed>>
  BY DEF ReplayCached, filterVars
<1>2. RecordsOK /\ OtherTypes /\ posted = 0 /\ pipeline = <<>> /\ given = NoChange /\ replaying
  BY <1>1, RecordsKept, OtherTypesKept, ReplayAlone
<1>3. Head(pending) \in Message /\ configured \in BOOLEAN /\ pipeline \in Seq(Message)
  BY <1>1, <1>2 DEF RecordsOK, OtherTypes
<1>4. /\ RecordsOK' /\ pipeline' \in Seq(Message)
      /\ \/ given' = Head(pending) /\ posted' = posted /\ pipeline' = pipeline
         \/ given' = given /\ posted' = posted + 1 /\ Len(pipeline') <= Len(pipeline)
  BY <1>1, <1>2, <1>3, EmitKeeps
<1>5. OtherTypes'
  BY <1>1, <1>2, <1>3, <1>4 DEF OtherTypes
<1>6. OneInHand'
  <2>1. Len(pipeline') = 0
    BY <1>2, <1>4
  <2>2. Head(pending) # NoChange
    BY <1>3, NoChangeAssumption
  <2> QED BY <1>1, <1>2, <1>4, <2>1, <2>2 DEF OneInHand, Tokens
<1>7. PendingIsScheduled'
  BY <1>1, <1>2 DEF PendingIsScheduled
<1> QED BY <1>1, <1>4, <1>5, <1>6, <1>7, Assemble

\* It is exchanged for the change in the pipeline, or goes on.
LEMMA ReplayLaterInv ==
    ASSUME IInv, ReplayLater
    PROVE  IInv'
<1>1. /\ call = "replay" /\ ~saving /\ pending # <<>>
      /\ UNCHANGED <<configured, tally, posted, collections, scheduled, replaying, given,
                     disturbed>>
  BY DEF ReplayLater, filterVars, clientVars
<1>2. RecordsOK /\ OtherTypes /\ posted = 0 /\ pipeline = <<>> /\ given = NoChange /\ replaying
  BY <1>1, RecordsKept, OtherTypesKept, ReplayAlone
<1>3. PICK result \in TranslateAndCompress(pipeline, Head(pending)) :
          /\ pipeline' = result.queue
          /\ IF result.appended
             THEN call' = "none" /\ UNCHANGED <<pending, lastKnown, fileVars, saving>>
             ELSE Dequeue /\ UNCHANGED call
  BY DEF ReplayLater
<1>4. Head(pending) \in Message /\ pipeline \in Seq(Message) /\ collections \subseteq Collection
  BY <1>1, <1>2 DEF RecordsOK, OtherTypes
<1>5. /\ result.queue \in Seq(Message) /\ result.appended \in BOOLEAN
      /\ result.appended => Len(result.queue) <= Len(pipeline) + 1 /\ result.queue # <<>>
      /\ ~result.appended => Len(result.queue) = Len(pipeline)
  BY <1>4, TranslateAndCompressType
<1>6. call' \in {"none", "replay"}
  BY <1>1, <1>3
<1>7. OtherTypes'
  BY <1>1, <1>2, <1>3, <1>5, <1>6 DEF OtherTypes
<1>8. RecordsOK'
  <2>1. CASE result.appended
    BY <1>1, <1>2, <1>3, <2>1, RecordsUntouched
  <2>2. CASE ~result.appended
    BY <1>1, <1>2, <1>3, <2>2, DequeueKeeps DEF OtherTypes
  <2> QED BY <2>1, <2>2
<1>9. OneInHand'
  <2>1. CASE result.appended
    <3>1. call' = "none" /\ Len(pipeline') = 1
      <4>1. Len(result.queue) \in Nat /\ Len(result.queue) # 0
        BY <1>5, <2>1
      <4>2. Len(pipeline) = 0
        BY <1>2
      <4>3. Len(result.queue) <= 1
        BY <1>5, <2>1, <4>2
      <4>4. ASSUME NEW n \in Nat, n # 0, n <= 1
            PROVE  n = 1
        BY <4>4
      <4>5. Len(result.queue) = 1
        BY <4>1, <4>3, <4>4
      <4> QED BY <1>3, <2>1, <4>5
    <3> QED BY <1>1, <1>2, <3>1 DEF OneInHand, Tokens
  <2>2. CASE ~result.appended
    <3>1. call' = "replay" /\ Len(pipeline') = 0
      BY <1>1, <1>2, <1>3, <1>5, <2>2
    <3> QED BY <1>1, <1>2, <3>1 DEF OneInHand, Tokens
  <2> QED BY <2>1, <2>2
<1>10. PendingIsScheduled'
  BY <1>1, <1>2 DEF PendingIsScheduled
<1> QED BY <1>6, <1>7, <1>8, <1>9, <1>10, Assemble
\* A fetch job that is answered changes nothing but the cache.
LEMMA FetchDoneInv ==
    ASSUME IInv, FetchDone
    PROVE  IInv'
<1>1. /\ call = "none" /\ call' \in {"none", "flush"} /\ ~saving
      /\ UNCHANGED <<pipeline, given, posted, pending, scheduled, replaying, disturbed>>
  BY DEF FetchDone, Idle, clientVars
<1>2. RecordsOK'
  BY <1>1, RecordsKept, RecordsUntouched DEF FetchDone
<1>3. OtherTypes'
  BY <1>1, OtherTypesKept DEF FetchDone, OtherTypes, filterVars, clientVars
<1>4. OneInHand' /\ PendingIsScheduled'
  BY <1>1 DEF IInv, OneInHand, Tokens, PendingIsScheduled
<1> QED BY <1>1, <1>2, <1>3, <1>4, Assemble

\* The change in the pipeline is exchanged for the agent's answer, or for a
\* queued call.
LEMMA FlushOneInv ==
    ASSUME IInv, FlushOne
    PROVE  IInv'
<1>1. /\ call = "flush" /\ call' = "flush" /\ ~saving /\ pipeline # <<>>
      /\ Emit(Head(pipeline), Tail(pipeline))
      /\ UNCHANGED <<configured, tally, collections, scheduled, replaying, disturbed>>
  BY DEF FlushOne, filterVars
<1>2. RecordsOK /\ OtherTypes
  BY <1>1, RecordsKept, OtherTypesKept
<1>3. /\ Head(pipeline) \in Message /\ Tail(pipeline) \in Seq(Message)
      /\ Len(Tail(pipeline)) = Len(pipeline) - 1 /\ Len(pipeline) > 0
      /\ Len(pipeline) \in Nat /\ posted \in Nat /\ configured \in BOOLEAN
  BY <1>1, <1>2 DEF OtherTypes
<1>4. Len(pipeline) = 1 /\ posted = 0 /\ given = NoChange /\ replaying
  BY <1>1, <1>2, <1>3 DEF IInv, OneInHand, Tokens, OtherTypes
<1>5. /\ RecordsOK' /\ pipeline' \in Seq(Message)
      /\ \/ given' = Head(pipeline) /\ posted' = posted /\ pipeline' = Tail(pipeline)
         \/ given' = given /\ posted' = posted + 1 /\ Len(pipeline') <= Len(Tail(pipeline))
  BY <1>1, <1>2, <1>3, EmitKeeps
<1>6. OtherTypes'
  BY <1>1, <1>2, <1>3, <1>5 DEF OtherTypes
<1>7. OneInHand'
  <2>1. Len(pipeline') = 0
    BY <1>3, <1>4, <1>5
  <2>2. Head(pipeline) # NoChange
    BY <1>3, NoChangeAssumption
  <2> QED BY <1>1, <1>4, <1>5, <2>1, <2>2 DEF OneInHand, Tokens
<1>8. PendingIsScheduled'
  BY <1>1, <1>4 DEF PendingIsScheduled
<1> QED BY <1>1, <1>5, <1>6, <1>7, <1>8, Assemble

\* The end of flushPipeline() changes nothing but the cache.
LEMMA FlushEndInv ==
    ASSUME IInv, FlushEnd
    PROVE  IInv'
<1>1. /\ call = "flush" /\ call' = "none" /\ ~saving
      /\ UNCHANGED <<pipeline, given, posted, pending, scheduled, replaying, disturbed>>
  BY DEF FlushEnd, clientVars
<1>2. RecordsOK'
  BY <1>1, RecordsKept, RecordsUntouched DEF FlushEnd
<1>3. OtherTypes'
  BY <1>1, OtherTypesKept DEF FlushEnd, OtherTypes, filterVars, clientVars
<1>4. OneInHand' /\ PendingIsScheduled'
  BY <1>1 DEF IInv, OneInHand, Tokens, PendingIsScheduled
<1> QED BY <1>1, <1>2, <1>3, <1>4, Assemble

\* The agent's answer ends the replay and schedules the next one.
LEMMA ChangeProcessedInv ==
    ASSUME IInv, ChangeProcessed
    PROVE  IInv'
<1>1. /\ call \in {"none", "flush"} /\ call' = call /\ ~saving
      /\ given # NoChange /\ given' = NoChange /\ replaying' = FALSE
      /\ scheduled' = (scheduled \/ pending' # <<>>)
      /\ UNCHANGED <<pipeline, configured, tally, posted, collections>>
      /\ IF pending # <<>> THEN Dequeue ELSE UNCHANGED <<pending, lastKnown, fileVars, saving>>
  BY DEF ChangeProcessed, filterVars
<1>2. RecordsOK /\ OtherTypes /\ configured \in BOOLEAN
  BY <1>1, RecordsKept, OtherTypesKept DEF OtherTypes
<1>3. RecordsOK'
  BY <1>1, <1>2, DequeueKeeps, RecordsUntouched
<1>4. OtherTypes'
  BY <1>1, <1>2 DEF OtherTypes
<1>5. OneInHand'
  BY <1>1, <1>2, TokensType DEF IInv, OneInHand, Tokens
<1>6. PendingIsScheduled'
  BY <1>1 DEF PendingIsScheduled
<1> QED BY <1>1, <1>3, <1>4, <1>5, <1>6, Assemble

\* A collection that is given up may take the token of a replay with it, but
\* then the change under replay has been cleaned.
LEMMA UnwatchInv ==
    ASSUME IInv, NEW c \in Collection, Unwatch(c)
    PROVE  IInv'
<1>1. /\ call = "none" /\ call' = "none" /\ ~saving
      /\ collections' = collections \ {c}
      /\ CleanOld(pipeline, collections')
      /\ UNCHANGED <<configured, tally, posted, scheduled, replaying, given>>
      /\ disturbed' = IF replaying
                         /\ \/ pipeline' # pipeline
                            \/ pending # <<>> /\ (pending' = <<>> \/ Head(pending') # Head(pending))
                      THEN disturbed \cup {"cleaned"} ELSE disturbed
  BY DEF Unwatch, Idle, clientVars
<1>2. RecordsOK /\ OtherTypes /\ configured \in BOOLEAN /\ pipeline \in Seq(Message)
  BY <1>1, RecordsKept, OtherTypesKept DEF OtherTypes
<1>3. /\ RecordsOK' /\ Len(pending') <= Len(pending)
      /\ pipeline' \in Seq(Message) /\ Len(pipeline') <= Len(pipeline)
  <2> DEFINE w == collections'
  <2>1. CleanOld(pipeline, w)
    BY <1>1
  <2> HIDE DEF w
  <2> QED BY <1>1, <1>2, <2>1, CleanOldKeeps
<1>4. OtherTypes'
  BY <1>1, <1>2, <1>3 DEF OtherTypes
<1>5. OneInHand'
  <2>1. posted \in Nat /\ Len(pipeline) \in Nat /\ Len(pipeline') \in Nat
    BY <1>2, <1>3, TokensType
  <2>2. pipeline' = pipeline => Len(pipeline') = Len(pipeline)
    OBVIOUS
  <2>3. replaying /\ "cleaned" \notin disturbed' => pipeline' = pipeline /\ "cleaned" \notin disturbed
    BY <1>1
  <2>4. replaying \in BOOLEAN
    BY <1>2 DEF OtherTypes
  <2> QED BY <1>1, <1>3, <2>1, <2>2, <2>3, <2>4 DEF IInv, OneInHand, Tokens
<1>6. PendingIsScheduled'
  <2>1. pending' # <<>> => pending # <<>>
    BY <1>2, <1>3 DEF RecordsOK
  <2> QED BY <1>1, <2>1 DEF IInv, PendingIsScheduled
<1> QED BY <1>1, <1>3, <1>4, <1>5, <1>6, Assemble

\* A signal that is disconnected changes what will be accepted, nothing else.
LEMMA DisconnectInv ==
    ASSUME IInv, NEW op, Disconnect(op)
    PROVE  IInv'
<1>1. /\ call = "none" /\ call' = "none" /\ ~saving
      /\ UNCHANGED <<pipeline, given, posted, pending, scheduled, replaying, disturbed>>
  BY DEF Disconnect, Idle, clientVars
<1>2. RecordsOK'
  BY <1>1, RecordsKept, RecordsUntouched DEF Disconnect
<1>3. OtherTypes'
  BY <1>1, OtherTypesKept DEF Disconnect, OtherTypes, clientVars
<1>4. OneInHand' /\ PendingIsScheduled'
  BY <1>1 DEF IInv, OneInHand, Tokens, PendingIsScheduled
<1> QED BY <1>1, <1>2, <1>3, <1>4, Assemble

\* quit() starts the last write.
LEMMA QuitInv ==
    ASSUME IInv, Quit
    PROVE  IInv'
<1>1. /\ call = "none" /\ call' = "quit" /\ configured /\ saving' = configured
      /\ UNCHANGED <<pipeline, given, posted, pending, scheduled, replaying, disturbed>>
  BY DEF Quit, Idle, Save, clientVars
<1>2. RecordsOK'
  <2>1. RecordsOK
    BY <1>1, RecordsKept
  <2> QED BY <1>1, <2>1 DEF Quit, RecordsOK, FileBounded, Written, fileVars
<1>3. OtherTypes'
  BY <1>1, OtherTypesKept DEF Quit, OtherTypes, clientVars, filterVars
<1>4. OneInHand' /\ PendingIsScheduled'
  BY <1>1 DEF IInv, OneInHand, Tokens, PendingIsScheduled
<1> QED BY <1>1, <1>2, <1>3, <1>4, Assemble

\* A restart finds the changes of any file.
LEMMA RestartInv ==
    ASSUME IInv, NEW f \in [msgs : Seq(Message), start : Nat, version : {0, 1}],
           f.start <= Len(f.msgs), Restart(f)
    PROVE  IInv'
<1>1. Contents(f) \in Seq(Message)
  BY DEF Contents
<1>2. RecordsOK'
  <2>1. /\ file' = f /\ pending' = Contents(f) /\ lastKnown' = Len(pending') /\ startOffset' = 0
        /\ needFullSave' = (f.start > 0 \/ f.version = 0) /\ saving' = FALSE /\ configured' = TRUE
    BY DEF Restart
  <2>2. Contents(file)' = pending'
    BY <2>1 DEF Contents
  <2>3. needFullSave' \in BOOLEAN /\ (~needFullSave' => f.start = 0)
    <3>1. f.start \in Nat
      OBVIOUS
    <3>2. CASE f.start > 0 \/ f.version = 0
      BY <2>1, <3>2
    <3>3. CASE ~(f.start > 0 \/ f.version = 0)
      BY <2>1, <3>1, <3>3
    <3> QED BY <3>2, <3>3
  <2>4. Written' /\ FileBounded'
    BY <2>1, <2>2, <2>3 DEF Written, FileBounded
  <2>5. lastKnown' \in Int /\ pending' \in Seq(Message)
    <3>1. Len(Contents(f)) \in Nat
      BY <1>1
    <3> QED BY <1>1, <2>1, <3>1
  <2>6. /\ file' \in [msgs : Seq(Message), start : Nat, version : {0, 1}]
        /\ startOffset' \in Nat /\ saving' \in BOOLEAN /\ ~saving'
    BY <2>1
  <2> QED BY <2>3, <2>4, <2>5, <2>6 DEF RecordsOK
<1>3. OtherTypes'
  <2>1. tally' \in [old : Nat, appended : Nat, modified : Nat, erased : Nat]
    BY DEF Restart, NoTally
  <2>2. pipeline' \in Seq(Message) /\ posted' \in Nat
    BY DEF Restart
  <2>3. collections' \subseteq Collection /\ given' \in Message \cup {NoChange}
    BY DEF Restart, filterVars, IInv
  <2>4. /\ configured' \in BOOLEAN /\ replaying' \in BOOLEAN /\ scheduled' \in BOOLEAN
        /\ call' \in {"none", "notify", "replay", "flush", "quit"}
    BY DEF Restart
  <2> QED BY <2>1, <2>2, <2>3, <2>4 DEF OtherTypes
<1>4. OneInHand'
  <2>1. call' = "none" /\ posted' = 0 /\ Len(pipeline') = 0 /\ given' = NoChange /\ ~replaying'
    BY DEF Restart
  <2> QED BY <2>1 DEF OneInHand, Tokens
<1>5. PendingIsScheduled'
  BY DEF PendingIsScheduled, Restart
<1>6. call' = "none"
  BY DEF Restart
<1> QED BY <1>2, <1>3, <1>4, <1>5, <1>6, Assemble

\* Dying leaves the file, or the start of the one that is being written.
LEMMA CrashInv ==
    ASSUME IInv, Crash
    PROVE  IInv'
<1>1. PICK f \in OnDisk : Restart(f)
  BY DEF Crash
<1>2. pending \in Seq(Message) /\ file \in [msgs : Seq(Message), start : Nat, version : {0, 1}]
      /\ file.start <= Len(file.msgs)
  BY DEF IInv, RecordsTypeOK, FileBounded
<1>3. /\ f \in [msgs : Seq(Message), start : Nat, version : {0, 1}]
      /\ f.start <= Len(f.msgs)
  <2>1. CASE ~saving
    BY <1>1, <1>2, <2>1 DEF OnDisk
  <2>2. CASE f = [msgs |-> <<>>, start |-> 0, version |-> 0]
    BY <2>2
  <2>3. CASE \E k \in 0 .. Len(pending) :
                 f = [msgs |-> SubSeq(pending, 1, k), start |-> 0, version |-> 1]
    <3>1. PICK k \in 0 .. Len(pending) :
                   f = [msgs |-> SubSeq(pending, 1, k), start |-> 0, version |-> 1]
      BY <2>3
    <3>2. SubSeq(pending, 1, k) \in Seq(Message) /\ Len(SubSeq(pending, 1, k)) \in Nat
      BY <1>2
    <3> QED BY <3>1, <3>2
  <2> QED BY <1>1, <2>1, <2>2, <2>3 DEF OnDisk
<1> QED BY <1>1, <1>3, RestartInv

\* Every step keeps the invariant.
LEMMA StepInv == IInv /\ [Next]_vars => IInv'
<1> SUFFICES ASSUME IInv, [Next]_vars PROVE IInv'
  OBVIOUS
<1>1. ASSUME NEW m \in Message, NotifyOne(m) PROVE IInv'
  BY <1>1, NotifyOneInv
<1>2. CASE Slots
  BY <1>2, FinishSaveInv, NotifyEndInv, NothingToReplayInv, ReplayCachedInv, ReplayLaterInv,
     FlushOneInv, FlushEndInv DEF Slots
<1>3. CASE StartReplay
  BY <1>3, StartReplayInv
<1>4. CASE PostedReplay
  BY <1>4, PostedReplayInv
<1>5. CASE FetchDone
  BY <1>5, FetchDoneInv
<1>6. CASE ChangeProcessed
  BY <1>6, ChangeProcessedInv
<1>7. ASSUME NEW c \in Collection, Unwatch(c) PROVE IInv'
  BY <1>7, UnwatchInv
<1>8. ASSUME NEW op \in Fickle, Disconnect(op) PROVE IInv'
  BY <1>8, DisconnectInv
<1>9. CASE Quit
  BY <1>9, QuitInv
<1>10. CASE Crash
  BY <1>10, CrashInv
<1>11. CASE Exit
  <2>1. Restart(file)
    BY <1>11 DEF Exit
  <2> QED BY <2>1, RestartInv DEF IInv, RecordsTypeOK, FileBounded
<1>12. CASE UNCHANGED vars
  <2>1. UNCHANGED <<pending, file, startOffset, needFullSave, lastKnown, saving, configured>>
    BY <1>12 DEF vars
  <2>2. UNCHANGED <<pipeline, collections, call, tally, posted, scheduled, replaying, given,
                    disturbed>>
    BY <1>12 DEF vars
  <2>3. RecordsTypeOK' /\ (collections \subseteq Collection)'
    BY <2>1, <2>2 DEF IInv, RecordsTypeOK
  <2>4. SlotOK' /\ FileBounded'
    BY <2>1, <2>2 DEF IInv, SlotOK, FileBounded
  <2>5. Written' = Written
    BY <2>1 DEF Written, Contents
  <2>6. (call # "notify" => Written)' /\ TallyKept'
    BY <2>1, <2>2, <2>5 DEF IInv, TallyKept
  <2>7. OneInHand' /\ PendingIsScheduled'
    BY <2>1, <2>2 DEF IInv, OneInHand, Tokens, PendingIsScheduled
  <2> QED BY <2>3, <2>4, <2>6, <2>7 DEF IInv
<1> QED BY <1>1, <1>2, <1>3, <1>4, <1>5, <1>6, <1>7, <1>8, <1>9, <1>10, <1>11, <1>12 DEF Next

----------------------------------------------------------------------------
(* The theorems                                                            *)

\* The file, the count, the counters of slotNotify() and the tokens of a
\* replay stay in step.
THEOREM Invariance == Spec => []IInv
<1>1. Init => IInv
  BY InitInv
<1>2. IInv /\ [Next]_vars => IInv'
  BY StepInv
<1> QED BY <1>1, <1>2, PTL DEF Spec

\* The records, the counters and what the agent is given keep their types.
THEOREM RecordsTyped == Spec => []RecordsTypeOK
<1>1. IInv => RecordsTypeOK
  BY DEF IInv
<1> QED BY <1>1, Invariance, PTL

\* The file read back gives the pending changes whenever it is not written.
THEOREM FileIsCurrent == Spec => []FileMatches
<1>1. IInv => FileMatches
  BY DEF IInv, Written, FileMatches
<1> QED BY <1>1, Invariance, PTL

\* The recorder's count of its changes is right.
THEOREM CountIsKept == Spec => []ContractKept
<1>1. IInv => ContractKept
  BY DEF IInv, Written, ContractKept
<1> QED BY <1>1, Invariance, PTL

\* A replay is always moved on by exactly one thing.
THEOREM ReplayIsInHand == Spec => []OneInHand
<1>1. IInv => OneInHand
  BY DEF IInv
<1> QED BY <1>1, Invariance, PTL

\* Pending changes are being replayed or scheduled for it.
THEOREM PendingIsNotForgotten == Spec => []PendingIsScheduled
<1>1. IInv => PendingIsScheduled
  BY DEF IInv
<1> QED BY <1>1, Invariance, PTL

----------------------------------------------------------------------------
(* What the agent is given                                                 *)

\* A change that waits for its item stands for the first pending one, too.
WaitingStands ==
    pipeline # <<>> /\ disturbed = {} =>
        pending # <<>> /\ Stands(Head(pending), Head(pipeline))

HInv == IInv /\ HeadIsGiven /\ WaitingStands

\* A replay has one thing in hand at most, and without a replay there is none.
LEMMA InHand ==
    ASSUME IInv
    PROVE  /\ given # NoChange => pipeline = <<>> /\ replaying /\ posted = 0
           /\ pipeline # <<>> => given = NoChange /\ replaying /\ posted = 0 /\ Len(pipeline) = 1
<1>1. posted \in Nat /\ Len(pipeline) \in Nat /\ (Len(pipeline) = 0 <=> pipeline = <<>>)
  BY OtherTypesKept DEF OtherTypes
<1>2. (Tokens = 0 \/ Tokens = 1) /\ (~replaying => Tokens = 0)
  BY DEF IInv, OneInHand
<1> DEFINE a == IF call = "replay" THEN 1 ELSE 0
           b == IF given = NoChange THEN 0 ELSE 1
           n == Len(pipeline)
<1>3. Tokens = a + posted + n + b /\ a \in {0, 1} /\ b \in {0, 1} /\ (given = NoChange <=> b = 0)
  BY DEF Tokens
<1> HIDE DEF a, b, n
<1>4. given # NoChange => Tokens = 1 /\ n = 0 /\ posted = 0
  BY <1>1, <1>2, <1>3 DEF n
<1>5. n # 0 => Tokens = 1 /\ given = NoChange /\ posted = 0 /\ n = 1
  <2>1. n \in Nat
    BY <1>1 DEF n
  <2> QED BY <1>1, <1>2, <1>3, <2>1
<1> USE DEF n
<1>6. Tokens = 1 => replaying
  BY <1>2
<1> QED BY <1>1, <1>4, <1>5, <1>6

\* What leaves the agent and the pipeline alone must leave the first pending
\* change alone, or count as a disturbance.
LEMMA HeadUndisturbed ==
    ASSUME HInv, UNCHANGED <<given, pipeline>>, disturbed' = {} => disturbed = {},
           disturbed' = {} /\ replaying /\ pending # <<>> =>
               pending' # <<>> /\ Head(pending') = Head(pending)
    PROVE  HeadIsGiven' /\ WaitingStands'
BY InHand DEF HInv, HeadIsGiven, WaitingStands

\* Nothing is in hand.
LEMMA NothingGiven ==
    ASSUME given' = NoChange, pipeline' = <<>>
    PROVE  HeadIsGiven' /\ WaitingStands'
BY DEF HeadIsGiven, WaitingStands

\* A message leaves the head that is being replayed as it is, or is noted as a disturbance.
LEMMA NotifyOneHead ==
    ASSUME HInv, NEW m \in Message, NotifyOne(m)
    PROVE  HeadIsGiven' /\ WaitingStands'
<1>1. UNCHANGED <<given, pipeline>>
  BY DEF NotifyOne, clientVars
<1>2. CASE Accepted(m)
  <2>1. PICK result \in TranslateAndCompress(pending, m) :
            /\ pending' = result.queue
            /\ disturbed' = IF replaying /\ pending # <<>>
                               /\ (result.queue = <<>> \/ Head(result.queue) # Head(pending))
                            THEN disturbed \cup {"compressed"} ELSE disturbed
    BY <1>2, Zenon DEF NotifyOne
  <2> QED BY <1>1, <2>1, HeadUndisturbed
<1>3. CASE ~Accepted(m)
  <2>1. UNCHANGED <<pending, disturbed>>
    BY <1>3 DEF NotifyOne
  <2> QED BY <1>1, <2>1, HeadUndisturbed
<1> QED BY <1>2, <1>3

\* The emission of a change that stands for the first pending one.
LEMMA EmitHead ==
    ASSUME HInv, given = NoChange, disturbed' = disturbed, NEW m \in Message,
           Emit(m, <<>>), disturbed = {} => pending # <<>> /\ Stands(Head(pending), m)
    PROVE  HeadIsGiven' /\ WaitingStands'
<1>1. CASE m.op \in heard
  <2>1. given' = m /\ pipeline' = <<>> /\ pending' = pending
    BY <1>1 DEF Emit
  <2> QED BY <2>1 DEF HeadIsGiven, WaitingStands
<1>2. CASE m.op \notin heard
  <2>1. CleanOld(<<>>, collections) /\ given' = given
    BY <1>2 DEF Emit
  <2>2. PICK left \in Sublist(<<>>, {k \in DOMAIN <<>> : AcceptedBy(heard, collections, <<>>[k])}) :
            pipeline' = left
    BY <2>1, Zenon DEF CleanOld
  <2>3. <<>> \in Seq(Message) /\ Len(<<>>) = 0
    OBVIOUS
  <2>4. left \in Seq(Message) /\ Len(left) <= 0
    BY <2>3, SublistType
  <2>5. left = <<>>
    BY <2>4
  <2> QED BY <2>1, <2>2, <2>5, NothingGiven
<1> QED BY <1>1, <1>2

\* The head is emitted with the item the cache has of it.
LEMMA ReplayCachedHead ==
    ASSUME HInv, ReplayCached
    PROVE  HeadIsGiven' /\ WaitingStands'
<1>1. /\ call = "replay" /\ pending # <<>> /\ Emit(Head(pending), pipeline)
      /\ disturbed' = disturbed
  BY DEF ReplayCached
<1>2. given = NoChange /\ pipeline = <<>> /\ Head(pending) \in Message
  <2>1. pending \in Seq(Message)
    BY DEF HInv, IInv, RecordsTypeOK
  <2> QED BY <1>1, <2>1, ReplayAlone DEF HInv
<1>3. Stands(Head(pending), Head(pending))
  BY DEF Stands
<1> QED BY <1>1, <1>2, <1>3, EmitHead

\* The pipeline is emitted from its front.
LEMMA FlushOneHead ==
    ASSUME HInv, FlushOne
    PROVE  HeadIsGiven' /\ WaitingStands'
<1>1. pipeline # <<>> /\ Emit(Head(pipeline), Tail(pipeline)) /\ disturbed' = disturbed
  BY DEF FlushOne
<1>2. given = NoChange /\ Head(pipeline) \in Message /\ Tail(pipeline) = <<>>
  <2>1. pipeline \in Seq(Message) /\ Len(pipeline) = 1 /\ given = NoChange
    BY <1>1, InHand, OtherTypesKept DEF HInv, OtherTypes
  <2>2. Len(Tail(pipeline)) = 0 /\ Tail(pipeline) \in Seq(Message)
    BY <1>1, <2>1
  <2>3. Tail(pipeline) = <<>>
    BY <2>2, EmptySeq
  <2>4. Head(pipeline) \in Message
    BY <1>1, <2>1
  <2> QED BY <2>1, <2>3, <2>4
<1>3. disturbed = {} => pending # <<>> /\ Stands(Head(pending), Head(pipeline))
  BY <1>1 DEF HInv, WaitingStands
<1> QED BY <1>1, <1>2, <1>3, EmitHead

\* What goes into the pipeline is the first change, or what it is translated to.
LEMMA ReplayLaterHolds ==
    ASSUME IInv, ReplayLater
    PROVE  /\ given' = NoChange
           /\ \/ pipeline' = <<>>
              \/ /\ pipeline' # <<>> /\ pending' = pending /\ pending # <<>>
                 /\ Stands(Head(pending), Head(pipeline'))
<1>1. /\ call = "replay" /\ pending # <<>> /\ given' = given
      /\ \E result \in TranslateAndCompress(pipeline, Head(pending)) :
             /\ pipeline' = result.queue
             /\ result.appended => pending' = pending
  BY DEF ReplayLater, clientVars
<1>2. given = NoChange /\ pipeline = <<>> /\ Head(pending) \in Message
      /\ collections \subseteq Collection
  <2>1. pending \in Seq(Message) /\ collections \subseteq Collection
    BY DEF IInv, RecordsTypeOK
  <2> QED BY <1>1, <2>1, ReplayAlone
<1> DEFINE m == Head(pending)
<1>3. PICK result \in TranslateAndCompress(<<>>, m) :
          pipeline' = result.queue /\ (result.appended => pending' = pending)
  BY <1>1, <1>2
<1> HIDE DEF m
<1>4. CASE IsIgnored(m)
  <2>1. result = [queue |-> <<>>, appended |-> FALSE]
    BY <1>3, <1>4 DEF TranslateAndCompress
  <2> QED BY <1>1, <1>2, <1>3, <2>1
<1>5. CASE ~IsIgnored(m)
  <2> DEFINE t == Translated(m)
  <2>1. t \in Message
    BY <1>2, <1>5, TranslatedType DEF m
  <2>2. t = m \/ (m.op = "Move" /\ t.uid = m.uid)
    BY <1>2 DEF Translated, m, Message
  <2>3. result \in Compressed(<<>>, t)
    BY <1>3, <1>5 DEF TranslateAndCompress
  <2> HIDE DEF t
  <2>4. result.queue = <<t>> /\ result.appended
    <3>1. ~\E k \in DOMAIN <<>> : [<<>>[k] EXCEPT !.parts = t.parts] = t
      OBVIOUS
    <3>2. \E kept \in Sublist(<<>>, DOMAIN <<>> \ {k \in DOMAIN <<>> :
                                 /\ t.op = "Remove" /\ <<>>[k].op = "Modify"
                                 /\ <<>>[k].uid = t.uid /\ <<>>[k].from = t.from}) :
              result = [queue |-> Append(kept, t), appended |-> TRUE]
      BY <2>3, <3>1, Zenon DEF Compressed
    <3>3. PICK kept : /\ kept \in Sublist(<<>>, {})
                      /\ result = [queue |-> Append(kept, t), appended |-> TRUE]
      <4>1. DOMAIN <<>> = {}
        OBVIOUS
      <4>2. DOMAIN <<>> \ {k \in DOMAIN <<>> :
                /\ t.op = "Remove" /\ <<>>[k].op = "Modify"
                /\ <<>>[k].uid = t.uid /\ <<>>[k].from = t.from} = {}
        BY <4>1
      <4> QED BY <3>2, <4>2, Zenon
    <3>4. <<>> \in Seq(Message) /\ Len(<<>>) = 0 /\ {} \in SUBSET DOMAIN <<>>
      OBVIOUS
    <3>5. kept \in Seq(Message) /\ Len(kept) <= 0
      BY <3>3, <3>4, SublistType
    <3>6. kept = <<>>
      BY <3>5
    <3> QED BY <3>3, <3>6
  <2>5. pending' = pending /\ Head(pipeline') = t /\ pipeline' # <<>>
    BY <1>3, <2>4
  <2> QED BY <1>1, <1>2, <2>2, <2>5 DEF Stands, m
<1> QED BY <1>4, <1>5

\* A head whose item is missing waits in the pipeline.
LEMMA ReplayLaterHead ==
    ASSUME HInv, ReplayLater
    PROVE  HeadIsGiven' /\ WaitingStands'
<1>1. IInv
  BY DEF HInv
<1>2. CASE pipeline' = <<>>
  BY <1>1, <1>2, ReplayLaterHolds, NothingGiven
<1>3. CASE pipeline' # <<>>
  BY <1>1, <1>3, ReplayLaterHolds DEF HeadIsGiven, WaitingStands
<1> QED BY <1>2, <1>3

\* Cleaning old notifications away is noted when it touches what is being replayed.
LEMMA UnwatchHead ==
    ASSUME HInv, NEW c \in Collection, Unwatch(c)
    PROVE  HeadIsGiven' /\ WaitingStands'
<1>1. /\ given' = given
      /\ disturbed' = IF replaying
                         /\ \/ pipeline' # pipeline
                            \/ pending # <<>> /\ (pending' = <<>> \/ Head(pending') # Head(pending))
                      THEN disturbed \cup {"cleaned"} ELSE disturbed
  BY DEF Unwatch, clientVars
<1>2. CASE pipeline' = pipeline
  BY <1>1, <1>2, HeadUndisturbed
<1>3. CASE pipeline' # pipeline /\ replaying
  BY <1>1, <1>3 DEF HeadIsGiven, WaitingStands
<1>4. CASE pipeline' # pipeline /\ ~replaying
  <2>1. pipeline = <<>> /\ Len(pipeline) = 0
    BY <1>4, InHand DEF HInv
  <2>2. CleanOld(pipeline, collections') /\ pipeline \in Seq(Message)
    BY OtherTypesKept DEF Unwatch, HInv, OtherTypes
  <2> DEFINE w == collections'
  <2>3. PICK left \in Sublist(pipeline, {k \in DOMAIN pipeline : AcceptedBy(heard, w, pipeline[k])}) :
            pipeline' = left
    BY <2>2, Zenon DEF CleanOld
  <2> HIDE DEF w
  <2>4. left \in Seq(Message) /\ Len(left) <= Len(pipeline)
    BY <2>2, SublistType
  <2>5. left = <<>>
    BY <2>1, <2>4
  <2> QED BY <1>4, <2>1, <2>3, <2>5
<1> QED BY <1>2, <1>3, <1>4

\* Every step keeps what is known of the head.
LEMMA StepHead == HInv /\ [Next]_vars => HInv'
<1> SUFFICES ASSUME HInv, [Next]_vars PROVE HInv'
  OBVIOUS
<1>1. IInv'
  BY StepInv DEF HInv
<1> SUFFICES HeadIsGiven' /\ WaitingStands'
  BY <1>1 DEF HInv
<1>2. ASSUME NEW m \in Message, NotifyOne(m) PROVE HeadIsGiven' /\ WaitingStands'
  BY <1>2, NotifyOneHead
<1>3. CASE FinishSave \/ NotifyEnd \/ NothingToReplay \/ FlushEnd \/ PostedReplay \/ FetchDone \/ Quit
  <2>1. UNCHANGED <<given, pipeline, pending, disturbed>>
    BY <1>3 DEF FinishSave, NotifyEnd, NothingToReplay, FlushEnd, PostedReplay, FetchDone, Quit,
                clientVars
  <2> QED BY <2>1, HeadUndisturbed
<1>4. CASE ReplayCached \/ ReplayLater \/ FlushOne
  BY <1>4, ReplayCachedHead, ReplayLaterHead, FlushOneHead
<1>5. CASE StartReplay
  <2>1. ~replaying /\ UNCHANGED <<given, pipeline>>
    BY <1>5 DEF StartReplay
  <2>2. given = NoChange /\ pipeline = <<>>
    BY <2>1, InHand DEF HInv
  <2> QED BY <2>1, <2>2, NothingGiven
<1>6. CASE ChangeProcessed
  <2>1. given # NoChange /\ given' = NoChange /\ pipeline' = pipeline
    BY <1>6 DEF ChangeProcessed
  <2> QED BY <2>1, InHand, NothingGiven DEF HInv
<1>7. ASSUME NEW c \in Collection, Unwatch(c) PROVE HeadIsGiven' /\ WaitingStands'
  BY <1>7, UnwatchHead
<1>8. ASSUME NEW op \in Fickle, Disconnect(op) PROVE HeadIsGiven' /\ WaitingStands'
  <2>1. UNCHANGED <<given, pipeline, pending, disturbed>>
    BY <1>8 DEF Disconnect, clientVars
  <2> QED BY <2>1, HeadUndisturbed
<1>9. CASE Crash \/ Exit
  BY <1>9, NothingGiven DEF Crash, Exit, Restart
<1>10. CASE UNCHANGED vars
  BY <1>10, HeadUndisturbed DEF vars
<1> QED BY <1>2, <1>3, <1>4, <1>5, <1>6, <1>7, <1>8, <1>9, <1>10 DEF Next, Slots

\* The agent answers for the change that will be dequeued, unless the list or
\* the filter was changed while it worked on it.
THEOREM HeadIsAnswered == Spec => []HeadIsGiven
<1>1. Init => HInv
  BY InitInv DEF Init, HInv, HeadIsGiven, WaitingStands
<1>2. HInv /\ [Next]_vars => HInv'
  BY StepHead
<1>3. HInv => HeadIsGiven
  BY DEF HInv
<1> QED BY <1>1, <1>2, <1>3, PTL DEF Spec

----------------------------------------------------------------------------
(* The queue's operators                                                   *)

\* The queue erases entries as the recorder does.
LEMMA SameSublist ==
    ASSUME NEW s, NEW K
    PROVE  Queue!Sublist(s, K) = Sublist(s, K)
<1>1. Queue!Cardinality(K) = Cardinality(K)
  BY DEF Queue!Cardinality, Cardinality
<1> QED BY <1>1 DEF Queue!Sublist, Queue!Ascending, Sublist, Ascending

\* Every change has grown to itself.
LEMMA GrownSame ==
    ASSUME NEW m \in Message
    PROVE  Queue!Grown(m, m)
BY DEF Queue!Grown, Message

\* A change that has grown twice has grown.
LEMMA GrownTwice ==
    ASSUME NEW a \in Message, NEW b \in Message, NEW c \in Message,
           Queue!Grown(a, b), Queue!Grown(b, c)
    PROVE  Queue!Grown(a, c)
BY DEF Queue!Grown, Message

\* A change that has grown is of the same kind and about the same item.
LEMMA GrownKeeps ==
    ASSUME NEW a \in Message, NEW b \in Message, Queue!Grown(a, b)
    PROVE  b.op = a.op /\ b.uid = a.uid
BY DEF Queue!Grown, Message

\* Merging the same change into a change lets it grow.
LEMMA GrownMerged ==
    ASSUME NEW a \in Message, NEW P \in SUBSET Part
    PROVE  /\ [a EXCEPT !.parts = @ \cup P] \in Message
           /\ Queue!Grown(a, [a EXCEPT !.parts = @ \cup P])
BY DEF Queue!Grown, Message

----------------------------------------------------------------------------
(* Compressing a list of notifications                                     *)

\* The changes of new that come from old are the first ones of new, in the
\* order they had; the other changes of old have been overtaken by a removal
\* that came later.  This is Extends, with the positions of the changes.
Follows(old, new) ==
    \E n \in 0 .. Len(new) : \E f \in [1 .. n -> DOMAIN old] :
        /\ \A i, j \in 1 .. n : i < j => f[i] < f[j]
        /\ \A i \in 1 .. n : Queue!Grown(old[f[i]], new[i])
        /\ \A k \in DOMAIN old :
               \/ \E i \in 1 .. n : f[i] = k
               \/ /\ old[k].op = "Modify"
                  /\ \E j \in n + 1 .. Len(new) : new[j].op = "Remove" /\ new[j].uid = old[k].uid

\* A list without new notifications follows itself.
LEMMA FollowsItself ==
    ASSUME NEW q \in Seq(Message)
    PROVE  Follows(q, q)
<1> DEFINE f == [i \in 1 .. Len(q) |-> i]
<1>1. Len(q) \in 0 .. Len(q) /\ DOMAIN q = 1 .. Len(q)
  OBVIOUS
<1>2. \A i \in 1 .. Len(q) : q[i] \in Message
  OBVIOUS
<1>3. /\ f \in [1 .. Len(q) -> DOMAIN q]
      /\ \A i, j \in 1 .. Len(q) : i < j => f[i] < f[j]
      /\ \A i \in 1 .. Len(q) : Queue!Grown(q[f[i]], q[i])
      /\ \A k \in DOMAIN q : \E i \in 1 .. Len(q) : f[i] = k
  BY <1>1, <1>2, GrownSame
<1> HIDE DEF f
<1> QED BY <1>1, <1>3 DEF Follows

\* A message that is merged into an earlier one, or appended: the removals
\* that were there stay, and the modifications a removal erases it overtakes.
LEMMA FollowsMerged ==
    ASSUME NEW old \in Seq(Message), NEW q \in Seq(Message), NEW new \in Seq(Message),
           Follows(old, q), Len(new) = Len(q),
           \A i \in 1 .. Len(q) : Queue!Grown(q[i], new[i])
    PROVE  Follows(old, new)
<1>0. PICK n \in 0 .. Len(q) : \E f \in [1 .. n -> DOMAIN old] :
        /\ \A i, j \in 1 .. n : i < j => f[i] < f[j]
        /\ \A i \in 1 .. n : Queue!Grown(old[f[i]], q[i])
        /\ \A k \in DOMAIN old :
               \/ \E i \in 1 .. n : f[i] = k
               \/ /\ old[k].op = "Modify"
                  /\ \E j \in n + 1 .. Len(q) : q[j].op = "Remove" /\ q[j].uid = old[k].uid
  BY Zenon DEF Follows
<1>1. PICK f \in [1 .. n -> DOMAIN old] :
        /\ \A i, j \in 1 .. n : i < j => f[i] < f[j]
        /\ \A i \in 1 .. n : Queue!Grown(old[f[i]], q[i])
        /\ \A k \in DOMAIN old :
               \/ \E i \in 1 .. n : f[i] = k
               \/ /\ old[k].op = "Modify"
                  /\ \E j \in n + 1 .. Len(q) : q[j].op = "Remove" /\ q[j].uid = old[k].uid
  BY <1>0, Zenon
<1>2. n \in 0 .. Len(new)
  OBVIOUS
<1>3. /\ \A i \in 1 .. Len(q) : q[i] \in Message /\ new[i] \in Message
      /\ \A k \in DOMAIN old : old[k] \in Message
  OBVIOUS
<1>4. ASSUME NEW i \in 1 .. n
      PROVE  Queue!Grown(old[f[i]], new[i])
  <2>1. i \in 1 .. Len(q) /\ f[i] \in DOMAIN old
    OBVIOUS
  <2> QED BY <1>1, <1>3, <2>1, GrownTwice
<1>5. ASSUME NEW k \in DOMAIN old, NEW j \in n + 1 .. Len(q),
             q[j].op = "Remove", q[j].uid = old[k].uid
      PROVE  new[j].op = "Remove" /\ new[j].uid = old[k].uid
  <2>1. j \in 1 .. Len(q)
    OBVIOUS
  <2> QED BY <1>3, <1>5, <2>1, GrownKeeps
<1>6. \A k \in DOMAIN old :
          \/ \E i \in 1 .. n : f[i] = k
          \/ /\ old[k].op = "Modify"
             /\ \E j \in n + 1 .. Len(new) : new[j].op = "Remove" /\ new[j].uid = old[k].uid
  BY <1>1, <1>5, Zenon
<1>7. \E g \in [1 .. n -> DOMAIN old] :
          /\ \A i, j \in 1 .. n : i < j => g[i] < g[j]
          /\ \A i \in 1 .. n : Queue!Grown(old[g[i]], new[i])
          /\ \A k \in DOMAIN old :
                 \/ \E i \in 1 .. n : g[i] = k
                 \/ /\ old[k].op = "Modify"
                    /\ \E j \in n + 1 .. Len(new) : new[j].op = "Remove" /\ new[j].uid = old[k].uid
  BY <1>1, <1>4, <1>6, Zenon
<1> QED BY <1>2, <1>7, Zenon DEF Follows

\* A list that grows at its end follows the old one.
LEMMA FollowsAppended ==
    ASSUME NEW old \in Seq(Message), NEW q \in Seq(Message), NEW m \in Message,
           Follows(old, q), NEW K \in SUBSET DOMAIN q,
           \A k \in DOMAIN q \ K : m.op = "Remove" /\ q[k].op = "Modify" /\ q[k].uid = m.uid,
           NEW kept \in Sublist(q, K)
    PROVE  Follows(old, Append(kept, m))
<1> DEFINE new == Append(kept, m)
           c   == Len(kept)
<1>0. PICK n \in 0 .. Len(q) : \E f \in [1 .. n -> DOMAIN old] :
        /\ \A i, j \in 1 .. n : i < j => f[i] < f[j]
        /\ \A i \in 1 .. n : Queue!Grown(old[f[i]], q[i])
        /\ \A k \in DOMAIN old :
               \/ \E i \in 1 .. n : f[i] = k
               \/ /\ old[k].op = "Modify"
                  /\ \E j \in n + 1 .. Len(q) : q[j].op = "Remove" /\ q[j].uid = old[k].uid
  BY Zenon DEF Follows
<1>1. PICK f \in [1 .. n -> DOMAIN old] :
        /\ \A i, j \in 1 .. n : i < j => f[i] < f[j]
        /\ \A i \in 1 .. n : Queue!Grown(old[f[i]], q[i])
        /\ \A k \in DOMAIN old :
               \/ \E i \in 1 .. n : f[i] = k
               \/ /\ old[k].op = "Modify"
                  /\ \E j \in n + 1 .. Len(q) : q[j].op = "Remove" /\ q[j].uid = old[k].uid
  BY <1>0, Zenon
<1>2. /\ kept \in Seq(Message) /\ c \in Nat
      /\ new \in Seq(Message) /\ Len(new) = c + 1
      /\ new[c + 1] = m /\ \A i \in 1 .. c : new[i] = kept[i]
  <2>1. kept \in Seq(Message)
    BY SublistType
  <2> QED BY <2>1, AppendProperties
<1>3. PICK g \in [1 .. c -> K] :
        /\ \A i \in 1 .. c : kept[i] = q[g[i]]
        /\ \A i, j \in 1 .. c : i < j => g[i] < g[j]
        /\ \A k \in K : \E i \in 1 .. c : g[i] = k
  BY SublistKeeps
<1>4. /\ DOMAIN q = 1 .. Len(q) /\ Len(q) \in Nat /\ n \in Nat
      /\ \A i \in 1 .. Len(q) : q[i] \in Message
      /\ \A i \in 1 .. c : g[i] \in 1 .. Len(q) /\ g[i] \in K
      /\ \A k \in DOMAIN old : old[k] \in Message
      /\ \A i \in 1 .. n : f[i] \in DOMAIN old
  <2>1. DOMAIN q = 1 .. Len(q) /\ Len(q) \in Nat /\ n \in Nat
    OBVIOUS
  <2>2. \A i \in 1 .. c : g[i] \in K
    OBVIOUS
  <2>3. (\A i \in 1 .. Len(q) : q[i] \in Message) /\ \A k \in DOMAIN old : old[k] \in Message
    OBVIOUS
  <2>4. \A i \in 1 .. n : f[i] \in DOMAIN old
    OBVIOUS
  <2> QED BY <2>1, <2>2, <2>3, <2>4
<1> DEFINE P == {i \in 1 .. c : g[i] <= n}
<1> HIDE DEF new, c
<1>5. PICK p \in 0 .. c : P = 1 .. p
  <2>1. \A i \in P : \A j \in 1 .. i : j \in P
    <3>1. ASSUME NEW i \in P, NEW j \in 1 .. i
          PROVE  j \in P
      <4>1. i \in 1 .. c /\ j \in 1 .. c /\ g[i] <= n
        BY <1>2
      <4>2. g[i] \in Nat /\ g[j] \in Nat /\ (i = j \/ g[j] < g[i])
        BY <1>3, <1>4, <4>1
      <4>3. g[j] <= n
        BY <1>4, <4>1, <4>2
      <4> QED BY <4>1, <4>3
    <3> QED BY <3>1
  <2> HIDE DEF P
  <2>2. P \in SUBSET (1 .. c)
    BY DEF P
  <2> QED BY <1>2, <2>1, <2>2, InitialPart
<1>6. \A i \in 1 .. c : g[i] <= n <=> i <= p
  <2>1. ASSUME NEW i \in 1 .. c
        PROVE  g[i] <= n <=> i <= p
    <3>1. i \in P <=> i \in 1 .. p
      BY <1>5
    <3> QED BY <1>2, <3>1
  <2> QED BY <2>1
<1> DEFINE h == [i \in 1 .. p |-> f[g[i]]]
<1>7. \A i \in 1 .. p : i \in 1 .. c /\ g[i] \in 1 .. n
  BY <1>2, <1>4, <1>6
<1>8. h \in [1 .. p -> DOMAIN old]
  BY <1>7
<1>9. \A i, j \in 1 .. p : i < j => h[i] < h[j]
  BY <1>1, <1>3, <1>7
<1>10. ASSUME NEW i \in 1 .. p
       PROVE  Queue!Grown(old[h[i]], new[i])
  <2>1. new[i] = q[g[i]] /\ h[i] = f[g[i]] /\ g[i] \in 1 .. n
    BY <1>2, <1>3, <1>7
  <2> QED BY <1>1, <2>1
<1>11. ASSUME NEW k \in DOMAIN old, NEW j \in n + 1 .. Len(q),
              q[j].op = "Remove", q[j].uid = old[k].uid
       PROVE  \E i \in p + 1 .. Len(new) : new[i].op = "Remove" /\ new[i].uid = old[k].uid
  <2>1. j \in DOMAIN q
    BY <1>4
  <2>2. j \in K
    BY <1>11, <2>1
  <2>3. PICK i \in 1 .. c : g[i] = j
    BY <1>3, <2>2
  <2>4. ~(g[i] <= n)
    BY <1>4, <2>3
  <2>5. i \in p + 1 .. Len(new)
    BY <1>2, <1>6, <2>4
  <2>6. new[i] = q[j]
    BY <1>2, <1>3, <2>3
  <2> QED BY <1>11, <2>5, <2>6
<1>12. ASSUME NEW k \in DOMAIN old, NEW a \in 1 .. n, f[a] = k, ~\E i \in 1 .. p : h[i] = k
       PROVE  /\ old[k].op = "Modify"
              /\ \E i \in p + 1 .. Len(new) : new[i].op = "Remove" /\ new[i].uid = old[k].uid
  <2>1. a \in 1 .. Len(q) /\ a \in DOMAIN q /\ a <= n
    BY <1>4
  <2>2. a \notin K
    <3>1. SUFFICES ASSUME a \in K PROVE FALSE
      OBVIOUS
    <3>2. PICK i \in 1 .. c : g[i] = a
      BY <1>3, <3>1
    <3>3. i <= p
      BY <1>6, <2>1, <3>2
    <3>4. i \in 1 .. p /\ h[i] = k
      BY <1>12, <3>2, <3>3
    <3> QED BY <1>12, <3>4
  <2>3. m.op = "Remove" /\ q[a].op = "Modify" /\ q[a].uid = m.uid
    BY <2>1, <2>2
  <2>4. Queue!Grown(old[k], q[a])
    BY <1>1, <1>12
  <2>5. q[a].op = old[k].op /\ q[a].uid = old[k].uid
    BY <1>4, <2>1, <2>4, GrownKeeps
  <2>6. c + 1 \in p + 1 .. Len(new) /\ new[c + 1] = m
    BY <1>2
  <2> QED BY <2>3, <2>5, <2>6
<1>13. \A k \in DOMAIN old :
           \/ \E i \in 1 .. p : h[i] = k
           \/ /\ old[k].op = "Modify"
              /\ \E i \in p + 1 .. Len(new) : new[i].op = "Remove" /\ new[i].uid = old[k].uid
  <2> HIDE DEF h
  <2> QED BY <1>1, <1>11, <1>12, Zenon
<1>14. p \in 0 .. Len(new)
  BY <1>2
<1> HIDE DEF h
<1>15. Follows(old, new)
  BY <1>8, <1>9, <1>10, <1>13, <1>14, Zenon DEF Follows
<1> QED BY <1>15 DEF new

\* One message of a list of notifications.
LEMMA FollowsCompressed ==
    ASSUME NEW old \in Seq(Message), NEW q \in Seq(Message), NEW m \in Message,
           Follows(old, q), NEW r \in Compressed(q, m)
    PROVE  Follows(old, r.queue)
<1> DEFINE Same(k) == [q[k] EXCEPT !.parts = m.parts] = m
           moot    == {k \in DOMAIN q :
                          /\ m.op = "Remove" /\ q[k].op = "Modify"
                          /\ q[k].uid = m.uid /\ q[k].from = m.from}
           merged  == [k \in DOMAIN q |-> IF Same(k) /\ \A j \in 1 .. k - 1 : ~Same(j)
                                          THEN [q[k] EXCEPT !.parts = @ \cup m.parts]
                                          ELSE q[k]]
<1>0. Compressed(q, m) = IF \E k \in DOMAIN q : Same(k)
                        THEN {[queue |-> merged, appended |-> FALSE]}
                        ELSE {[queue |-> Append(kept, m), appended |-> TRUE] :
                                  kept \in Sublist(q, DOMAIN q \ moot)}
  BY Zenon DEF Compressed
<1>1. CASE \E k \in DOMAIN q : Same(k)
  <2> HIDE DEF merged, Same
  <2>1. r = [queue |-> merged, appended |-> FALSE]
    BY <1>0, <1>1
  <2>2. m.parts \in SUBSET Part /\ \A k \in 1 .. Len(q) : q[k] \in Message
    <3>1. m.parts \in SUBSET Part
      BY DEF Message
    <3> QED BY <3>1
  <2>3. DOMAIN q = 1 .. Len(q)
    OBVIOUS
  <2>4. ASSUME NEW k \in 1 .. Len(q)
        PROVE  merged[k] \in Message /\ Queue!Grown(q[k], merged[k])
    <3>1. merged[k] = q[k] \/ merged[k] = [q[k] EXCEPT !.parts = @ \cup m.parts]
      BY <2>3 DEF merged
    <3>2. q[k] \in Message
      BY <2>2
    <3>3. CASE merged[k] = q[k]
      BY <3>2, <3>3, GrownSame
    <3>4. CASE merged[k] = [q[k] EXCEPT !.parts = @ \cup m.parts]
      BY <2>2, <3>2, <3>4, GrownMerged
    <3> QED BY <3>1, <3>3, <3>4
  <2>5. merged \in Seq(Message) /\ Len(merged) = Len(q)
    <3>1. merged = [k \in 1 .. Len(q) |-> merged[k]]
      BY <2>3 DEF merged
    <3>2. merged \in [1 .. Len(q) -> Message] /\ Len(q) \in Nat
      BY <2>4, <3>1
    <3> QED BY <3>2
  <2>6. Follows(old, merged)
    BY <2>4, <2>5, FollowsMerged
  <2> QED BY <2>1, <2>6
<1>2. CASE ~\E k \in DOMAIN q : Same(k)
  <2> HIDE DEF merged, Same
  <2>1. PICK kept \in Sublist(q, DOMAIN q \ moot) : r = [queue |-> Append(kept, m), appended |-> TRUE]
    BY <1>0, <1>2, Zenon
  <2> DEFINE K == DOMAIN q \ moot
  <2>2. /\ K \in SUBSET DOMAIN q
        /\ \A k \in DOMAIN q \ K : m.op = "Remove" /\ q[k].op = "Modify" /\ q[k].uid = m.uid
    OBVIOUS
  <2>3. kept \in Sublist(q, K)
    BY <2>1
  <2> HIDE DEF K
  <2>4. Follows(old, Append(kept, m))
    BY <2>2, <2>3, FollowsAppended
  <2> QED BY <2>1, <2>4
<1> QED BY <1>1, <1>2

\* What follows the changes of a queue is what it may become.
LEMMA FollowsExtends ==
    ASSUME NEW old \in Seq(Message), NEW new \in Seq(Message), Follows(old, new)
    PROVE  Queue!Extends(old, new)
<1>0. PICK n \in 0 .. Len(new) : \E f \in [1 .. n -> DOMAIN old] :
        /\ \A i, j \in 1 .. n : i < j => f[i] < f[j]
        /\ \A i \in 1 .. n : Queue!Grown(old[f[i]], new[i])
        /\ \A k \in DOMAIN old :
               \/ \E i \in 1 .. n : f[i] = k
               \/ /\ old[k].op = "Modify"
                  /\ \E j \in n + 1 .. Len(new) : new[j].op = "Remove" /\ new[j].uid = old[k].uid
  BY Zenon DEF Follows
<1>1. PICK f \in [1 .. n -> DOMAIN old] :
        /\ \A i, j \in 1 .. n : i < j => f[i] < f[j]
        /\ \A i \in 1 .. n : Queue!Grown(old[f[i]], new[i])
        /\ \A k \in DOMAIN old :
               \/ \E i \in 1 .. n : f[i] = k
               \/ /\ old[k].op = "Modify"
                  /\ \E j \in n + 1 .. Len(new) : new[j].op = "Remove" /\ new[j].uid = old[k].uid
  BY <1>0, Zenon
<1> DEFINE K     == {f[i] : i \in 1 .. n}
           kept  == [i \in 1 .. n |-> old[f[i]]]
           later == SubSeq(new, n + 1, Len(new))
<1>2. n \in Nat /\ Len(new) \in Nat /\ n <= Len(new) /\ K \in SUBSET DOMAIN old
      /\ DOMAIN old \in SUBSET Nat /\ f \in [1 .. n -> K]
      /\ \A k \in K : \E i \in 1 .. n : f[i] = k
  <2>1. n \in Nat /\ Len(new) \in Nat /\ n <= Len(new)
    OBVIOUS
  <2>2. DOMAIN old \in SUBSET Nat
    OBVIOUS
  <2>3. K \in SUBSET DOMAIN old /\ f \in [1 .. n -> K] /\ \A k \in K : \E i \in 1 .. n : f[i] = k
    OBVIOUS
  <2> QED BY <2>1, <2>2, <2>3
<1>3. kept \in Queue!Sublist(old, K)
  <2> HIDE DEF K
  <2>1. kept \in Sublist(old, K)
    BY <1>1, <1>2, SublistCounted
  <2> QED BY <2>1, SameSublist
<1>4. Len(kept) = n /\ DOMAIN kept = 1 .. n
  BY <1>2
<1>5. later \in Seq(Message) /\ Len(later) = Len(new) - n
      /\ \A i \in 1 .. Len(new) - n : later[i] = new[n + i]
  BY <1>2, SMTT(30)
<1>6. ASSUME NEW k \in DOMAIN old \ K
      PROVE  Queue!Overtaken(old[k], later)
  <2>1. ~\E i \in 1 .. n : f[i] = k
    OBVIOUS
  <2>2. /\ old[k].op = "Modify"
        /\ \E j \in n + 1 .. Len(new) : new[j].op = "Remove" /\ new[j].uid = old[k].uid
    BY <1>1, <2>1
  <2>3. PICK j \in n + 1 .. Len(new) : new[j].op = "Remove" /\ new[j].uid = old[k].uid
    BY <2>2
  <2> HIDE DEF later
  <2>4. j - n \in DOMAIN later /\ n + (j - n) = j /\ j - n \in 1 .. Len(new) - n
    BY <1>2, <1>5
  <2>5. later[j - n] = new[j]
    BY <1>5, <2>4
  <2> QED BY <2>2, <2>3, <2>4, <2>5 DEF Queue!Overtaken
<1>7. \A k \in DOMAIN kept : Queue!Grown(kept[k], new[k])
  BY <1>1, <1>4
<1>8. /\ Len(kept) <= Len(new)
      /\ \A k \in DOMAIN old \ K : Queue!Overtaken(old[k], SubSeq(new, Len(kept) + 1, Len(new)))
  BY <1>2, <1>4, <1>6
<1> HIDE DEF kept, K
<1> QED BY <1>2, <1>3, <1>7, <1>8, Zenon DEF Queue!Extends

----------------------------------------------------------------------------
(* The queue of a recorder                                                 *)

\* What the recorder's state stands for.
Changes == IF saving THEN pending ELSE Contents(file)

Filter == [signals |-> heard, watched |-> collections]

\* Inside slotNotify() the pending changes follow the recorded ones.
NotifyFollows == call = "notify" /\ configured => Follows(Contents(file), pending)

QInv == IInv /\ NotifyFollows

\* The recorded changes are the pending ones, except inside slotNotify() and
\* after quit().
LEMMA ChangesArePending ==
    ASSUME RecordsOK, configured
    PROVE  Changes = pending
BY DEF RecordsOK, Written, Changes

\* What leaves the records alone leaves the queue alone.
LEMMA ChangesUntouched ==
    ASSUME UNCHANGED <<pending, file, saving>>
    PROVE  Changes' = Changes
BY DEF Changes, Contents

\* The changes are a list of messages.
LEMMA ChangesType ==
    ASSUME IInv
    PROVE  Changes \in Seq(Message) /\ Contents(file) \in Seq(Message)
<1>1. pending \in Seq(Message) /\ file.msgs \in Seq(Message) /\ file.start \in Nat
  BY DEF IInv, RecordsTypeOK
<1>2. Contents(file) \in Seq(Message)
  BY <1>1 DEF Contents
<1> QED BY <1>1, <1>2 DEF Changes

\* Each change a list of notifications brings keeps the pending changes ones
\* that follow the recorded ones.
LEMMA NotifyOneFollows ==
    ASSUME QInv, NEW m \in Message, NotifyOne(m)
    PROVE  NotifyFollows'
<1>1. /\ ~saving /\ call \in {"none", "notify"}
      /\ UNCHANGED <<file, configured>>
  BY DEF NotifyOne, fileVars
<1> SUFFICES ASSUME configured
             PROVE  Follows(Contents(file), pending')
  BY <1>1 DEF NotifyFollows, Contents
<1>2. /\ pending \in Seq(Message) /\ Contents(file) \in Seq(Message)
      /\ collections \subseteq Collection
  BY ChangesType DEF QInv, IInv, RecordsTypeOK
<1>3. Follows(Contents(file), pending)
  <2>1. CASE call = "none"
    <3>1. Contents(file) = pending
      BY <1>1, <2>1 DEF QInv, IInv, Written
    <3> QED BY <1>2, <3>1, FollowsItself
  <2>2. CASE call = "notify"
    BY <2>2 DEF QInv, NotifyFollows
  <2> QED BY <1>1, <2>1, <2>2
<1>4. CASE Accepted(m)
  <2>1. PICK result \in TranslateAndCompress(pending, m) : pending' = result.queue
    BY <1>4, Zenon DEF NotifyOne
  <2>2. CASE IsIgnored(m)
    <3>1. result = [queue |-> pending, appended |-> FALSE]
      BY <2>2 DEF TranslateAndCompress
    <3> QED BY <1>3, <2>1, <3>1
  <2>3. CASE ~IsIgnored(m)
    <3>1. result \in Compressed(pending, Translated(m)) /\ Translated(m) \in Message
      BY <1>2, <2>3, TranslatedType DEF TranslateAndCompress
    <3> QED BY <1>2, <1>3, <2>1, <3>1, FollowsCompressed
  <2> QED BY <2>2, <2>3
<1>5. CASE ~Accepted(m)
  <2>1. pending' = pending
    BY <1>5 DEF NotifyOne
  <2> QED BY <1>3, <2>1
<1> QED BY <1>4, <1>5

\* Everything else ends outside slotNotify().
LEMMA StepFollows == QInv /\ [Next]_vars => QInv'
<1> SUFFICES ASSUME QInv, [Next]_vars PROVE QInv'
  OBVIOUS
<1>1. IInv'
  BY StepInv DEF QInv
<1> SUFFICES NotifyFollows'
  BY <1>1 DEF QInv
<1>2. ASSUME NEW m \in Message, NotifyOne(m) PROVE NotifyFollows'
  BY <1>2, NotifyOneFollows
<1>3. CASE Slots
  <2>1. FinishSave => call # "notify"
    BY DEF FinishSave, QInv, IInv, SlotOK
  <2>2. call' # "notify"
    BY <1>3, <2>1 DEF Slots, FinishSave, NotifyEnd, NothingToReplay, ReplayCached, ReplayLater,
                      FlushOne, FlushEnd
  <2> QED BY <2>2 DEF NotifyFollows
<1>4. CASE StartReplay \/ PostedReplay \/ FetchDone \/ ChangeProcessed
  BY <1>4 DEF StartReplay, PostedReplay, FetchDone, ChangeProcessed, NotifyFollows
<1>5. CASE \E c \in Collection : Unwatch(c)
  BY <1>5 DEF Unwatch, Idle, NotifyFollows
<1>6. CASE \E op \in Fickle : Disconnect(op)
  BY <1>6 DEF Disconnect, Idle, NotifyFollows
<1>7. CASE Quit
  BY <1>7 DEF Quit, NotifyFollows
<1>8. CASE Crash \/ Exit
  BY <1>8 DEF Crash, Exit, Restart, NotifyFollows
<1>9. CASE UNCHANGED vars
  BY <1>9 DEF vars, QInv, NotifyFollows, Contents
<1> QED BY <1>2, <1>3, <1>4, <1>5, <1>6, <1>7, <1>8, <1>9 DEF Next

----------------------------------------------------------------------------
(* The parts of the slots                                                  *)

\* Dequeuing takes the first change out of the queue, until quit() is done.
LEMMA DequeueTakes ==
    ASSUME RecordsOK, configured \in BOOLEAN, ~saving, pending # <<>>,
           configured' = configured, Dequeue
    PROVE  /\ configured => Changes = pending /\ Changes' = Tail(pending)
           /\ ~configured => Changes' = Changes /\ saving' = saving
<1>1. RecordsOK' /\ pending' = Tail(pending)
  BY DequeueKeeps DEF Dequeue
<1>2. CASE configured
  <2>1. Changes = pending
    BY <1>2, ChangesArePending
  <2>2. Changes' = pending'
    BY <1>1, <1>2 DEF RecordsOK, Written, Changes
  <2> QED BY <1>1, <1>2, <2>1, <2>2
<1>3. CASE ~configured
  <2>1. saving = FALSE /\ configured = FALSE
    BY <1>3 DEF RecordsOK
  <2>2. file' = file /\ (saving' = saving \/ saving' = configured)
    BY <1>3 DEF Dequeue, Save, fileVars
  <2> QED BY <2>1, <2>2 DEF Changes, Contents
<1> QED BY <1>2, <1>3

\* Erasing old notifications drops changes that are not wanted.
LEMMA CleanOldDrops ==
    ASSUME RecordsOK, configured \in BOOLEAN, ~saving, configured' = configured,
           NEW pl \in Seq(Message), NEW w, CleanOld(pl, w), Changes \in Seq(Message)
    PROVE  /\ Queue!Drop([signals |-> heard, watched |-> w])
           /\ ~configured => Changes' = Changes /\ saving' = saving
<1> DEFINE K == {k \in DOMAIN pending : AcceptedBy(heard, w, pending[k])}
           f == [signals |-> heard, watched |-> w]
<1>1. PICK rest \in Sublist(pending, K),
           left \in Sublist(pl, {k \in DOMAIN pl : AcceptedBy(heard, w, pl[k])}) :
        /\ pending' = rest
        /\ IF rest = pending /\ left = pl
           THEN UNCHANGED <<lastKnown, fileVars, saving>>
           ELSE Erased
  BY DEF CleanOld
<1>2. file' = file /\ (saving' = saving \/ saving' = configured)
  BY <1>1 DEF Erased, Save, fileVars
<1>3. CASE configured
  <2>1. Changes = pending
    BY <1>3, ChangesArePending
  <2>2. Changes' = rest
    <3>1. CASE rest = pending /\ left = pl
      <4>1. UNCHANGED <<pending, file, saving>>
        BY <1>1, <3>1 DEF fileVars
      <4> QED BY <2>1, <3>1, <4>1, ChangesUntouched
    <3>2. CASE ~(rest = pending /\ left = pl)
      <4>1. saving' = configured
        BY <1>1, <3>2 DEF Erased, Save
      <4> QED BY <1>1, <1>3, <4>1 DEF Changes
    <3> QED BY <3>1, <3>2
  <2>3. /\ K \in SUBSET DOMAIN Changes
        /\ \A k \in DOMAIN Changes \ K : ~WantedUnder(f, Changes[k])
    BY <2>1 DEF WantedUnder
  <2>4. Changes' \in Queue!Sublist(Changes, K)
    BY <2>1, <2>2, SameSublist
  <2> HIDE DEF K, f
  <2>5. Queue!Drop(f)
    BY <2>3, <2>4 DEF Queue!Drop, Changes
  <2> QED BY <1>3, <2>5 DEF f
<1>4. CASE ~configured
  <2>1. Changes' = Changes /\ saving' = saving
    <3>1. saving = FALSE /\ configured = FALSE
      BY <1>4 DEF RecordsOK
    <3> QED BY <1>2, <3>1 DEF Changes, Contents
  <2> HIDE DEF f
  <2>2. Queue!Drop(f)
    <3>1. Changes' \in Queue!Sublist(Changes, DOMAIN Changes)
      BY <2>1, SublistWhole, SameSublist
    <3> QED BY <3>1 DEF Queue!Drop, Changes
  <2> QED BY <2>1, <2>2 DEF f
<1> QED BY <1>3, <1>4

\* The queue does not see a step that changes nothing of it.
LEMMA Stutter ==
    ASSUME Changes' = Changes, UNCHANGED <<given, saving, configured, heard, collections>>
    PROVE  UNCHANGED Queue!vars
BY DEF Queue!vars, Changes

\* An emission gives the first change to the agent, or forgets changes.
LEMMA EmitGives ==
    ASSUME QInv, call # "notify", ~saving, given = NoChange,
           UNCHANGED <<configured, filterVars>>,
           NEW pl \in Seq(Message), NEW m \in Message, Emit(m, pl)
    PROVE  [Queue!Next]_Queue!vars
<1>1. RecordsOK /\ configured \in BOOLEAN /\ Changes \in Seq(Message)
  BY RecordsKept, ChangesType, OtherTypesKept DEF QInv, OtherTypes
<1>2. CASE m.op \in heard
  <2>1. given' = m /\ UNCHANGED <<pending, file, saving>>
    BY <1>2 DEF Emit, fileVars
  <2>2. Changes' = Changes
    BY <2>1, ChangesUntouched
  <2>3. Queue!Give
    BY <2>1, <2>2, NoChangeAssumption DEF Queue!Give, Changes, filterVars
  <2> QED BY <2>3 DEF Queue!Next
<1>3. CASE m.op \notin heard
  <2>1. CleanOld(pl, collections) /\ given' = given
    BY <1>3 DEF Emit
  <2>2. /\ Queue!Drop([signals |-> heard, watched |-> collections])
        /\ ~configured => Changes' = Changes /\ saving' = saving
    BY <1>1, <2>1, CleanOldDrops
  <2>3. CASE configured
    <3>1. Queue!Forget
      BY <2>1, <2>2, <2>3 DEF Queue!Forget, filterVars
    <3> QED BY <3>1 DEF Queue!Next
  <2>4. CASE ~configured
    BY <2>1, <2>2, <2>4, Stutter DEF filterVars
  <2> QED BY <1>1, <2>3, <2>4
<1> QED BY <1>2, <1>3

----------------------------------------------------------------------------
(* Every step of the recorder is a step of the queue, or none              *)

\* The end of a write leaves in the file what was to be written.
LEMMA FinishSaveImplements ==
    ASSUME QInv, FinishSave
    PROVE  [Queue!Next]_Queue!vars
<1>1. /\ saving /\ ~saving' /\ configured /\ call # "notify"
      /\ file' = [msgs |-> pending, start |-> 0, version |-> 1]
      /\ configured' = (call # "quit")
      /\ UNCHANGED <<pending, given, heard, collections>>
  BY DEF FinishSave, QInv, IInv, SlotOK, clientVars, filterVars
<1>2. Changes' = Changes
  <2>1. pending \in Seq(Message)
    BY DEF QInv, IInv, RecordsTypeOK
  <2>2. SubSeq(pending, 1, Len(pending)) = pending
    BY <2>1, SubSeqFull
  <2>3. Contents(file)' = pending
    BY <1>1, <2>2 DEF Contents
  <2> QED BY <1>1, <2>3 DEF Changes
<1>3. configured' \in {configured, FALSE}
  <2>1. configured = TRUE
    BY <1>1 DEF QInv, IInv, RecordsTypeOK
  <2> QED BY <1>1, <2>1
<1>4. Queue!Written
  BY <1>1, <1>2, <1>3 DEF Queue!Written, Changes
<1> QED BY <1>4 DEF Queue!Next

\* The end of a list of notifications records what came of it.
LEMMA NotifyEndImplements ==
    ASSUME QInv, NotifyEnd
    PROVE  [Queue!Next]_Queue!vars
<1>1. /\ call = "notify" /\ ~saving
      /\ UNCHANGED <<pending, file, configured, given, heard, collections>>
      /\ saving' = saving \/ saving' = configured
  BY DEF NotifyEnd, Enqueued, Save, fileVars, filterVars
<1>2. saving \in BOOLEAN /\ configured \in BOOLEAN /\ pending \in Seq(Message)
  BY DEF QInv, IInv, RecordsTypeOK
<1>3. CASE saving' = saving
  <2>1. Changes' = Changes
    BY <1>1, <1>3, ChangesUntouched
  <2> QED BY <1>1, <1>3, <2>1, Stutter
<1>4. CASE saving' # saving
  <2>1. configured /\ saving'
    BY <1>1, <1>2, <1>4
  <2>2. Changes = Contents(file) /\ Changes' = pending
    BY <1>1, <2>1 DEF Changes
  <2>3. Follows(Contents(file), pending)
    BY <1>1, <2>1 DEF QInv, NotifyFollows
  <2>4. Queue!Extends(Changes, Changes')
    BY <1>2, <2>2, <2>3, FollowsExtends, ChangesType DEF QInv
  <2>5. Queue!Record
    BY <1>1, <2>1, <2>4 DEF Queue!Record, Changes
  <2> QED BY <2>5 DEF Queue!Next
<1> QED BY <1>3, <1>4

\* A change nothing is to be replayed for is forgotten; any other waits.
LEMMA ReplayLaterImplements ==
    ASSUME QInv, ReplayLater
    PROVE  [Queue!Next]_Queue!vars
<1>1. /\ call = "replay" /\ ~saving /\ pending # <<>>
      /\ UNCHANGED <<configured, given, heard, collections>>
  BY DEF ReplayLater, clientVars, filterVars
<1>2. RecordsOK /\ configured \in BOOLEAN /\ pipeline = <<>> /\ collections \subseteq Collection
  BY <1>1, RecordsKept, OtherTypesKept, ReplayAlone DEF QInv, OtherTypes
<1>3. pending \in Seq(Message) /\ Head(pending) \in Message
  BY <1>1, <1>2 DEF RecordsOK
<1>4. PICK result \in TranslateAndCompress(pipeline, Head(pending)) :
          IF result.appended
          THEN UNCHANGED <<pending, lastKnown, fileVars, saving>>
          ELSE Dequeue
  BY DEF ReplayLater
<1>5. CASE result.appended
  <2>1. UNCHANGED <<pending, file, saving>>
    BY <1>4, <1>5 DEF fileVars
  <2>2. Changes' = Changes
    BY <2>1, ChangesUntouched
  <2> QED BY <1>1, <2>1, <2>2, Stutter
<1>6. CASE ~result.appended
  <2>1. IsIgnored(Head(pending))
    <3>1. SUFFICES ASSUME ~IsIgnored(Head(pending)) PROVE FALSE
      OBVIOUS
    <3> DEFINE m == Translated(Head(pending))
    <3>2. m \in Message
      BY <1>2, <1>3, <3>1, TranslatedType
    <3>3. result \in Compressed(<<>>, m)
      BY <1>2, <3>1 DEF TranslateAndCompress
    <3>4. <<>> \in Seq(Message)
      OBVIOUS
    <3> HIDE DEF m
    <3> QED BY <1>6, <3>2, <3>3, <3>4, CompressedType
  <2>2. /\ configured => Changes = pending /\ Changes' = Tail(pending)
        /\ ~configured => Changes' = Changes /\ saving' = saving
    BY <1>1, <1>2, <1>4, <1>6, DequeueTakes
  <2>3. CASE configured
    <3>1. Changes' \in Queue!Sublist(Changes, DOMAIN Changes \ {1})
      BY <1>1, <1>3, <2>2, <2>3, SublistTail, SameSublist
    <3>2. \A k \in DOMAIN Changes \ (DOMAIN Changes \ {1}) : ~WantedUnder(Filter, Changes[k])
      <4>1. ~WantedUnder(Filter, Head(pending))
        BY <2>1 DEF WantedUnder, Filter, IsIgnored
      <4>2. Head(pending) = pending[1]
        BY <1>1, <1>3
      <4> QED BY <2>2, <2>3, <4>1, <4>2
    <3>3. Queue!Drop(Filter)
      BY <3>1, <3>2, Zenon DEF Queue!Drop, Changes
    <3>4. Queue!Forget
      BY <1>1, <2>3, <3>3 DEF Queue!Forget, Filter
    <3> QED BY <3>4 DEF Queue!Next
  <2>4. CASE ~configured
    BY <1>1, <2>2, <2>4, Stutter
  <2> QED BY <1>2, <2>3, <2>4
<1> QED BY <1>5, <1>6

\* changeProcessed() takes the head away.
LEMMA ChangeProcessedImplements ==
    ASSUME QInv, ChangeProcessed
    PROVE  [Queue!Next]_Queue!vars
<1>1. /\ call \in {"none", "flush"} /\ ~saving
      /\ given # NoChange /\ given' = NoChange
      /\ IF pending # <<>> THEN Dequeue ELSE UNCHANGED <<pending, lastKnown, fileVars, saving>>
      /\ UNCHANGED <<configured, heard, collections>>
  BY DEF ChangeProcessed, filterVars
<1>2. RecordsOK /\ configured \in BOOLEAN
  BY <1>1, RecordsKept, OtherTypesKept DEF QInv, OtherTypes
<1>3. Changes' = IF configured /\ Changes # <<>> THEN Tail(Changes) ELSE Changes
  <2>1. CASE pending # <<>>
    <3>1. /\ configured => Changes = pending /\ Changes' = Tail(pending)
          /\ ~configured => Changes' = Changes /\ saving' = saving
      BY <1>1, <1>2, <2>1, DequeueTakes
    <3> QED BY <2>1, <3>1
  <2>2. CASE pending = <<>>
    <3>1. Changes' = Changes
      BY <1>1, <2>2, ChangesUntouched DEF fileVars
    <3>2. configured => Changes = pending
      BY <1>2, ChangesArePending
    <3> QED BY <2>2, <3>1, <3>2
  <2> QED BY <2>1, <2>2
<1>4. Queue!Answer
  BY <1>1, <1>3 DEF Queue!Answer, Changes
<1> QED BY <1>4 DEF Queue!Next

\* A collection nobody monitors any more takes its changes away.
LEMMA UnwatchImplements ==
    ASSUME QInv, NEW c \in Collection, Unwatch(c)
    PROVE  [Queue!Next]_Queue!vars
<1> DEFINE w == collections \ {c}
<1>1. /\ call = "none" /\ ~saving /\ c \in collections
      /\ collections' = w /\ heard' = heard
      /\ UNCHANGED <<configured, given>>
  BY DEF Unwatch, Idle, clientVars
<1>2. CleanOld(pipeline, w)
  BY DEF Unwatch
<1>3. RecordsOK /\ configured \in BOOLEAN /\ pipeline \in Seq(Message) /\ Changes \in Seq(Message)
  BY <1>1, RecordsKept, ChangesType, OtherTypesKept DEF QInv, OtherTypes
<1>4. w # collections
  BY <1>1
<1> HIDE DEF w
<1>5. Queue!Drop([signals |-> heard, watched |-> w])
  BY <1>1, <1>2, <1>3, CleanOldDrops
<1>6. Queue!Rewire
  BY <1>1, <1>4, <1>5 DEF Queue!Rewire
<1> QED BY <1>6 DEF Queue!Next

\* A signal nobody listens to any more takes its changes away.
LEMMA DisconnectImplements ==
    ASSUME QInv, NEW op, Disconnect(op)
    PROVE  [Queue!Next]_Queue!vars
<1> DEFINE h == heard \ {op}
           f == [signals |-> h, watched |-> collections]
<1>1. /\ ~saving /\ op \in heard /\ heard' = h
      /\ UNCHANGED <<pending, file, saving, configured, given, collections>>
  BY DEF Disconnect, Idle, clientVars, fileVars
<1>2. h # heard
  BY <1>1
<1> HIDE DEF h
<1>3. f # Filter
  BY <1>2 DEF Filter
<1> HIDE DEF f
<1>4. Changes' = Changes /\ Changes \in Seq(Message)
  BY <1>1, ChangesUntouched, ChangesType DEF QInv
<1>5. Changes' \in Queue!Sublist(Changes, DOMAIN Changes)
  BY <1>4, SublistWhole, SameSublist
<1>6. Queue!Drop(f)
  BY <1>5 DEF Queue!Drop, Changes
<1>7. Queue!Rewire
  BY <1>1, <1>3, <1>6 DEF Queue!Rewire, Filter, f
<1> QED BY <1>7 DEF Queue!Next

\* quit() writes the queue as it is once more.
LEMMA QuitImplements ==
    ASSUME QInv, Quit
    PROVE  [Queue!Next]_Queue!vars
<1>1. /\ call = "none" /\ ~saving /\ configured /\ saving' = configured
      /\ UNCHANGED <<pending, file, configured, given, heard, collections>>
  BY DEF Quit, Idle, Save, fileVars, clientVars, filterVars
<1>2. Changes = pending /\ Changes' = pending
  <2>1. RecordsOK
    BY <1>1, RecordsKept DEF QInv
  <2> QED BY <1>1, <2>1, ChangesArePending DEF Changes
<1>3. Queue!Rewrite
  BY <1>1, <1>2 DEF Queue!Rewrite, Changes
<1> QED BY <1>3 DEF Queue!Next

\* What a restart finds is the queue, or a prefix of it.
LEMMA RestartImplements ==
    ASSUME QInv, NEW f, Restart(f), NEW n \in 0 .. Len(Changes), ~saving => n = Len(Changes),
           Contents(f) = SubSeq(Changes, 1, n)
    PROVE  [Queue!Next]_Queue!vars
<1>1. /\ file' = f /\ given' = NoChange /\ configured' /\ ~saving'
      /\ UNCHANGED <<heard, collections>>
  BY DEF Restart, filterVars
<1>2. Changes' = SubSeq(Changes, 1, n)
  BY <1>1 DEF Changes, Contents
<1>3. Queue!Restart
  BY <1>1, <1>2 DEF Queue!Restart, Changes
<1> QED BY <1>3 DEF Queue!Next

\* A crash brings back what is durable.
LEMMA CrashImplements ==
    ASSUME QInv, Crash \/ Exit
    PROVE  [Queue!Next]_Queue!vars
<1>1. PICK f \in OnDisk : Restart(f)
  BY DEF Crash, Exit, OnDisk
<1>2. Changes \in Seq(Message)
  BY ChangesType DEF QInv
<1>3. \E n \in 0 .. Len(Changes) :
          (~saving => n = Len(Changes)) /\ Contents(f) = SubSeq(Changes, 1, n)
  <2>1. CASE ~saving
    <3>1. Contents(f) = Changes
      BY <1>1, <2>1 DEF OnDisk, Changes
    <3>2. SubSeq(Changes, 1, Len(Changes)) = Changes /\ Len(Changes) \in 0 .. Len(Changes)
      BY <1>2, SubSeqFull
    <3> QED BY <3>1, <3>2
  <2>2. CASE saving /\ f = [msgs |-> <<>>, start |-> 0, version |-> 0]
    <3>1. Contents(f) = <<>>
      BY <2>2 DEF Contents
    <3>2. SubSeq(Changes, 1, 0) = <<>> /\ 0 \in 0 .. Len(Changes)
      BY <1>2
    <3> QED BY <2>2, <3>1, <3>2
  <2>3. CASE saving /\ f # [msgs |-> <<>>, start |-> 0, version |-> 0]
    <3>1. Changes = pending
      BY <2>3 DEF Changes
    <3>2. PICK k \in 0 .. Len(pending) :
                   f = [msgs |-> SubSeq(pending, 1, k), start |-> 0, version |-> 1]
      BY <1>1, <2>3 DEF OnDisk
    <3> DEFINE s == SubSeq(pending, 1, k)
    <3>3. s \in Seq(Message)
      BY <1>2, <3>1
    <3>4. SubSeq(s, 1, Len(s)) = s
      <4> HIDE DEF s
      <4> QED BY <3>3, SubSeqFull
    <3>5. Contents(f) = s
      BY <3>2, <3>4 DEF Contents
    <3> QED BY <2>3, <3>1, <3>5
  <2> QED BY <2>1, <2>2, <2>3
<1> QED BY <1>1, <1>3, RestartImplements

\* What does not touch the queue, the agent or the filter is no step of it.
LEMMA OthersImplement ==
    ASSUME QInv,
           \/ \E m \in Message : NotifyOne(m)
           \/ NothingToReplay \/ FlushEnd \/ StartReplay \/ PostedReplay \/ FetchDone
           \/ UNCHANGED vars
    PROVE  [Queue!Next]_Queue!vars
<1>1. CASE UNCHANGED vars
  BY <1>1, ChangesUntouched, Stutter DEF vars
<1>2. ASSUME NEW m \in Message, NotifyOne(m)
      PROVE  Changes' = Changes /\ UNCHANGED <<given, saving, configured, heard, collections>>
  BY <1>2 DEF NotifyOne, QInv, IInv, Changes, Contents, fileVars, filterVars, clientVars
<1>3. CASE NothingToReplay \/ FlushEnd \/ StartReplay \/ PostedReplay \/ FetchDone
  <2>1. UNCHANGED <<pending, file, given, saving, configured, heard, collections>>
    BY <1>3 DEF NothingToReplay, FlushEnd, StartReplay, PostedReplay, FetchDone, fileVars,
                filterVars, clientVars
  <2> QED BY <2>1, ChangesUntouched, Stutter
<1> QED BY <1>1, <1>2, <1>3, Stutter

\* Every step of the recorder is a step of the abstract queue, or none.
LEMMA StepImplements == QInv /\ [Next]_vars => [Queue!Next]_Queue!vars
<1> SUFFICES ASSUME QInv, [Next]_vars PROVE [Queue!Next]_Queue!vars
  OBVIOUS
<1>1. CASE ReplayCached
  <2>1. /\ call = "replay" /\ ~saving /\ pending # <<>>
        /\ Emit(Head(pending), pipeline)
        /\ UNCHANGED <<configured, filterVars>>
    BY <1>1 DEF ReplayCached
  <2>2. given = NoChange /\ pipeline \in Seq(Message) /\ Head(pending) \in Message
    <3>1. pending \in Seq(Message)
      BY DEF QInv, IInv, RecordsTypeOK
    <3>2. Head(pending) \in Message
      BY <2>1, <3>1
    <3> QED BY <2>1, <3>2, ReplayAlone, OtherTypesKept DEF QInv, OtherTypes
  <2> QED BY <2>1, <2>2, EmitGives
<1>2. CASE FlushOne
  <2>1. /\ call = "flush" /\ ~saving /\ pipeline # <<>>
        /\ Emit(Head(pipeline), Tail(pipeline))
        /\ UNCHANGED <<configured, filterVars>>
    BY <1>2 DEF FlushOne
  <2>2. OtherTypes /\ Head(pipeline) \in Message /\ Tail(pipeline) \in Seq(Message)
        /\ Len(pipeline) > 0 /\ Len(pipeline) \in Nat /\ posted \in Nat
    <3>1. OtherTypes /\ pipeline \in Seq(Message) /\ posted \in Nat
      BY OtherTypesKept DEF QInv, OtherTypes
    <3> QED BY <2>1, <3>1
  <2>3. given = NoChange
    BY <2>1, <2>2 DEF QInv, IInv, OneInHand, Tokens, OtherTypes
  <2> QED BY <2>1, <2>2, <2>3, EmitGives
<1>3. CASE Slots
  BY <1>1, <1>2, <1>3, FinishSaveImplements, NotifyEndImplements, ReplayLaterImplements,
     OthersImplement DEF Slots
<1>4. CASE ChangeProcessed
  BY <1>4, ChangeProcessedImplements
<1>5. ASSUME NEW c \in Collection, Unwatch(c) PROVE [Queue!Next]_Queue!vars
  BY <1>5, UnwatchImplements
<1>6. ASSUME NEW op \in Fickle, Disconnect(op) PROVE [Queue!Next]_Queue!vars
  BY <1>6, DisconnectImplements
<1>7. CASE Quit
  BY <1>7, QuitImplements
<1>8. CASE Crash \/ Exit
  BY <1>8, CrashImplements
<1> QED BY <1>3, <1>4, <1>5, <1>6, <1>7, <1>8, OthersImplement DEF Next

----------------------------------------------------------------------------
(* The theorems                                                            *)

\* Inside slotNotify() the pending changes follow the recorded ones: what is
\* compressed before the list ends loses none of them.
THEOREM CompressionFollows == Spec => []NotifyFollows
<1>1. Init => QInv
  BY InitInv DEF Init, QInv, NotifyFollows
<1>2. QInv /\ [Next]_vars => QInv'
  BY StepFollows
<1>3. QInv => NotifyFollows
  BY DEF QInv
<1> QED BY <1>1, <1>2, <1>3, PTL DEF Spec

\* A ChangeRecorder is a durable queue: whatever is compressed, dequeued,
\* cleaned or rewritten in the file, a restart finds every change that was
\* recorded and not answered; only one in the middle of a write loses some.
THEOREM RecorderIsDurable == Spec => Durable
<1>1. Init => QInv
  BY InitInv DEF Init, QInv, NotifyFollows
<1>2. QInv /\ [Next]_vars => QInv'
  BY StepFollows
<1>3. Init => Queue!Init
  BY DEF Init, Queue!Init, Contents
<1>4. QInv /\ [Next]_vars => [Queue!Next]_Queue!vars
  BY StepImplements
<1> QED BY <1>1, <1>2, <1>3, <1>4, PTL DEF Spec, Durable, Queue!Spec
=============================================================================
