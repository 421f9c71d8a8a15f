---------------------------- MODULE ShuffleReduce ----------------------------
(***************************************************************************)
(* What travels through a shuffle.  TaskGraph says which tasks PartitionBy,*)
(* RangeReduceBy and ReduceBy create; this module says what their closures *)
(* do with the records: serialize routes the records of one partition into *)
(* one message per destination, the network moves the messages in any      *)
(* order, and deserialize, which waits for one message of every sender,    *)
(* collects the records of a destination and, but for PartitionBy, sorts   *)
(* them and merges those of equal key in place.                            *)
(*                                                                         *)
(* The value of a record is the bag of the ids of the records it was made  *)
(* of, and the user's combiner is bag union: what a lost, repeated or      *)
(* misrouted record changes in any result shows in the bags.               *)
(***************************************************************************)
EXTENDS SequencesExt

CONSTANTS Senders,        \* the partitions of the dataset that is shuffled
          NumPartitions,  \* the number of partitions of the result
          Key,            \* keys are numbers: the closures sort by key
          Hash,           \* std::hash, or the key_hash of RangeReduceBy
          MaxRecords,     \* bound on the records of a partition
          MaxTotal        \* bound on the records of the dataset

ASSUME ShuffleAssumption ==
  /\ IsFiniteSet(Senders)
  /\ NumPartitions \in Nat \ {0}
  /\ Key \subseteq Nat
  /\ Hash \in [Key -> Nat]
  /\ MaxRecords \in Nat
  /\ MaxTotal \in Nat

VARIABLES kind,      \* the dataset operation
          input,     \* the partitions of the dataset
          message,   \* what the serialize shards have put into the store
          shuffled,  \* for every destination, the messages received, in order
          result     \* what the deserialize shards have put into the store

vars == <<kind, input, message, shuffled, result>>

Dest == 0..(NumPartitions - 1)

-----------------------------------------------------------------------------
(* The closures. *)

Slot(key) == Hash[key] % NumPartitions

\* What std::sort may make of the records: records of equal key are in any order.
Sortings(records) ==
  LET orders == {[i \in DOMAIN records |-> records[p[i]]] :
                   p \in Bijection(DOMAIN records, DOMAIN records)}
  IN {q \in orders : \A i, j \in DOMAIN q : i < j => q[i].key <= q[j].key}

Merge(a, b) == [a EXCEPT !.val = @ (+) b.val]

\* Mutant of Routed: records go by their key, not by its hash.
RoutedByKey(records, d) == SelectSeq(records, LAMBDA r : r.key % NumPartitions = d)

\* The records for destination d, in the order they have in the partition.
Routed(records, d) ==
  LET buffer[i \in 0..Len(records)] ==
        IF i = 0 THEN <<>>
        ELSE IF Slot(records[i].key) = d THEN Append(buffer[i - 1], records[i])
                                         ELSE buffer[i - 1]
  IN buffer[Len(records)]

(***************************************************************************)
(* ReduceBy combines before it sends.  buf is the sorted local buffer, cur *)
(* the index that records of the current key are merged into, out what has *)
(* been written to the message.                                            *)
(***************************************************************************)
CombineStep(st, i) ==
  IF st.buf[i].key = st.buf[st.cur].key
    THEN [st EXCEPT !.buf[st.cur] = Merge(@, st.buf[i])]
    ELSE [st EXCEPT !.out = Append(@, st.buf[st.cur]), !.cur = i]

Combined(sorted) ==
  LET turn[i \in 1..Len(sorted)] ==
        IF i = 1 THEN [buf |-> sorted, cur |-> 1, out |-> <<>>]
                 ELSE CombineStep(turn[i - 1], i)
      last == turn[Len(sorted)]
  IN IF sorted = <<>> THEN <<>> ELSE Append(last.out, last.buf[last.cur])

(***************************************************************************)
(* The reducer merges in place: count results have been moved to the front *)
(* of data, and the vector is cut to count at the end.                     *)
(***************************************************************************)

\* Mutant of CompactStep: the group that ends at i is not moved to the front.
CompactStepNotMoved(st, i) ==
  IF st.data[i].key = st.data[st.cur].key
    THEN [st EXCEPT !.data[st.cur] = Merge(@, st.data[i])]
    ELSE [st EXCEPT !.cur = i, !.count = @ + 1]

CompactStep(st, i) ==
  IF st.data[i].key = st.data[st.cur].key
    THEN [st EXCEPT !.data[st.cur] = Merge(@, st.data[i])]
    ELSE [st EXCEPT !.data[st.count + 1] = st.data[st.cur],
                    !.cur = i,
                    !.count = @ + 1]

Reduced(sorted) ==
  LET turn[i \in 1..Len(sorted)] ==
        IF i = 1 THEN [data |-> sorted, cur |-> 1, count |-> 0]
                 ELSE CompactStep(turn[i - 1], i)
      last == turn[Len(sorted)]
  IN IF sorted = <<>> THEN <<>>
     ELSE [j \in 1..(last.count + 1) |-> last.data[IF j <= last.count THEN j ELSE last.cur]]

-----------------------------------------------------------------------------
(* The tasks. *)

\* What may be in the message of sender s for d.
Streams(s, d) ==
  LET buffer == Routed(input[s], d)
  IN IF kind = "ReduceBy" THEN {Combined(q) : q \in Sortings(buffer)} ELSE {buffer}

\* The serialize shard of sender s.
Serialize(s) ==
  /\ s \notin DOMAIN message
  /\ \E streams \in [Dest -> UNION {Streams(s, d) : d \in Dest}] :
       /\ \A d \in Dest : streams[d] \in Streams(s, d)
       /\ message' = [t \in DOMAIN message \cup {s} |-> IF t = s THEN streams ELSE message[t]]
  /\ UNCHANGED <<kind, input, shuffled, result>>

Received(s, d) == \E i \in DOMAIN shuffled[d] : shuffled[d][i].from = s

\* The network task takes the message of s for d to the process of d.
Transfer(s, d) ==
  /\ s \in DOMAIN message /\ ~Received(s, d)
  /\ shuffled' = [shuffled EXCEPT ![d] =
                    Append(@, [from |-> s, stream |-> message[s][d]])]
  /\ UNCHANGED <<kind, input, message, result>>

\* Aggregate: deserialize waits for all the instances of the network task.
Arrived(d) == \A s \in Senders : Received(s, d)

\* What may be made of the records that d receives.
Returns(d) ==
  LET records == FlattenSeq([i \in DOMAIN shuffled[d] |-> shuffled[d][i].stream])
  IN IF kind = "PartitionBy" THEN {records} ELSE {Reduced(q) : q \in Sortings(records)}

\* Mutant of Deserialize: nothing is inserted if nothing was received.
DeserializeNonEmpty(d) ==
  /\ d \notin DOMAIN result /\ Arrived(d)
  /\ \E ret \in Returns(d) :
       result' = IF ret = <<>> THEN result
                 ELSE [e \in DOMAIN result \cup {d} |-> IF e = d THEN ret ELSE result[e]]
  /\ shuffled' = [shuffled EXCEPT ![d] = [i \in DOMAIN @ |-> [@[i] EXCEPT !.stream = <<>>]]]
  /\ UNCHANGED <<kind, input, message>>

\* The deserialize shard d; reading a stream to its end leaves it empty.
Deserialize(d) ==
  /\ d \notin DOMAIN result /\ Arrived(d)
  /\ \E ret \in Returns(d) :
       result' = [e \in DOMAIN result \cup {d} |-> IF e = d THEN ret ELSE result[e]]
  /\ shuffled' = [shuffled EXCEPT ![d] = [i \in DOMAIN @ |-> [@[i] EXCEPT !.stream = <<>>]]]
  /\ UNCHANGED <<kind, input, message>>

Finished == DOMAIN result = Dest

\* A dataset of records with distinct ids, of any keys.
Datasets ==
  LET keys == {ks \in [Senders -> BoundedSeq(Key, MaxRecords)] :
                 MapThenSumSet(LAMBDA s : Len(ks[s]), Senders) <= MaxTotal}
  IN {[s \in Senders |->
         [i \in DOMAIN ks[s] |-> [key |-> ks[s][i], val |-> SetToBag({<<s, i>>})]]] :
       ks \in keys}

Init ==
  /\ kind \in {"PartitionBy", "RangeReduceBy", "ReduceBy"}
  /\ input \in Datasets
  /\ message = [s \in {} |-> <<>>]
  /\ shuffled = [d \in Dest |-> <<>>]
  /\ result = [d \in {} |-> <<>>]

Next ==
  \/ \E s \in Senders : Serialize(s)
  \/ \E s \in Senders, d \in Dest : Transfer(s, d)
  \/ \E d \in Dest : Deserialize(d)

(* The shards of all three tasks are run, and every message is delivered. *)
Spec == Init /\ [][Next]_vars /\ WF_vars(Next)

-----------------------------------------------------------------------------
(***************************************************************************)
(* At any moment every record of the dataset is in one place: in the       *)
(* partition of a sender that has not run yet, in a message under way, in  *)
(* one received, or in the result; none is lost and none is there twice.   *)
(***************************************************************************)
Ids == UNION {{<<s, i>> : i \in DOMAIN input[s]} : s \in Senders}

\* The records there are, each with its place.
At(place, records) ==
  {[place |-> place, at |-> i, val |-> records[i].val] : i \in DOMAIN records}
Waiting(s) == At(<<"waiting", s>>, input[s])
OnTheWay(s, d) == At(<<"on the way", s, d>>, message[s][d])
Collected(d, i) == At(<<"collected", d, i>>, shuffled[d][i].stream)
Returned(d) == At(<<"returned", d>>, result[d])

Occurrences ==
  (UNION {Waiting(s) : s \in Senders \ DOMAIN message})
  \cup (UNION {UNION {OnTheWay(s, d) : d \in {e \in Dest : ~Received(s, e)}} : s \in DOMAIN message})
  \cup (UNION {UNION {Collected(d, i) : i \in DOMAIN shuffled[d]} : d \in Dest})
  \cup (UNION {Returned(d) : d \in DOMAIN result})

NothingLostOrRepeated ==
  LET occurrences == Occurrences
  IN /\ \A o \in occurrences : o.val = SetToBag(BagToSet(o.val)) /\ BagToSet(o.val) \subseteq Ids
     /\ \A x \in Ids : Cardinality({o \in occurrences : BagIn(x, o.val)}) = 1

(***************************************************************************)
(* The partitions of the result are those of a grouping by key, whatever   *)
(* the order in which the messages arrive.                                 *)
(***************************************************************************)
BagOf(records) ==
  [r \in ToSet(records) |-> Cardinality({i \in DOMAIN records : records[i] = r})]

Groups == INSTANCE GroupByKey
            WITH Owner   <- Slot,
                 merging <- kind # "PartitionBy",
                 records <- SetToBag(UNION {ToSet(input[s]) : s \in Senders}),
                 parts   <- [d \in DOMAIN result |-> BagOf(result[d])]

GroupsSpec == Groups!Spec

\* Every partition of the result is eventually there, the empty ones too.
AllPartitionsAppear == <>Finished
=============================================================================
