---------------------------- MODULE AgentSession_proofs ----------------------------
(***************************************************************************)
(* Proofs about AgentSession, for every number of calls, sessions, turns   *)
(* and crashes, every budget and price, and contexts of every length.      *)
(*                                                                         *)
(* A context is a sequence that grows, is cut and is filtered.  The first  *)
(* part says what these operations do to the set of its messages and to    *)
(* the answers its tool calls have; after it the proofs of the invariants  *)
(* speak of these only.                                                    *)
(***************************************************************************)
EXTENDS AgentSession, SequenceTheorems, FiniteSetTheorems, FunctionTheorems,
        WellFoundedInduction, TLAPS

-------------------------------------------------------------------------------
(* Sets of natural numbers *)

\* A set of natural numbers that is not empty has a least member, ...
LEMMA LeastNat ==
    ASSUME NEW T \in SUBSET Nat, T # {}
    PROVE  \E n \in T : \A m \in T : n <= m
<1> DEFINE R == OpToRel(<, Nat)
<1>1. \A m, n \in Nat : m < n => <<m, n>> \in R
  BY DEF OpToRel
<1>2. IsWellFoundedOn(R, Nat)
  BY NatLessThanWellFounded
<1> HIDE DEF R
<1>3. \E n \in T : \A m \in T : <<m, n>> \notin R
  BY <1>2, WFMin, Zenon
<1>4. PICK n \in T : \A m \in T : <<m, n>> \notin R
  BY <1>3
<1>5. ASSUME NEW m \in T PROVE n <= m
  <2>1. m \in Nat /\ n \in Nat
    OBVIOUS
  <2>2. ~(m < n)
    BY <1>1, <1>4, <2>1
  <2> QED
    BY <2>1, <2>2
<1> QED
  BY <1>5

\* ... and a greatest one when it has a bound.
LEMMA GreatestNat ==
    ASSUME NEW T \in SUBSET Nat, T # {}, NEW b \in Nat, \A n \in T : n <= b
    PROVE  \E n \in T : \A m \in T : m <= n
<1> DEFINE B == {k \in Nat : \A n \in T : n <= k}
<1>1. PICK k \in B : \A m \in B : k <= m
  BY LeastNat, b \in B
<1>2. ASSUME k \notin T PROVE FALSE
  <2>1. \A n \in T : n <= k - 1
    BY <1>1, <1>2
  <2>2. k - 1 \in Nat
    <3>1. PICK n \in T : TRUE
      OBVIOUS
    <3> QED
      BY <2>1, <3>1
  <2> QED
    BY <1>1, <2>1, <2>2
<1> QED
  BY <1>1, <1>2

-------------------------------------------------------------------------------
(* Contexts *)

USE DEF Conversation

\* Latest returns a position of the set, and none of the set is later.
LEMMA LatestIsLast ==
    ASSUME NEW s \in Conversation, NEW is \in SUBSET (1 .. Len(s)), is # {}
    PROVE  Latest(is) \in is /\ \A j \in is : j <= Latest(is)
<1>1. Len(s) \in Nat /\ is \in SUBSET Nat /\ \A i \in is : i <= Len(s)
  OBVIOUS
<1>2. \E i \in is : \A j \in is : j <= i
  BY <1>1, GreatestNat
<1> QED
  BY <1>2 DEF Latest

LEMMA MsgIsMessage ==
    ASSUME NEW c \in Calls, NEW t \in Nat, NEW k \in Kinds
    PROVE  Msg(c, t, k) \in Message /\ Msg(c, t, k).kind = k
           /\ Msg(c, t, k).by = c /\ Msg(c, t, k).turn = t
BY DEF Msg, Message

\* The messages of a context, and what each operation does to them.
LEMMA AppendSaves ==
    ASSUME NEW s \in Conversation, NEW m \in Message
    PROVE  Append(s, m) \in Conversation /\ SavedOf(Append(s, m)) = SavedOf(s) \cup {m}
<1>1. /\ Append(s, m) \in Conversation /\ Len(Append(s, m)) = Len(s) + 1
      /\ \A i \in 1 .. Len(s) : Append(s, m)[i] = s[i]
      /\ Append(s, m)[Len(s) + 1] = m
  BY AppendProperties
<1>2. Len(s) \in Nat /\ 1 .. Len(s) + 1 = (1 .. Len(s)) \cup {Len(s) + 1}
  OBVIOUS
<1> QED
  BY <1>1, <1>2 DEF SavedOf

LEMMA EmptySaves == <<>> \in Conversation /\ SavedOf(<<>>) = {}
BY DEF SavedOf

LEMMA SavedAreMessages ==
    ASSUME NEW s \in Conversation
    PROVE  /\ SavedOf(s) \subseteq Message
           /\ \A m : In(m, s) <=> m \in SavedOf(s)
BY DEF SavedOf, In

\* The end of a transcript that a compaction keeps.
LEMMA SuffixIsSeq ==
    ASSUME NEW s \in Conversation, Len(s) > Keep
    PROVE  LET b == Len(s) - Keep
               e == SubSeq(s, b + 1, Len(s)) IN
           /\ b \in Nat /\ e \in Conversation /\ Len(e) = Keep
           /\ \A i \in 1 .. Len(e) : e[i] = s[b + i]
           /\ SavedOf(e) \subseteq SavedOf(s)
<1> DEFINE b == Len(s) - Keep
           e == SubSeq(s, b + 1, Len(s))
<1>1. b \in Nat /\ Len(s) \in Nat /\ Keep \in Nat \ {0}
  BY LimitsAssumption
<1>2. /\ e \in Conversation /\ Len(e) = Len(s) - (b + 1) + 1
      /\ \A i \in 1 .. Len(s) - (b + 1) + 1 : e[i] = s[(b + 1) + i - 1]
  BY <1>1, SubSeqProperties
<1>3. Len(e) = Keep /\ \A i \in 1 .. Keep : e[i] = s[b + i]
  BY <1>1, <1>2
<1>4. SavedOf(e) \subseteq SavedOf(s)
  BY <1>1, <1>3 DEF SavedOf
<1> QED
  BY <1>1, <1>2, <1>3, <1>4

\* Retained has exactly the messages of s that the assistant did not write: the rank of a
\* kept position among the kept ones is a bijection onto the positions of the result.
LEMMA RetainedSaves ==
    ASSUME NEW s \in Conversation
    PROVE  /\ Retained(s) \in Conversation
           /\ SavedOf(Retained(s)) = {m \in SavedOf(s) : m.kind \notin Assistant}
<1> DEFINE kept == {i \in 1 .. Len(s) : s[i].kind \notin Assistant}
           upto(i) == {j \in kept : j <= i}
           size == Cardinality(kept)
           r(i) == Cardinality(upto(i))
           Nth(n) == CHOOSE i \in kept : r(i) = n
           rank == [i \in kept |-> r(i)]
<1>1. /\ kept \subseteq 1 .. Len(s) /\ Len(s) \in Nat
      /\ IsFiniteSet(kept) /\ size \in Nat
  <2>1. IsFiniteSet(1 .. Len(s))
    BY FS_Interval
  <2> QED
    BY <2>1, FS_Subset, FS_CardinalityType
<1>2. ASSUME NEW i \in kept
      PROVE  IsFiniteSet(upto(i)) /\ r(i) \in 1 .. size /\ r(i) \in Nat
  <2>1. upto(i) \subseteq kept /\ {i} \subseteq upto(i)
    BY <1>1
  <2>2. IsFiniteSet(upto(i)) /\ Cardinality(upto(i)) <= size /\ Cardinality(upto(i)) \in Nat
    BY <1>1, <2>1, FS_Subset, FS_CardinalityType
  <2>3. Cardinality(upto(i)) # 0
    BY <2>1, <2>2, FS_EmptySet
  <2> QED
    BY <1>1, <2>2, <2>3
<1>3. ASSUME NEW i \in kept, NEW j \in kept, i < j
      PROVE  r(i) < r(j)
  <2>1. upto(i) \subseteq upto(j) /\ j \in upto(j) /\ j \notin upto(i)
    BY <1>1, <1>3
  <2>2. r(i) <= r(j) /\ r(i) # r(j)
    BY <1>2, <2>1, FS_Subset
  <2>3. r(i) \in Nat /\ r(j) \in Nat
    BY <1>2
  <2> HIDE DEF r
  <2> QED
    BY <2>2, <2>3
<1>4. rank \in Injection(kept, 1 .. size)
  <2>1. rank \in [kept -> 1 .. size]
    BY <1>2
  <2>2. ASSUME NEW i \in kept, NEW j \in kept, rank[i] = rank[j] PROVE i = j
    <3>1. i \in Nat /\ j \in Nat
      BY <1>1
    <3>2. r(i) \in Nat /\ r(j) \in Nat
      BY <1>2
    <3> HIDE DEF r, kept
    <3>3. r(i) = r(j)
      BY <2>2
    <3>4. ~(i < j) /\ ~(j < i)
      BY <1>3, <3>2, <3>3
    <3> QED
      BY <3>1, <3>4
  <2> HIDE DEF rank
  <2> QED
    BY <2>1, <2>2 DEF Injection, IsInjective
<1>5. rank \in Surjection(kept, 1 .. size)
  <2>1. IsFiniteSet(1 .. size) /\ Cardinality(1 .. size) = size
    BY <1>1, FS_Interval
  <2> HIDE DEF rank
  <2> QED
    BY <1>4, <2>1, FS_Injection
<1>6. ASSUME NEW n \in 1 .. size PROVE Nth(n) \in kept /\ r(Nth(n)) = n
  <2>1. \E i \in kept : rank[i] = n
    BY <1>5 DEF Surjection
  <2> QED
    BY <2>1
<1>7. ASSUME NEW i \in kept PROVE \E n \in 1 .. size : Nth(n) = i
  <2>1. r(i) \in 1 .. size
    BY <1>2
  <2>2. Nth(r(i)) \in kept /\ r(Nth(r(i))) = r(i)
    BY <1>6, <2>1
  <2>3. Nth(r(i)) = i
    BY <1>4, <2>2 DEF Injection, IsInjective
  <2> QED
    BY <2>1, <2>3
<1>8. Retained(s) = [n \in 1 .. size |-> s[Nth(n)]]
  BY DEF Retained
<1>9. \A i \in kept : s[i] \in Message
  OBVIOUS
<1> HIDE DEF kept, upto, size, r, Nth, rank
<1>10. Retained(s) \in [1 .. size -> Message]
  BY <1>6, <1>8, <1>9
<1>11. Retained(s) \in Conversation /\ Len(Retained(s)) = size
  BY <1>1, <1>10
<1>12. ASSUME NEW m \in SavedOf(Retained(s)) PROVE m \in SavedOf(s) /\ m.kind \notin Assistant
  BY <1>1, <1>6, <1>8, <1>11 DEF SavedOf, kept
<1>13. ASSUME NEW m \in SavedOf(s), m.kind \notin Assistant PROVE m \in SavedOf(Retained(s))
  <2>1. PICK i \in kept : m = s[i]
    BY <1>13 DEF SavedOf, kept
  <2>2. PICK n \in 1 .. size : Nth(n) = i
    BY <1>7
  <2> QED
    BY <1>8, <1>11, <2>1, <2>2 DEF SavedOf
<1> QED
  BY <1>11, <1>12, <1>13

-------------------------------------------------------------------------------
(* Tool calls and their outcomes *)

\* Between the provider's answer and the execution of tools the last message alone may lack
\* its outcome.
AnsweredButLast(s, cut) == \A i \in CallsAt(s) \ {Len(s)} : s[i] \in cut \/ Followed(s, i)

LEMMA NoCallsAnswered ==
    ASSUME NEW s \in Conversation, \A m \in SavedOf(s) : m.kind # "calls", NEW cut
    PROVE  AnsweredBut(s, cut)
BY DEF AnsweredBut, CallsAt, SavedOf

\* More replies may be cut off than were.
LEMMA MoreCut ==
    ASSUME NEW s, NEW cut, NEW more, cut \subseteq more
    PROVE  /\ AnsweredBut(s, cut) => AnsweredBut(s, more)
           /\ AnsweredButLast(s, cut) => AnsweredButLast(s, more)
           /\ AnsweredBut(s, cut) => AnsweredButLast(s, cut)
BY DEF AnsweredBut, AnsweredButLast

\* A reply that is followed by its outcome stays so in a longer text.
LEMMA FollowedInLonger ==
    ASSUME NEW s \in Conversation, NEW m \in Message, NEW i \in 1 .. Len(s), Followed(s, i)
    PROVE  Followed(Append(s, m), i)
<1> DEFINE a == Append(s, m)
<1>1. /\ Len(a) = Len(s) + 1 /\ Len(s) \in Nat
      /\ \A k \in 1 .. Len(s) : a[k] = s[k]
  BY AppendProperties
<1> HIDE DEF a
<1>2. i < Len(a) /\ i + 1 \in 1 .. Len(s)
  BY <1>1 DEF Followed
<1>3. a[i] = s[i] /\ a[i + 1] = s[i + 1]
  BY <1>1, <1>2
<1> QED
  BY <1>2, <1>3 DEF Followed, a

LEMMA AppendAnswers ==
    ASSUME NEW s \in Conversation, NEW m \in Message, NEW cut, AnsweredBut(s, cut)
    PROVE  /\ AnsweredButLast(Append(s, m), cut)
           /\ m.kind # "calls" => AnsweredBut(Append(s, m), cut)
<1> DEFINE a == Append(s, m)
<1>1. /\ Len(a) = Len(s) + 1 /\ Len(s) \in Nat
      /\ \A i \in 1 .. Len(s) : a[i] = s[i]
      /\ a[Len(s) + 1] = m
  BY AppendProperties
<1>2. ASSUME NEW i \in 1 .. Len(s), Followed(s, i) PROVE Followed(a, i)
  BY <1>2, FollowedInLonger
<1> HIDE DEF a
<1>3. ASSUME NEW i \in CallsAt(a), i # Len(a)
      PROVE  a[i] \in cut \/ Followed(a, i)
  <2>1. i \in CallsAt(s) /\ i \in 1 .. Len(s) /\ a[i] = s[i]
    BY <1>1, <1>3 DEF CallsAt
  <2> QED
    BY <1>2, <2>1 DEF AnsweredBut
<1>4. m.kind # "calls" => \A i \in CallsAt(a) : i # Len(a)
  BY <1>1 DEF CallsAt
<1> QED
  BY <1>3, <1>4 DEF AnsweredBut, AnsweredButLast, a

\* What a tool's message is.
LEMMA OutcomeIs ==
    ASSUME NEW m \in Message, NEW k \in Outcome
    PROVE  [m EXCEPT !.kind = k] \in Message /\ [m EXCEPT !.kind = k].kind = k
BY DEF Message, Kinds, Outcome

\* The outcome of the latest tool calls is the only one that may have been missing.
LEMMA ResultsAnswer ==
    ASSUME NEW s \in Conversation, NEW cut, AnsweredButLast(s, cut), CallsAt(s) # {},
           NEW o \in Outcome
    PROVE  AnsweredBut(WithResults(s, Latest(CallsAt(s)), o), cut)
<1> DEFINE i == Latest(CallsAt(s))
           m == [s[i] EXCEPT !.kind = o]
           a == Append(s, m)
<1>1. i \in CallsAt(s) /\ \A k \in CallsAt(s) : k <= i
  BY LatestIsLast DEF CallsAt
<1>2. i \in 1 .. Len(s) /\ s[i] \in Message /\ Len(s) \in Nat
  BY <1>1 DEF CallsAt
<1>3. m \in Message /\ m.kind # "calls"
  BY <1>2, OutcomeIs DEF Outcome
<1> HIDE DEF i
<1>4. ASSUME NEW k \in 1 .. Len(s), Followed(s, k) PROVE Followed(a, k)
  BY <1>3, <1>4, FollowedInLonger
<1> HIDE DEF m
<1>5. /\ Len(a) = Len(s) + 1
      /\ \A k \in 1 .. Len(s) : a[k] = s[k]
      /\ a[Len(s) + 1] = m
  BY <1>3, AppendProperties
<1> HIDE DEF a
<1>6. ASSUME NEW k \in CallsAt(a)
      PROVE  a[k] \in cut \/ Followed(a, k)
  <2>1. k \in CallsAt(s) /\ k \in 1 .. Len(s) /\ a[k] = s[k]
    BY <1>2, <1>3, <1>5 DEF CallsAt
  <2>2. CASE k = Len(s)
    <3>1. i = Len(s)
      BY <1>1, <1>2, <2>1, <2>2
    <3>2. a[k + 1] = [a[k] EXCEPT !.kind = o] /\ k < Len(a)
      BY <1>2, <1>5, <2>1, <2>2, <3>1 DEF m
    <3> QED
      BY <3>2 DEF Followed
  <2>3. CASE k # Len(s)
    BY <1>4, <2>1, <2>3 DEF AnsweredButLast
  <2> QED
    BY <2>2, <2>3
<1>7. WithResults(s, i, o) = a
  BY DEF WithResults, a, m
<1> QED
  BY <1>6, <1>7 DEF AnsweredBut, i

LEMMA ExecutedIs ==
    ASSUME NEW s \in Conversation, CallsAt(s) # {}, NEW o \in Outcome
    PROVE  /\ s[Latest(CallsAt(s))] \in Message
           /\ WithResults(s, Latest(CallsAt(s)), o) \in Conversation
           /\ \E m \in Message :
                 /\ m.kind = o
                 /\ SavedOf(WithResults(s, Latest(CallsAt(s)), o)) = SavedOf(s) \cup {m}
<1> DEFINE i == Latest(CallsAt(s))
           m == [s[i] EXCEPT !.kind = o]
<1>1. s[i] \in Message
  BY LatestIsLast DEF CallsAt
<1>2. m \in Message /\ m.kind = o
  BY <1>1, OutcomeIs
<1>3. Append(s, m) \in Conversation /\ SavedOf(Append(s, m)) = SavedOf(s) \cup {m}
  BY <1>2, AppendSaves
<1>4. WithResults(s, i, o) = Append(s, m)
  BY DEF WithResults
<1> QED
  BY <1>1, <1>2, <1>3, <1>4

\* What a compaction keeps has its outcomes: they follow their calls.
LEMMA SuffixAnswered ==
    ASSUME NEW s \in Conversation, Len(s) > Keep, NEW cut, AnsweredBut(s, cut)
    PROVE  AnsweredBut(SubSeq(s, Len(s) - Keep + 1, Len(s)), cut)
<1> DEFINE b == Len(s) - Keep
           e == SubSeq(s, b + 1, Len(s))
<1>1. /\ b \in Nat /\ Len(e) = Keep /\ Keep \in Nat /\ Len(s) = b + Keep
      /\ \A i \in 1 .. Len(e) : e[i] = s[b + i]
  BY SuffixIsSeq, LimitsAssumption
<1> HIDE DEF e, b
<1>2. ASSUME NEW i \in CallsAt(e)
      PROVE  e[i] \in cut \/ Followed(e, i)
  <2>1. i \in 1 .. Keep /\ b + i \in CallsAt(s) /\ e[i] = s[b + i]
    BY <1>1 DEF CallsAt
  <2>2. CASE s[b + i] \in cut
    BY <2>1, <2>2
  <2>3. CASE Followed(s, b + i)
    <3>1. i < Len(e) /\ i + 1 \in 1 .. Len(e) /\ b + (i + 1) = b + i + 1
      BY <1>1, <2>1, <2>3 DEF Followed
    <3>2. e[i + 1] = s[b + i + 1]
      BY <1>1, <3>1
    <3> QED
      BY <2>1, <2>3, <3>1, <3>2 DEF Followed
  <2> QED
    BY <2>1, <2>2, <2>3 DEF AnsweredBut
<1> QED
  BY <1>2 DEF AnsweredBut, e, b

\* The lines that a failing write leaves: the last one may have lost its outcome.
LEMMA PrefixIs ==
    ASSUME NEW s \in Conversation, NEW n \in 1 .. Len(s)
    PROVE  /\ SubSeq(s, 1, n) \in Conversation
           /\ SavedOf(SubSeq(s, 1, n)) \subseteq SavedOf(s)
           /\ s[n] \in Message
           /\ \A cut : AnsweredBut(s, cut) => AnsweredBut(SubSeq(s, 1, n), cut \cup {s[n]})
<1> DEFINE e == SubSeq(s, 1, n)
<1>1. n \in Nat /\ n >= 1 /\ n <= Len(s) /\ Len(s) \in Nat
  OBVIOUS
<1>2. /\ e \in Conversation /\ Len(e) = n
      /\ \A i \in 1 .. n : e[i] = s[i]
  BY <1>1, SubSeqProperties
<1> HIDE DEF e
<1>3. SavedOf(e) \subseteq SavedOf(s)
  BY <1>1, <1>2 DEF SavedOf
<1>4. ASSUME NEW cut, AnsweredBut(s, cut), NEW i \in CallsAt(e)
      PROVE  e[i] \in cut \cup {s[n]} \/ Followed(e, i)
  <2>1. i \in 1 .. n /\ i \in CallsAt(s) /\ e[i] = s[i]
    BY <1>1, <1>2 DEF CallsAt
  <2>2. CASE i = n \/ s[i] \in cut
    BY <2>1, <2>2
  <2>3. CASE i # n /\ Followed(s, i)
    <3>1. i < n /\ i + 1 \in 1 .. n
      BY <1>1, <2>1, <2>3
    <3>2. e[i + 1] = s[i + 1]
      BY <1>2, <3>1
    <3> QED
      BY <1>2, <2>1, <2>3, <3>1, <3>2 DEF Followed
  <2> QED
    BY <1>4, <2>1, <2>2, <2>3 DEF AnsweredBut
<1>5. s[n] \in Message
  OBVIOUS
<1>6. \A cut : AnsweredBut(s, cut) => AnsweredBut(e, cut \cup {s[n]})
  BY <1>4 DEF AnsweredBut
<1> QED
  BY <1>2, <1>3, <1>5, <1>6 DEF e

\* What a call works on, and what a denied turn leaves of it.
LEMMA ContextIs ==
    ASSUME TypeOK, NEW c \in Calls, NEW t \in Conversation, job[c] = "compact" => Len(t) > Keep
    PROVE  /\ Context(c, t) \in Conversation
           /\ SavedOf(Context(c, t)) \subseteq SavedOf(t)
           /\ job[c] = "chat" => Context(c, t) = t
           /\ \A cut : AnsweredBut(t, cut) => AnsweredBut(Context(c, t), cut)
<1>1. job[c] \in {"chat", "compact"}
  BY DEF TypeOK
<1>2. CASE job[c] = "chat"
  BY <1>2 DEF Context
<1>3. CASE job[c] = "compact"
  BY <1>3, SuffixIsSeq, SuffixAnswered DEF Context
<1> QED
  BY <1>1, <1>2, <1>3

LEMMA DeclinedIs ==
    ASSUME TypeOK, NEW c \in Calls
    PROVE  /\ Declined(c) \in Conversation
           /\ SavedOf(Declined(c)) = {m \in SavedOf(ctx[c]) : m.kind \notin Assistant}
                                        \cup {Msg(c, turn[c], "decline")}
           /\ \A cut : AnsweredBut(Declined(c), cut)
<1>1. ctx[c] \in Conversation /\ turn[c] \in Nat
  BY LimitsAssumption DEF TypeOK
<1>2. Msg(c, turn[c], "decline") \in Message /\ Msg(c, turn[c], "decline").kind = "decline"
  BY <1>1, MsgIsMessage DEF Kinds, Assistant
<1>3. /\ Retained(ctx[c]) \in Conversation
      /\ SavedOf(Retained(ctx[c])) = {m \in SavedOf(ctx[c]) : m.kind \notin Assistant}
  BY <1>1, RetainedSaves
<1>4. /\ Declined(c) \in Conversation
      /\ SavedOf(Declined(c)) = SavedOf(Retained(ctx[c])) \cup {Msg(c, turn[c], "decline")}
  BY <1>2, <1>3, AppendSaves DEF Declined
<1>5. \A m \in SavedOf(Declined(c)) : m.kind # "calls"
  BY <1>2, <1>3, <1>4 DEF Assistant, Replies
<1> QED
  BY <1>3, <1>4, <1>5, NoCallsAnswered

HIDE DEF Conversation

-------------------------------------------------------------------------------
(* The inductive invariants *)

InTurn(c) == pc[c] \in {"prompt", "tools", "govern", "persist"}
Working(c) == pc[c] \in {"loop", "save", "write"} \/ InTurn(c)

\* A call that has not loaded has started no turn, and one that starts a turn has one left.
TurnsCounted ==
    \A c \in Calls :
        /\ pc[c] \in {"idle", "load"} => turn[c] = 0
        /\ pc[c] = "loop" => turn[c] < MaxTurns
        /\ InTurn(c) => turn[c] >= 1

\* A reply is paid for by a call that was within its budget when the turn started.
WithinBudget == \A c \in Calls : pc[c] = "prompt" => cost[c] < Budget

\* What a call works on has the outcomes of its tool calls, but for the reply that just came.
ContextsAnswered ==
    /\ \A s \in Sessions : AnsweredBut(file[s], torn) /\ AnsweredBut(row[s], torn)
    /\ \A c \in Calls : Working(c) =>
          IF pc[c] = "tools" THEN AnsweredButLast(ctx[c], torn) ELSE AnsweredBut(ctx[c], torn)

\* What a chat loaded is still in its context, unless a denied turn took it out.
ContextsKept ==
    \A c \in Calls : job[c] = "chat" /\ Working(c) =>
        \A m \in SavedOf(loaded[c]) :
            \/ m \in SavedOf(ctx[c])
            \/ m.kind \in Assistant /\ \E t \in 1 .. MaxTurns : <<c, t>> \in refused

\* The reply of the turn under way is the only one of a context that is not yet remembered,
\* but for replies that no database was there to remember.
Unsaved(c, m) == pc[c] \in {"tools", "govern", "persist"} /\ m.by = c /\ m.turn = turn[c]

ContextsRemembered ==
    /\ \A s \in Sessions : \A m \in SavedOf(file[s]) \cup SavedOf(row[s]) :
          m.kind \in Replies /\ backend[m.by] = "durable" => m \in memory[s]
    /\ \A c \in Calls : Working(c) =>
          \A m \in SavedOf(ctx[c]) :
              m.kind \in Replies /\ backend[m.by] = "durable" =>
                  m \in memory[session[c]] \/ Unsaved(c, m)

\* A message in a memory or in a transcript of some session.
Stored(m) ==
    \E s \in Sessions :
        m \in memory[s] \cup scratch[s] \cup SavedOf(file[s]) \cup SavedOf(row[s])

\* Nobody but the call itself holds a reply of the turn it is in.
TurnsApart ==
    \A c \in Calls : \A m \in Message :
        m.by = c /\ m.kind \in Replies =>
            /\ Stored(m) \/ (\E d \in Calls \ {c} : m \in SavedOf(ctx[d])) =>
                  m.turn <= turn[c] /\ (InTurn(c) => m.turn < turn[c])
            /\ m \in SavedOf(ctx[c]) =>
                  m.turn <= turn[c] /\ (pc[c] = "prompt" => m.turn < turn[c])

\* A denied turn is its call's last one, and its reply is nowhere.
RefusedGone ==
    \A c \in Calls : \A t \in Nat : <<c, t>> \in refused =>
        /\ t \in 1 .. MaxTurns
        /\ pc[c] \in {"save", "write"} \cup {"ended"}
        /\ \A m \in Message : m.by = c /\ m.turn = t /\ m.kind \in Replies =>
              ~Stored(m) /\ \A d \in Calls : m \notin SavedOf(ctx[d])

-------------------------------------------------------------------------------
(* Types, turns and the budget *)

Types == TypeOK /\ TurnsCounted

LEMMA InitTypes == Init => Types
<1> SUFFICES ASSUME Init PROVE Types
  OBVIOUS
<1>1. (CHOOSE s \in Sessions : TRUE) \in Sessions
  BY SessionsAssumption
<1>2. backend \in [Calls -> {"durable", "process"}] /\ store \in {"file", "postgres"}
  BY StoresAssumption DEF Init
<1>3. TypeOK
  BY <1>1, <1>2, LimitsAssumption, EmptySaves DEF Init, TypeOK, Steps
<1>4. TurnsCounted
  BY LimitsAssumption DEF Init, TurnsCounted, InTurn
<1> QED
  BY <1>3, <1>4 DEF Types

LEMMA Updated ==
    ASSUME NEW S, NEW T, NEW f \in [S -> T], NEW x \in S, NEW v \in T
    PROVE  [f EXCEPT ![x] = v] \in [S -> T]
OBVIOUS

LEMMA NextTurns ==
    ASSUME TypeOK, TurnsCounted, [Next]_vars
    PROVE  turn' \in [Calls -> 0 .. MaxTurns] /\ TurnsCounted'
<1> USE DEF Goto, End, InTurn, TurnsCounted, spent
<1>1. /\ pc \in [Calls -> Steps] /\ turn \in [Calls -> 0 .. MaxTurns]
      /\ MaxTurns \in Nat \ {0}
  BY LimitsAssumption DEF TypeOK
<1>2. ASSUME NEW c \in Calls, NEW s \in Sessions, Chat(c, s) \/ Compact(c, s) \/ Reset(c, s)
      PROVE  turn' \in [Calls -> 0 .. MaxTurns] /\ TurnsCounted'
  BY <1>1, <1>2 DEF Chat, Compact, Reset
<1>3. ASSUME NEW c \in Calls, Load(c) PROVE turn' \in [Calls -> 0 .. MaxTurns] /\ TurnsCounted'
  BY <1>1, <1>3 DEF Load
<1>4. ASSUME NEW c \in Calls, StartTurn(c)
      PROVE  turn' \in [Calls -> 0 .. MaxTurns] /\ TurnsCounted'
  BY <1>1, <1>4 DEF StartTurn
<1>5. ASSUME NEW c \in Calls, Prompt(c) \/ ExecuteTools(c) \/ Govern(c)
      PROVE  turn' \in [Calls -> 0 .. MaxTurns] /\ TurnsCounted'
  BY <1>1, <1>5 DEF Prompt, ExecuteTools, Govern
<1>6. ASSUME NEW c \in Calls, Persist(c) PROVE turn' \in [Calls -> 0 .. MaxTurns] /\ TurnsCounted'
  BY <1>1, <1>6 DEF Persist, GoesOn
<1>7. ASSUME NEW c \in Calls, Save(c) \/ Write(c)
      PROVE  turn' \in [Calls -> 0 .. MaxTurns] /\ TurnsCounted'
  BY <1>1, <1>7 DEF Save, Write, WriteAll, WriteSome
<1>8. CASE Crash \/ UNCHANGED vars
  BY <1>1, <1>8 DEF Crash, vars
<1> QED
  BY <1>2, <1>3, <1>4, <1>5, <1>6, <1>7, <1>8 DEF Next

LEMMA NextTypes == Types /\ [Next]_vars => Types'
<1> SUFFICES ASSUME TypeOK, TurnsCounted, [Next]_vars PROVE TypeOK'
  BY NextTurns DEF Types
<1> USE DEF Goto, End, Steps
<1>t. turn' \in [Calls -> 0 .. MaxTurns]
  BY NextTurns
<1>e. <<>> \in Conversation
  BY EmptySaves
<1>1. ASSUME NEW c \in Calls, NEW s \in Sessions, Chat(c, s) \/ Compact(c, s) PROVE TypeOK'
  BY <1>1 DEF Chat, Compact, TypeOK, transcripts, config, memories, spent
<1>2. ASSUME NEW c \in Calls, NEW s \in Sessions, Reset(c, s) PROVE TypeOK'
  <2>1. /\ file \in [Sessions -> Conversation] /\ row \in [Sessions -> Conversation]
        /\ open \in [Sessions -> SUBSET Calls] /\ garbled \in SUBSET Sessions
    BY DEF TypeOK
  <2>2. /\ file' \in [Sessions -> Conversation] /\ row' \in [Sessions -> Conversation]
        /\ open' \in [Sessions -> SUBSET Calls] /\ garbled' \in SUBSET Sessions
    BY <1>2, <1>e, <2>1 DEF Reset
  <2> QED
    BY <1>2, <2>2 DEF Reset, TypeOK, spent, call, config, memories
<1>3. ASSUME NEW c \in Calls, Load(c) PROVE TypeOK'
  <2>1. /\ \A t \in Found(session[c]) : t \in Conversation
        /\ ctx \in [Calls -> Conversation] /\ loaded \in [Calls -> Conversation]
    BY DEF TypeOK, Found
  <2>2. ASSUME NEW t \in Found(session[c]), job[c] = "compact" => Len(t) > Keep
        PROVE  Context(c, t) \in Conversation
    BY <2>1, <2>2, ContextIs
  <2>3. /\ \/ ctx' = ctx /\ loaded' = loaded
           \/ \E t \in Found(session[c]) :
                 /\ job[c] = "compact" => Len(t) > Keep
                 /\ ctx' = [ctx EXCEPT ![c] = Context(c, t)]
                 /\ loaded' = [loaded EXCEPT ![c] = t]
        /\ \E q \in {"ended", "loop", "save"} : pc' = [pc EXCEPT ![c] = q]
    BY <1>3 DEF Load
  <2>4. ctx' \in [Calls -> Conversation] /\ loaded' \in [Calls -> Conversation]
    BY <2>1, <2>2, <2>3, Updated
  <2>5. pc' \in [Calls -> Steps]
    BY <2>3 DEF TypeOK
  <2> QED
    BY <1>3, <2>4, <2>5 DEF Load, TypeOK, transcripts, config, memories, spent
<1>4. ASSUME NEW c \in Calls, StartTurn(c) PROVE TypeOK'
  <2>1. /\ ctx \in [Calls -> Conversation] /\ ctx[c] \in Conversation /\ turn[c] \in Nat
        /\ turn[c] + 1 \in Nat
    BY LimitsAssumption DEF TypeOK
  <2>2. ASSUME NEW k \in {"limit", "ask"}, NEW n \in Nat
        PROVE  Append(ctx[c], Msg(c, n, k)) \in Conversation
    BY <2>1, MsgIsMessage, AppendSaves DEF Kinds, Assistant
  <2>3. \E k \in {"limit", "ask"}, n \in Nat : Say(c, Msg(c, n, k))
    BY <1>4, <2>1 DEF StartTurn
  <2>4. ctx' \in [Calls -> Conversation]
    BY <2>1, <2>2, <2>3, Updated DEF Say
  <2>5. pc' \in [Calls -> Steps]
    BY <1>4 DEF StartTurn, TypeOK
  <2> QED
    BY <1>4, <1>t, <2>4, <2>5 DEF StartTurn, TypeOK, transcripts, config, memories, call
<1>5. ASSUME NEW c \in Calls, Prompt(c) PROVE TypeOK'
  <2>1. /\ ctx \in [Calls -> Conversation] /\ ctx[c] \in Conversation /\ turn[c] \in Nat
        /\ cost \in [Calls -> Nat]
    BY LimitsAssumption DEF TypeOK
  <2>2. ASSUME NEW k \in Replies PROVE Append(ctx[c], Msg(c, turn[c], k)) \in Conversation
    BY <2>1, MsgIsMessage, AppendSaves DEF Kinds, Assistant
  <2>3. ctx' = ctx \/ \E k \in Replies : Say(c, Msg(c, turn[c], k))
    BY <1>5 DEF Prompt
  <2>4. ctx' \in [Calls -> Conversation]
    <3>1. CASE ctx' = ctx
      BY <2>1, <3>1
    <3>2. CASE \E k \in Replies : Say(c, Msg(c, turn[c], k))
      BY <2>1, <2>2, <3>2, Updated DEF Say
    <3> QED
      BY <2>3, <3>1, <3>2
  <2>5. cost' = cost \/ \E p \in Prices : cost' = [cost EXCEPT ![c] = @ + p]
    BY <1>5 DEF Prompt
  <2>6. cost' \in [Calls -> Nat]
    BY <2>1, <2>5, PricesAssumption
  <2>7. pc' \in [Calls -> Steps]
    BY <1>5 DEF Prompt, TypeOK
  <2> QED
    BY <1>5, <2>4, <2>6, <2>7 DEF Prompt, TypeOK, transcripts, config, memories, call
<1>6. ASSUME NEW c \in Calls, ExecuteTools(c) PROVE TypeOK'
  <2> DEFINE i == Latest(CallsAt(ctx[c]))
             r == [reply |-> ctx[c][i], by |-> c, turn |-> turn[c]]
             new(k) == WithResults(ctx[c], i, k)
             Runs == [reply: Message, by: Calls, turn: Nat]
  <2>1. /\ ctx \in [Calls -> Conversation] /\ ctx[c] \in Conversation /\ turn[c] \in Nat
        /\ ran \in SUBSET Runs
    BY LimitsAssumption DEF TypeOK
  <2>e. ASSUME CallsAt(ctx[c]) # {}, NEW k \in Outcome
        PROVE  ctx[c][i] \in Message /\ new(k) \in Conversation
    BY <2>1, <2>e, ExecutedIs
  <2>2. CallsAt(ctx[c]) # {} =>
           ctx[c][i] \in Message /\ \A k \in Outcome : new(k) \in Conversation
    BY <2>e DEF Outcome
  <2>3. CallsAt(ctx[c]) # {} => r \in Runs
    BY <2>1, <2>2
  <2>4. \/ ctx' = ctx /\ ran' = ran
        \/ /\ CallsAt(ctx[c]) # {} /\ ran' = ran \cup {r}
           /\ \E k \in Outcome : ctx' = [ctx EXCEPT ![c] = new(k)]
    BY <1>6 DEF ExecuteTools
  <2> HIDE DEF r, new, Runs
  <2>5. ctx' \in [Calls -> Conversation]
    BY <2>1, <2>2, <2>4, Updated
  <2>6. ran' \in SUBSET Runs
    BY <2>1, <2>3, <2>4
  <2>7. pc' \in [Calls -> Steps]
    BY <1>6 DEF ExecuteTools, TypeOK
  <2> QED
    BY <1>6, <2>5, <2>6, <2>7 DEF ExecuteTools, TypeOK, transcripts, config, memories, call, spent, Runs
<1>7. ASSUME NEW c \in Calls, Govern(c) PROVE TypeOK'
  <2>1. /\ ctx \in [Calls -> Conversation] /\ Declined(c) \in Conversation
        /\ refused \in SUBSET (Calls \X Nat) /\ turn[c] \in Nat
    BY DeclinedIs, LimitsAssumption DEF TypeOK
  <2>2. ctx' = ctx \/ ctx' = [ctx EXCEPT ![c] = Declined(c)]
    BY <1>7 DEF Govern
  <2>3. ctx' \in [Calls -> Conversation]
    BY <2>1, <2>2, Updated
  <2>4. refused' \in SUBSET (Calls \X Nat)
    BY <1>7, <2>1 DEF Govern
  <2>5. pc' \in [Calls -> Steps]
    BY <1>7 DEF Govern, TypeOK
  <2> QED
    BY <1>7, <2>3, <2>4, <2>5 DEF Govern, TypeOK, transcripts, config, memories, call, spent
<1>8. ASSUME NEW c \in Calls, Persist(c) PROVE TypeOK'
  <2>1. /\ ctx[c] \in Conversation /\ session[c] \in Sessions
        /\ memory \in [Sessions -> SUBSET Message] /\ scratch \in [Sessions -> SUBSET Message]
    BY DEF TypeOK
  <2>2. /\ \A n \in 0 .. Len(ctx[c]) : {ctx[c][i] : i \in 1 .. n} \subseteq Message
        /\ SavedOf(ctx[c]) \subseteq Message
    BY <2>1 DEF SavedOf, Conversation
  <2>3. PICK ms \in SUBSET Message : Remember(c, ms)
    BY <1>8, <2>2 DEF Persist
  <2>4. memory' \in [Sessions -> SUBSET Message] /\ scratch' \in [Sessions -> SUBSET Message]
    BY <2>1, <2>3 DEF Remember
  <2>5. pc' \in [Calls -> Steps]
    BY <1>8 DEF Persist, TypeOK
  <2> QED
    BY <1>8, <2>4, <2>5 DEF Persist, TypeOK, transcripts, config, call, spent
<1>9. ASSUME NEW c \in Calls, Save(c) \/ Write(c) PROVE TypeOK'
  <2>1. /\ file \in [Sessions -> Conversation] /\ row \in [Sessions -> Conversation]
        /\ session[c] \in Sessions /\ ctx[c] \in Conversation /\ torn \in SUBSET Message
    BY DEF TypeOK
  <2>2. /\ open \in [Sessions -> SUBSET Calls] /\ garbled \in SUBSET Sessions
    BY DEF TypeOK
  <2>3. \A n \in 1 .. Len(ctx[c]) : SubSeq(ctx[c], 1, n) \in Conversation /\ ctx[c][n] \in Message
    BY <2>1, PrefixIs
  <2>4. CASE Save(c)
    <3>1. file' \in [Sessions -> Conversation] /\ row' \in [Sessions -> Conversation]
      BY <1>e, <2>1, <2>4, Updated DEF Save
    <3>2. open' \in [Sessions -> SUBSET Calls] /\ garbled' \in SUBSET Sessions
      BY <2>1, <2>2, <2>4 DEF Save
    <3>3. pc' \in [Calls -> Steps]
      BY <2>4 DEF Save, TypeOK
    <3> QED
      BY <2>4, <3>1, <3>2, <3>3 DEF Save, TypeOK, config, memories, call, spent
  <2>5. CASE Write(c)
    <3>1. \/ file' = file
          \/ \E t \in Conversation : file' = [file EXCEPT ![session[c]] = t]
      BY <1>e, <2>1, <2>3, <2>5 DEF Write, WriteAll, WriteSome, Garble
    <3>2. file' \in [Sessions -> Conversation]
      BY <2>1, <3>1, Updated
    <3>3. torn' \in SUBSET Message
      BY <2>1, <2>3, <2>5 DEF Write, WriteAll, WriteSome, Garble
    <3>4. open' \in [Sessions -> SUBSET Calls] /\ garbled' \in SUBSET Sessions
      BY <2>1, <2>2, <2>5 DEF Write, WriteAll, WriteSome, Garble
    <3>5. pc' \in [Calls -> Steps]
      BY <2>5 DEF Write, WriteAll, WriteSome, TypeOK
    <3> QED
      BY <2>5, <3>2, <3>3, <3>4, <3>5 DEF Write, TypeOK, config, memories, call, spent
  <2> QED
    BY <1>9, <2>4, <2>5
<1>10. CASE Crash
  BY <1>10, LimitsAssumption DEF Crash, TypeOK, config, call, spent
<1>11. CASE UNCHANGED vars
  BY <1>11 DEF vars, TypeOK
<1> QED
  BY <1>1, <1>2, <1>3, <1>4, <1>5, <1>6, <1>7, <1>8, <1>9, <1>10, <1>11 DEF Next

LEMMA SpecTypes == Spec => []Types
BY InitTypes, NextTypes, PTL DEF Spec

\* Every variable keeps its type, and no call starts more turns than it may.
THEOREM SpecTypeOK == Spec => []TypeOK
<1>1. Types => TypeOK
  BY DEF Types
<1> QED
  BY <1>1, SpecTypes, PTL

\* However its replies are priced, a call overdraws its budget by less than one of them.
THEOREM SpecBudgetHolds == Spec => []BudgetHolds
<1>1. Init => BudgetHolds /\ WithinBudget
  BY DEF Init, BudgetHolds, WithinBudget
<1>2. Types /\ BudgetHolds /\ WithinBudget /\ [Next]_vars => (BudgetHolds /\ WithinBudget)'
  <2> SUFFICES ASSUME Types, BudgetHolds, WithinBudget, [Next]_vars
               PROVE  (BudgetHolds /\ WithinBudget)'
    OBVIOUS
  <2>m. /\ pc \in [Calls -> Steps] /\ cost \in [Calls -> Nat]
        /\ Budget \in Nat /\ Prices \subseteq Nat
    BY LimitsAssumption, PricesAssumption DEF Types, TypeOK
  <2> USE DEF BudgetHolds, WithinBudget, Goto, End
  <2>1. ASSUME NEW c \in Calls, StartTurn(c) PROVE (BudgetHolds /\ WithinBudget)'
    BY <2>m, <2>1 DEF StartTurn, OverBudget
  <2>2. ASSUME NEW c \in Calls, Prompt(c) PROVE (BudgetHolds /\ WithinBudget)'
    BY <2>m, <2>2 DEF Prompt
  <2>3. ASSUME NEW c \in Calls, NEW s \in Sessions, Chat(c, s) \/ Compact(c, s) \/ Reset(c, s)
        PROVE  (BudgetHolds /\ WithinBudget)'
    BY <2>m, <2>3 DEF Chat, Compact, Reset, spent
  <2>4. ASSUME NEW c \in Calls, Load(c) \/ ExecuteTools(c) \/ Govern(c) \/ Persist(c)
        PROVE  (BudgetHolds /\ WithinBudget)'
    BY <2>m, <2>4 DEF Load, ExecuteTools, Govern, Persist, spent
  <2>5. ASSUME NEW c \in Calls, Save(c) \/ Write(c) PROVE (BudgetHolds /\ WithinBudget)'
    BY <2>m, <2>5 DEF Save, Write, WriteAll, WriteSome, spent
  <2>6. CASE Crash \/ UNCHANGED vars
    BY <2>m, <2>6 DEF Crash, vars, spent
  <2> QED
    BY <2>1, <2>2, <2>3, <2>4, <2>5, <2>6 DEF Next
<1> QED
  BY <1>1, <1>2, SpecTypes, PTL DEF Spec

-------------------------------------------------------------------------------
(* What a step does to one call and to one session *)

Same(c) == job'[c] = job[c] /\ session'[c] = session[c] /\ loaded'[c] = loaded[c]

\* The call is not the one that moves, or it moves on with the context it has, or it ends.
Keeps(c) ==
    /\ Same(c) /\ ctx'[c] = ctx[c] /\ turn'[c] = turn[c]
    /\ \/ pc'[c] = pc[c]
       \/ pc[c] = "prompt" /\ pc'[c] = "tools"
       \/ pc[c] = "tools" /\ pc'[c] = "govern" /\ CallsAt(ctx[c]) = {}
       \/ pc[c] = "govern" /\ pc'[c] = "persist"
       \/ /\ pc[c] = "persist" /\ pc'[c] \in {"loop", "save"}
          /\ backend[c] = "durable" => SavedOf(ctx[c]) \subseteq memory'[session[c]]
       \/ pc[c] = "save" /\ pc'[c] = "write"
       \/ pc'[c] = "ended"

Begins(c) ==
    /\ pc[c] = "idle" /\ pc'[c] = "load"
    /\ ctx'[c] = ctx[c] /\ turn'[c] = turn[c]

Loads(c) ==
    \E t \in {file[session[c]], row[session[c]]} :
        /\ pc[c] = "load" /\ pc'[c] \in {"loop", "save"}
        /\ job[c] = "compact" => Len(t) > Keep
        /\ job'[c] = job[c] /\ session'[c] = session[c] /\ turn'[c] = turn[c]
        /\ loaded'[c] = t /\ ctx'[c] = Context(c, t)

Says(c) ==
    /\ Same(c)
    /\ \/ /\ pc[c] = "loop" /\ pc'[c] = "save" /\ turn'[c] = turn[c]
          /\ ctx'[c] = Append(ctx[c], Msg(c, turn[c], "limit"))
       \/ /\ pc[c] = "loop" /\ pc'[c] = "prompt" /\ turn'[c] = turn[c] + 1
          /\ ctx'[c] = Append(ctx[c], Msg(c, turn[c] + 1, "ask"))
       \/ /\ pc[c] = "prompt" /\ pc'[c] = "tools" /\ turn'[c] = turn[c]
          /\ \E k \in Replies : ctx'[c] = Append(ctx[c], Msg(c, turn[c], k))

Executes(c) ==
    /\ pc[c] = "tools" /\ pc'[c] = "govern"
    /\ Same(c) /\ turn'[c] = turn[c]
    /\ CallsAt(ctx[c]) # {}
    /\ \E k \in Outcome : ctx'[c] = WithResults(ctx[c], Latest(CallsAt(ctx[c])), k)

Declines(c) ==
    /\ pc[c] = "govern" /\ pc'[c] = "save"
    /\ Same(c) /\ turn'[c] = turn[c]
    /\ ctx'[c] = Declined(c)
    /\ refused' = refused \cup {<<c, turn[c]>>}
    /\ UNCHANGED <<file, row, memory, scratch>>
    /\ \A d \in Calls \ {c} : ctx'[d] = ctx[d] /\ pc'[d] = pc[d]

LEMMA CallStep ==
    ASSUME TypeOK, [Next]_vars, NEW c \in Calls
    PROVE  Keeps(c) \/ Begins(c) \/ Loads(c) \/ Says(c) \/ Executes(c) \/ Declines(c)
<1> USE DEF Keeps, Same, Goto, End, transcripts, config, memories, call, spent
<1>0. /\ pc \in [Calls -> Steps] /\ turn \in [Calls -> 0 .. MaxTurns]
      /\ job \in [Calls -> {"chat", "compact"}] /\ session \in [Calls -> Sessions]
  BY DEF TypeOK
<1>c. /\ ctx \in [Calls -> Conversation] /\ loaded \in [Calls -> Conversation]
      /\ memory \in [Sessions -> SUBSET Message]
  BY DEF TypeOK
<1>1. ASSUME NEW d \in Calls, NEW s \in Sessions, Chat(d, s) \/ Compact(d, s) \/ Reset(d, s)
      PROVE  Keeps(c) \/ Begins(c)
  BY <1>0, <1>1 DEF Chat, Compact, Reset, Begins
<1>2. ASSUME NEW d \in Calls, Load(d) PROVE Keeps(c) \/ Loads(c)
  <2>1. CASE d # c
    BY <1>0, <1>c, <1>2, <2>1 DEF Load
  <2>2. CASE d = c /\ pc' = [pc EXCEPT ![d] = "ended"] /\ UNCHANGED <<loaded, ctx>>
    BY <1>0, <1>c, <1>2, <2>2 DEF Load
  <2>3. ASSUME d = c, NEW t \in Found(session[d]), job[d] = "compact" => Len(t) > Keep,
               pc' = [pc EXCEPT ![d] = IF job[d] = "chat" THEN "loop" ELSE "save"],
               loaded' = [loaded EXCEPT ![d] = t], ctx' = [ctx EXCEPT ![d] = Context(d, t)]
        PROVE  Loads(c)
    <3>1. t \in {file[session[c]], row[session[c]]}
      BY <2>3 DEF Found
    <3> QED
      BY <1>0, <1>c, <1>2, <2>3, <3>1 DEF Load, Loads
  <2> QED
    BY <1>2, <2>1, <2>2, <2>3 DEF Load
<1>3. ASSUME NEW d \in Calls, StartTurn(d) PROVE Keeps(c) \/ Says(c)
  BY <1>0, <1>c, <1>3 DEF StartTurn, Says, Say
<1>4. ASSUME NEW d \in Calls, Prompt(d) PROVE Keeps(c) \/ Says(c)
  BY <1>0, <1>c, <1>4 DEF Prompt, Says, Say
<1>5. ASSUME NEW d \in Calls, ExecuteTools(d) PROVE Keeps(c) \/ Executes(c)
  BY <1>0, <1>c, <1>5 DEF ExecuteTools, Executes
<1>6. ASSUME NEW d \in Calls, Govern(d) PROVE Keeps(c) \/ Declines(c)
  BY <1>0, <1>c, <1>6 DEF Govern, Declines
<1>7. ASSUME NEW d \in Calls, Persist(d) PROVE Keeps(c)
  <2>1. /\ pc[d] = "persist" /\ UNCHANGED <<job, session, loaded, ctx, turn>>
        /\ \/ pc' = [pc EXCEPT ![d] = "ended"]
           \/ /\ Remember(d, SavedOf(ctx[d]))
              /\ \E q \in {"loop", "save"} : pc' = [pc EXCEPT ![d] = q]
    BY <1>7 DEF Persist
  <2>2. Remember(d, SavedOf(ctx[d])) /\ backend[d] = "durable" =>
           SavedOf(ctx[d]) \subseteq memory'[session[d]]
    BY <1>0, <1>c DEF Remember
  <2> QED
    BY <1>0, <2>1, <2>2
<1>8. ASSUME NEW d \in Calls, Save(d) \/ Write(d) PROVE Keeps(c)
  <2>1. /\ UNCHANGED <<job, session, loaded, ctx, turn>>
        /\ \/ pc' = [pc EXCEPT ![d] = "ended"]
           \/ pc[d] = "save" /\ pc' = [pc EXCEPT ![d] = "write"]
    BY <1>8 DEF Save, Write, WriteAll, WriteSome
  <2> QED
    BY <1>0, <2>1
<1>9. CASE Crash \/ UNCHANGED vars
  BY <1>0, <1>9 DEF Crash, vars
<1> QED
  BY <1>1, <1>2, <1>3, <1>4, <1>5, <1>6, <1>7, <1>8, <1>9 DEF Next

\* A text that a call leaves in a transcript of the session: its context, or the lines of it
\* that a failing write got through.
Writes(c, s, t) ==
    /\ pc[c] \in {"save", "write"} /\ pc'[c] = "ended" /\ session[c] = s
    /\ \/ t = ctx[c]
       \/ \E n \in 1 .. Len(ctx[c]) : t = SubSeq(ctx[c], 1, n) /\ ctx[c][n] \in torn'

\* A transcript stays, is emptied, or is written by a call that saves its context.
LEMMA TranscriptStep ==
    ASSUME TypeOK, [Next]_vars, NEW s \in Sessions
    PROVE  /\ torn \subseteq torn'
           /\ \A t \in {file'[s], row'[s]} :
                 t \in {file[s], row[s], <<>>} \/ \E c \in Calls : Writes(c, s, t)
<1> USE DEF Goto, End, transcripts
<1>0. /\ pc \in [Calls -> Steps] /\ session \in [Calls -> Sessions]
      /\ file \in [Sessions -> Conversation] /\ row \in [Sessions -> Conversation]
  BY DEF TypeOK
<1>1. ASSUME NEW c \in Calls, NEW r \in Sessions, Reset(c, r)
      PROVE  torn' = torn /\ {file'[s], row'[s]} \subseteq {file[s], row[s], <<>>}
  BY <1>0, <1>1 DEF Reset
<1>2. ASSUME NEW c \in Calls, Save(c)
      PROVE  /\ torn' = torn
             /\ \A t \in {file'[s], row'[s]} : t \in {file[s], row[s], <<>>} \/ Writes(c, s, t)
  BY <1>0, <1>2 DEF Save, Writes
<1>3. ASSUME NEW c \in Calls, Write(c)
      PROVE  /\ torn \subseteq torn'
             /\ \A t \in {file'[s], row'[s]} : t \in {file[s], row[s], <<>>} \/ Writes(c, s, t)
  <2>1. row' = row /\ torn \subseteq torn' /\ pc[c] = "write" /\ pc'[c] = "ended"
    BY <1>0, <1>3 DEF Write, WriteAll, WriteSome
  <2>2. \/ file' = file
        \/ file' = [file EXCEPT ![session[c]] = <<>>]
        \/ file' = [file EXCEPT ![session[c]] = ctx[c]]
        \/ \E n \in 1 .. Len(ctx[c]) :
              /\ file' = [file EXCEPT ![session[c]] = SubSeq(ctx[c], 1, n)]
              /\ torn' = torn \cup {ctx[c][n]}
    BY <1>3 DEF Write, WriteAll, WriteSome, Garble
  <2>3. session[c] = s \/ file'[s] = file[s]
    BY <1>0, <2>2
  <2>4. CASE session[c] = s
    <3>1. \/ file'[s] \in {file[s], <<>>}
          \/ file'[s] = ctx[c]
          \/ \E n \in 1 .. Len(ctx[c]) :
                file'[s] = SubSeq(ctx[c], 1, n) /\ ctx[c][n] \in torn'
      BY <1>0, <2>2, <2>4
    <3>2. file'[s] \in {file[s], row[s], <<>>} \/ Writes(c, s, file'[s])
      BY <2>1, <2>4, <3>1 DEF Writes
    <3> QED
      BY <2>1, <3>2
  <2> QED
    BY <2>1, <2>3, <2>4
<1>4. ASSUME NEW c \in Calls,
             \/ \E r \in Sessions : Chat(c, r) \/ Compact(c, r)
             \/ Load(c) \/ StartTurn(c) \/ Prompt(c) \/ ExecuteTools(c) \/ Govern(c) \/ Persist(c)
      PROVE  UNCHANGED <<file, row, torn>>
  BY <1>4 DEF Chat, Compact, Load, StartTurn, Prompt, ExecuteTools, Govern, Persist
<1>5. CASE Crash \/ UNCHANGED vars
  BY <1>5 DEF Crash, vars
<1> QED
  BY <1>1, <1>2, <1>3, <1>4, <1>5 DEF Next

LEMMA WrittenIs ==
    ASSUME TypeOK, NEW c \in Calls, NEW s, NEW t, Writes(c, s, t), torn \subseteq torn'
    PROVE  /\ SavedOf(t) \subseteq SavedOf(ctx[c])
           /\ AnsweredBut(ctx[c], torn) => AnsweredBut(t, torn')
<1>1. ctx[c] \in Conversation
  BY DEF TypeOK
<1>2. CASE t = ctx[c]
  BY <1>2, MoreCut
<1>3. ASSUME NEW n \in 1 .. Len(ctx[c]), t = SubSeq(ctx[c], 1, n), ctx[c][n] \in torn'
      PROVE  /\ SavedOf(t) \subseteq SavedOf(ctx[c])
             /\ AnsweredBut(ctx[c], torn) => AnsweredBut(t, torn')
  <2>1. /\ SavedOf(t) \subseteq SavedOf(ctx[c])
        /\ AnsweredBut(ctx[c], torn) => AnsweredBut(t, torn \cup {ctx[c][n]})
    BY <1>1, <1>3, PrefixIs
  <2>2. torn \cup {ctx[c][n]} \subseteq torn'
    BY <1>3
  <2> QED
    BY <2>1, <2>2, MoreCut
<1> QED
  BY <1>2, <1>3 DEF Writes

\* The memories receive what a call that persists has in its context; a database only grows.
LEMMA MemoryStep ==
    ASSUME TypeOK, [Next]_vars, NEW s \in Sessions
    PROVE  /\ backend' = backend
           /\ memory[s] \subseteq memory'[s]
           /\ \/ memory'[s] \cup scratch'[s] \subseteq memory[s] \cup scratch[s]
              \/ \E c \in Calls :
                    /\ pc[c] = "persist" /\ pc'[c] \in {"loop", "save", "ended"}
                    /\ memory'[s] \cup scratch'[s]
                          \subseteq memory[s] \cup scratch[s] \cup SavedOf(ctx[c])
<1> USE DEF Goto, End, config, memories
<1>0. /\ pc \in [Calls -> Steps] /\ session \in [Calls -> Sessions]
      /\ memory \in [Sessions -> SUBSET Message] /\ scratch \in [Sessions -> SUBSET Message]
  BY DEF TypeOK
<1>1. ASSUME NEW c \in Calls, Persist(c)
      PROVE  /\ backend' = backend
             /\ memory[s] \subseteq memory'[s]
             /\ pc[c] = "persist" /\ pc'[c] \in {"loop", "save", "ended"}
             /\ memory'[s] \cup scratch'[s]
                   \subseteq memory[s] \cup scratch[s] \cup SavedOf(ctx[c])
  <2>1. \A n \in 0 .. Len(ctx[c]) : {ctx[c][i] : i \in 1 .. n} \subseteq SavedOf(ctx[c])
    <3>1. Len(ctx[c]) \in Nat
      BY DEF TypeOK, Conversation
    <3> QED
      BY <3>1 DEF SavedOf
  <2>2. \E saved : saved \subseteq SavedOf(ctx[c]) /\ Remember(c, saved)
    BY <1>1, <2>1 DEF Persist
  <2>3. PICK saved : saved \subseteq SavedOf(ctx[c]) /\ Remember(c, saved)
    BY <2>2
  <2>4. ASSUME NEW f \in [Sessions -> SUBSET Message]
        PROVE  LET g == [f EXCEPT ![session[c]] = @ \cup saved] IN
               f[s] \subseteq g[s] /\ g[s] \subseteq f[s] \cup SavedOf(ctx[c])
    BY <2>3
  <2>5. \/ memory' = [memory EXCEPT ![session[c]] = @ \cup saved] /\ scratch' = scratch
        \/ scratch' = [scratch EXCEPT ![session[c]] = @ \cup saved] /\ memory' = memory
    BY <2>3 DEF Remember
  <2>6. /\ memory[s] \subseteq memory'[s]
        /\ memory'[s] \cup scratch'[s] \subseteq memory[s] \cup scratch[s] \cup SavedOf(ctx[c])
    BY <1>0, <2>4, <2>5
  <2>7. /\ pc[c] = "persist" /\ pc'[c] \in {"loop", "save", "ended"}
        /\ backend' = backend
    BY <1>0, <1>1 DEF Persist
  <2> QED
    BY <2>6, <2>7
<1>2. ASSUME NEW c \in Calls,
             \/ \E r \in Sessions : Chat(c, r) \/ Compact(c, r) \/ Reset(c, r)
             \/ Load(c) \/ StartTurn(c) \/ Prompt(c) \/ ExecuteTools(c) \/ Govern(c)
             \/ Save(c) \/ Write(c)
      PROVE  UNCHANGED <<backend, memory, scratch>>
  BY <1>2 DEF Chat, Compact, Reset, Load, StartTurn, Prompt, ExecuteTools, Govern, Save, Write
<1>3. CASE Crash
  BY <1>3 DEF Crash
<1>4. CASE UNCHANGED vars
  BY <1>4 DEF vars
<1> QED
  BY <1>1, <1>2, <1>3, <1>4 DEF Next

\* Turns are refused by the step that declines their replies.
LEMMA RefusedStep ==
    ASSUME TypeOK, [Next]_vars
    PROVE  refused' = refused \/ \E c \in Calls : Declines(c)
<1>1. ASSUME NEW c \in Calls, Govern(c) PROVE refused' = refused \/ Declines(c)
  <2>1. /\ pc \in [Calls -> Steps] /\ turn \in [Calls -> 0 .. MaxTurns]
        /\ ctx \in [Calls -> Conversation]
    BY DEF TypeOK
  <2> QED
    BY <1>1, <2>1 DEF Govern, Declines, Same, Goto, End, transcripts, config, memories, call, spent
<1>2. ASSUME NEW c \in Calls,
             \/ \E s \in Sessions : Chat(c, s) \/ Compact(c, s) \/ Reset(c, s)
             \/ Load(c) \/ StartTurn(c) \/ Prompt(c) \/ ExecuteTools(c)
             \/ Persist(c) \/ Save(c) \/ Write(c)
      PROVE  refused' = refused
  BY <1>2 DEF Chat, Compact, Reset, Load, StartTurn, Prompt, ExecuteTools, Persist, Save, Write
<1>3. CASE Crash \/ UNCHANGED vars
  BY <1>3 DEF Crash, vars
<1> QED
  BY <1>1, <1>2, <1>3 DEF Next

-------------------------------------------------------------------------------
(* Tool calls keep their outcomes, chats keep their history *)

\* The message that a call adds to its context.
LEMMA WhatIsSaid ==
    ASSUME TypeOK, NEW c \in Calls, Says(c)
    PROVE  \E m \in Message :
              /\ ctx'[c] = Append(ctx[c], m)
              /\ SavedOf(ctx'[c]) = SavedOf(ctx[c]) \cup {m}
              /\ m.kind \in Replies =>
                    /\ pc[c] = "prompt" /\ pc'[c] = "tools"
                    /\ m.by = c /\ m.turn = turn[c] /\ turn'[c] = turn[c]
<1>1. ctx[c] \in Conversation /\ turn[c] \in Nat /\ turn[c] + 1 \in Nat
  BY LimitsAssumption DEF TypeOK
<1>2. ASSUME NEW t \in Nat, NEW k \in Kinds
      PROVE  /\ Msg(c, t, k) \in Message /\ Msg(c, t, k).kind = k
             /\ Msg(c, t, k).by = c /\ Msg(c, t, k).turn = t
             /\ SavedOf(Append(ctx[c], Msg(c, t, k))) = SavedOf(ctx[c]) \cup {Msg(c, t, k)}
  BY <1>1, MsgIsMessage, AppendSaves
<1>3. "limit" \in Kinds /\ "ask" \in Kinds /\ Replies \subseteq Kinds
      /\ "limit" \notin Replies /\ "ask" \notin Replies
  BY DEF Kinds, Assistant, Replies
<1>4. \/ ctx'[c] = Append(ctx[c], Msg(c, turn[c], "limit"))
      \/ ctx'[c] = Append(ctx[c], Msg(c, turn[c] + 1, "ask"))
      \/ /\ pc[c] = "prompt" /\ pc'[c] = "tools" /\ turn'[c] = turn[c]
         /\ \E k \in Replies : ctx'[c] = Append(ctx[c], Msg(c, turn[c], k))
  BY DEF Says
<1>5. CASE ctx'[c] = Append(ctx[c], Msg(c, turn[c], "limit"))
  BY <1>1, <1>2, <1>3, <1>5
<1>6. CASE ctx'[c] = Append(ctx[c], Msg(c, turn[c] + 1, "ask"))
  BY <1>1, <1>2, <1>3, <1>6
<1>7. CASE /\ pc[c] = "prompt" /\ pc'[c] = "tools" /\ turn'[c] = turn[c]
           /\ \E k \in Replies : ctx'[c] = Append(ctx[c], Msg(c, turn[c], k))
  <2>1. PICK k \in Replies : ctx'[c] = Append(ctx[c], Msg(c, turn[c], k))
    BY <1>7
  <2> QED
    BY <1>1, <1>2, <1>3, <1>7, <2>1
<1> QED
  BY <1>4, <1>5, <1>6, <1>7

LEMMA NextAnswered == Types /\ ContextsAnswered /\ [Next]_vars => ContextsAnswered'
<1> SUFFICES ASSUME TypeOK, ContextsAnswered, [Next]_vars
             PROVE  ContextsAnswered'
  BY DEF Types
<1>t. torn \subseteq torn'
  <2>1. (CHOOSE s \in Sessions : TRUE) \in Sessions
    BY SessionsAssumption
  <2> QED
    BY <2>1, TranscriptStep
<1>1. ASSUME NEW s \in Sessions, NEW t \in {file'[s], row'[s]} PROVE AnsweredBut(t, torn')
  <2>1. CASE t \in {file[s], row[s]}
    BY <1>t, <2>1, MoreCut DEF ContextsAnswered
  <2>2. CASE t = <<>>
    BY <2>2, EmptySaves, NoCallsAnswered
  <2>3. ASSUME NEW c \in Calls, Writes(c, s, t) PROVE AnsweredBut(t, torn')
    <3>1. AnsweredBut(ctx[c], torn)
      BY <2>3 DEF Writes, ContextsAnswered, Working
    <3> QED
      BY <1>t, <2>3, <3>1, WrittenIs
  <2> QED
    BY <2>1, <2>2, <2>3, TranscriptStep
<1>2. ASSUME NEW c \in Calls, Working(c)'
      PROVE  IF pc'[c] = "tools" THEN AnsweredButLast(ctx'[c], torn') ELSE AnsweredBut(ctx'[c], torn')
  <2> SUFFICES IF pc'[c] = "tools" THEN AnsweredButLast(ctx'[c], torn) ELSE AnsweredBut(ctx'[c], torn)
    BY <1>t, MoreCut
  <2>c. ctx[c] \in Conversation
    BY DEF TypeOK
  <2>w. pc'[c] \in {"loop", "save", "write", "prompt", "tools", "govern", "persist"}
    BY <1>2 DEF Working, InTurn
  <2>i. Working(c) =>
           IF pc[c] = "tools" THEN AnsweredButLast(ctx[c], torn) ELSE AnsweredBut(ctx[c], torn)
    BY DEF ContextsAnswered
  <2>1. CASE Keeps(c)
    <3>1. /\ ctx'[c] = ctx[c]
          /\ \/ pc'[c] = pc[c]
             \/ pc[c] = "prompt" /\ pc'[c] = "tools"
             \/ pc[c] = "tools" /\ pc'[c] = "govern" /\ CallsAt(ctx[c]) = {}
             \/ pc[c] \notin {"idle", "load", "tools", "ended"} /\ pc'[c] # "tools"
      BY <2>1, <2>w DEF Keeps
    <3>2. /\ AnsweredBut(ctx[c], torn) => AnsweredButLast(ctx[c], torn)
          /\ CallsAt(ctx[c]) = {} => AnsweredBut(ctx[c], torn)
      BY DEF AnsweredBut, AnsweredButLast
    <3>3. pc[c] \in Steps
      BY DEF TypeOK
    <3> QED
      BY <2>w, <2>i, <3>1, <3>2, <3>3 DEF Working, InTurn, Steps
  <2>2. CASE Begins(c)
    BY <2>2, <2>w DEF Begins
  <2>3. CASE Loads(c)
    <3>1. PICK t \in {file[session[c]], row[session[c]]} :
             /\ job[c] = "compact" => Len(t) > Keep
             /\ ctx'[c] = Context(c, t) /\ pc'[c] # "tools"
      BY <2>3 DEF Loads
    <3>2. t \in Conversation /\ AnsweredBut(t, torn)
      BY DEF TypeOK, ContextsAnswered
    <3> QED
      BY <3>1, <3>2, ContextIs
  <2>4. CASE Says(c)
    <3>1. PICK m \in Message : /\ ctx'[c] = Append(ctx[c], m)
                               /\ m.kind \in Replies => pc'[c] = "tools"
      BY <2>4, WhatIsSaid
    <3>2. AnsweredBut(ctx[c], torn)
      BY <2>4, <2>i DEF Says, Working, InTurn
    <3> QED
      BY <2>c, <3>1, <3>2, AppendAnswers DEF Replies
  <2>5. CASE Executes(c)
    <3>1. AnsweredButLast(ctx[c], torn) /\ pc'[c] # "tools"
      BY <2>5, <2>i DEF Executes, Working, InTurn
    <3> QED
      BY <2>5, <2>c, <3>1, ResultsAnswer DEF Executes
  <2>6. CASE Declines(c)
    BY <2>6, DeclinedIs DEF Declines
  <2> QED
    BY <2>1, <2>2, <2>3, <2>4, <2>5, <2>6, CallStep
<1>3. \A s \in Sessions : AnsweredBut(file'[s], torn') /\ AnsweredBut(row'[s], torn')
  BY <1>1
<1> QED
  BY <1>2, <1>3 DEF ContextsAnswered

\* A provider is never sent a tool call without its outcome right behind it: whichever calls
\* share a session, whatever one of them compacts, declines or saves over, whichever store
\* fails, unless a failing write cut a file right after the call.
THEOREM SpecPromptsAnswered == Spec => []PromptsAnswered
<1>1. Init => ContextsAnswered
  <2> SUFFICES ASSUME Init PROVE ContextsAnswered
    OBVIOUS
  <2>1. \A cut : AnsweredBut(<<>>, cut)
    BY EmptySaves, NoCallsAnswered
  <2> QED
    BY <2>1 DEF Init, ContextsAnswered, Working, InTurn
<1>2. ContextsAnswered => PromptsAnswered
  BY DEF ContextsAnswered, PromptsAnswered, Working, InTurn
<1> QED
  BY <1>1, <1>2, NextAnswered, SpecTypes, PTL DEF Spec

LEMMA NextKept == Types /\ ContextsKept /\ [Next]_vars => ContextsKept'
<1> SUFFICES ASSUME Types, ContextsKept, [Next]_vars,
                    NEW c \in Calls, job'[c] = "chat", Working(c)', NEW m \in SavedOf(loaded'[c])
             PROVE  \/ m \in SavedOf(ctx'[c])
                    \/ m.kind \in Assistant /\ \E t \in 1 .. MaxTurns : <<c, t>> \in refused'
  BY DEF ContextsKept
<1> DEFINE Denied == \E t \in 1 .. MaxTurns : <<c, t>> \in refused
<1>t. TypeOK /\ ctx[c] \in Conversation
  BY DEF Types, TypeOK
<1>r. Denied => \E t \in 1 .. MaxTurns : <<c, t>> \in refused'
  BY <1>t, RefusedStep DEF Declines
<1>w. pc'[c] \in {"loop", "save", "write", "prompt", "tools", "govern", "persist"}
  BY DEF Working, InTurn
<1>i. job[c] = "chat" /\ Working(c) /\ loaded'[c] = loaded[c] =>
         m \in SavedOf(ctx[c]) \/ (m.kind \in Assistant /\ Denied)
  BY DEF ContextsKept
<1> HIDE DEF Denied
<1>1. CASE Keeps(c)
  <2>1. Working(c)
    BY <1>1, <1>w DEF Keeps, Working, InTurn
  <2> QED
    BY <1>1, <1>i, <1>r, <2>1 DEF Keeps, Same
<1>2. CASE Begins(c)
  BY <1>2, <1>w DEF Begins
<1>3. CASE Loads(c)
  <2>1. PICK t \in {file[session[c]], row[session[c]]} :
           job[c] = "chat" /\ loaded'[c] = t /\ ctx'[c] = Context(c, t)
    BY <1>3 DEF Loads
  <2>2. t \in Conversation
    BY <1>t DEF TypeOK
  <2> QED
    BY <1>t, <2>1, <2>2, ContextIs
<1>4. CASE Says(c)
  <2>1. Working(c) /\ job[c] = "chat" /\ loaded'[c] = loaded[c]
    BY <1>4 DEF Says, Same, Working, InTurn
  <2>2. SavedOf(ctx[c]) \subseteq SavedOf(ctx'[c])
    BY <1>4, <1>t, WhatIsSaid
  <2> QED
    BY <1>i, <1>r, <2>1, <2>2
<1>5. CASE Executes(c)
  <2>1. Working(c) /\ job[c] = "chat" /\ loaded'[c] = loaded[c]
    BY <1>5 DEF Executes, Same, Working, InTurn
  <2>2. SavedOf(ctx[c]) \subseteq SavedOf(ctx'[c])
    BY <1>5, <1>t, ExecutedIs DEF Executes
  <2> QED
    BY <1>i, <1>r, <2>1, <2>2
<1>6. CASE Declines(c)
  <2>1. Working(c) /\ job[c] = "chat" /\ loaded'[c] = loaded[c]
    BY <1>6 DEF Declines, Same, Working, InTurn
  <2>2. \A n \in SavedOf(ctx[c]) : n.kind \notin Assistant => n \in SavedOf(ctx'[c])
    BY <1>6, <1>t, DeclinedIs DEF Declines
  <2>3. turn[c] \in 1 .. MaxTurns /\ <<c, turn[c]>> \in refused'
    BY <1>6, LimitsAssumption DEF Declines, Types, TypeOK, TurnsCounted, InTurn
  <2> QED
    BY <1>i, <1>r, <2>1, <2>2, <2>3
<1> QED
  BY <1>t, <1>1, <1>2, <1>3, <1>4, <1>5, <1>6, CallStep

\* A chat saves the whole history it was given, but for what a denied turn takes out: the
\* assistant's messages.
THEOREM SpecHistoryKept == Spec => []HistoryKept
<1>1. Init => ContextsKept
  BY DEF Init, ContextsKept, Working, InTurn
<1>2. Types /\ ContextsKept => HistoryKept
  <2> SUFFICES ASSUME Types, ContextsKept,
                      NEW c \in Calls, job[c] = "chat", pc[c] \in {"save", "write"},
                      NEW i \in 1 .. Len(loaded[c])
               PROVE  \/ In(loaded[c][i], ctx[c])
                      \/ /\ loaded[c][i].kind \in Assistant
                         /\ \E t \in 1 .. MaxTurns : <<c, t>> \in refused
    BY DEF HistoryKept
  <2>1. loaded[c][i] \in SavedOf(loaded[c])
    BY DEF SavedOf
  <2>2. \A m : In(m, ctx[c]) <=> m \in SavedOf(ctx[c])
    BY DEF In, SavedOf
  <2> QED
    BY <2>1, <2>2 DEF ContextsKept, Working
<1> QED
  BY <1>1, <1>2, NextKept, SpecTypes, PTL DEF Spec

-------------------------------------------------------------------------------
(* Replies are remembered *)

LEMMA NextRemembered == Types /\ ContextsRemembered /\ [Next]_vars => ContextsRemembered'
<1> SUFFICES ASSUME TypeOK, ContextsRemembered, [Next]_vars
             PROVE  ContextsRemembered'
  BY DEF Types
<1>b. backend' = backend
  <2>1. (CHOOSE s \in Sessions : TRUE) \in Sessions
    BY SessionsAssumption
  <2> QED
    BY <2>1, MemoryStep
<1>1. ASSUME NEW s \in Sessions, NEW t \in {file'[s], row'[s]}, NEW m \in SavedOf(t),
             m.kind \in Replies, backend[m.by] = "durable"
      PROVE  m \in memory'[s]
  <2>1. memory[s] \subseteq memory'[s]
    BY MemoryStep
  <2>2. CASE t \in {file[s], row[s]}
    BY <1>1, <2>1, <2>2 DEF ContextsRemembered
  <2>3. CASE t = <<>>
    BY <1>1, <2>3, EmptySaves
  <2>4. ASSUME NEW c \in Calls, Writes(c, s, t) PROVE m \in memory'[s]
    <3>1. Working(c) /\ ~Unsaved(c, m) /\ session[c] = s
      BY <2>4 DEF Writes, Working, Unsaved
    <3>2. m \in SavedOf(ctx[c])
      BY <1>1, <2>4, TranscriptStep, WrittenIs
    <3> QED
      BY <1>1, <2>1, <3>1, <3>2 DEF ContextsRemembered
  <2> QED
    BY <2>2, <2>3, <2>4, TranscriptStep
<1>2. ASSUME NEW c \in Calls, Working(c)', NEW m \in SavedOf(ctx'[c]),
             m.kind \in Replies, backend[m.by] = "durable"
      PROVE  m \in memory'[session'[c]] \/ Unsaved(c, m)'
  <2>c. ctx[c] \in Conversation /\ session[c] \in Sessions
    BY DEF TypeOK
  <2>w. pc'[c] \in {"loop", "save", "write", "prompt", "tools", "govern", "persist"}
    BY <1>2 DEF Working, InTurn
  <2>g. memory[session[c]] \subseteq memory'[session[c]]
    BY <2>c, MemoryStep
  <2>i. Working(c) /\ m \in SavedOf(ctx[c]) =>
           \/ m \in memory[session[c]]
           \/ pc[c] \in {"tools", "govern", "persist"} /\ m.by = c /\ m.turn = turn[c]
    BY <1>2 DEF ContextsRemembered, Unsaved
  <2>1. CASE Keeps(c)
    <3>1. session'[c] = session[c] /\ ctx'[c] = ctx[c] /\ turn'[c] = turn[c] /\ Working(c)
      BY <2>1, <2>w DEF Keeps, Same, Working, InTurn
    <3>2. \/ /\ pc[c] \in {"tools", "govern", "persist"}
             /\ pc'[c] \in {"tools", "govern", "persist"}
          \/ pc[c] \notin {"tools", "govern", "persist"}
          \/ backend[c] = "durable" => SavedOf(ctx[c]) \subseteq memory'[session[c]]
      BY <2>1, <2>w DEF Keeps
    <3> QED
      BY <1>2, <2>g, <2>i, <3>1, <3>2 DEF Unsaved
  <2>2. CASE Begins(c)
    BY <2>2, <2>w DEF Begins
  <2>3. CASE Loads(c)
    <3>1. PICK t \in {file[session[c]], row[session[c]]} :
             /\ job[c] = "compact" => Len(t) > Keep
             /\ ctx'[c] = Context(c, t) /\ session'[c] = session[c]
      BY <2>3 DEF Loads
    <3>2. t \in Conversation
      BY <2>c DEF TypeOK
    <3>3. m \in SavedOf(t)
      BY <1>2, <3>1, <3>2, ContextIs
    <3> QED
      BY <1>2, <2>c, <2>g, <3>1, <3>3 DEF ContextsRemembered
  <2>4. CASE Says(c)
    <3>1. PICK n \in Message :
             /\ SavedOf(ctx'[c]) = SavedOf(ctx[c]) \cup {n}
             /\ n.kind \in Replies =>
                   pc'[c] = "tools" /\ n.by = c /\ n.turn = turn[c] /\ turn'[c] = turn[c]
      BY <2>4, WhatIsSaid
    <3>2. /\ Working(c) /\ pc[c] \notin {"tools", "govern", "persist"}
          /\ session'[c] = session[c]
      BY <2>4 DEF Says, Same, Working, InTurn
    <3> QED
      BY <1>2, <2>g, <2>i, <3>1, <3>2 DEF Unsaved
  <2>5. CASE Executes(c)
    <3>1. PICK n \in Message :
             n.kind \in Outcome /\ SavedOf(ctx'[c]) = SavedOf(ctx[c]) \cup {n}
      BY <2>5, <2>c, ExecutedIs DEF Executes
    <3>2. m \in SavedOf(ctx[c])
      BY <1>2, <3>1 DEF Replies, Outcome
    <3>3. /\ Working(c) /\ pc'[c] = "govern"
          /\ session'[c] = session[c] /\ turn'[c] = turn[c]
      BY <2>5 DEF Executes, Same, Working, InTurn
    <3> QED
      BY <2>g, <2>i, <3>2, <3>3 DEF Unsaved
  <2>6. CASE Declines(c)
    <3>1. turn[c] \in Nat
      BY LimitsAssumption DEF TypeOK
    <3>2. Msg(c, turn[c], "decline").kind = "decline"
      BY <3>1, MsgIsMessage DEF Kinds, Assistant
    <3>3. m.kind \notin Assistant \/ m.kind = "decline"
      BY <1>2, <2>6, <3>2, DeclinedIs DEF Declines
    <3> QED
      BY <1>2, <3>3 DEF Assistant, Replies
  <2> QED
    BY <2>1, <2>2, <2>3, <2>4, <2>5, <2>6, CallStep
<1>3. \A s \in Sessions : \A m \in SavedOf(file'[s]) \cup SavedOf(row'[s]) :
         m.kind \in Replies /\ backend[m.by] = "durable" => m \in memory'[s]
  BY <1>1
<1> QED
  BY <1>b, <1>2, <1>3 DEF ContextsRemembered

\* Every reply that a transcript repeats to the provider, and that came from a runtime with a
\* database, is in the conversation memory of its session: whoever saved the transcript, to
\* whichever store, whatever failed on the way and however often the process was lost.
THEOREM SpecRepliesRemembered == Spec => []RepliesRemembered
<1>1. Init => ContextsRemembered
  <2> SUFFICES ASSUME Init PROVE ContextsRemembered
    OBVIOUS
  <2> QED
    BY EmptySaves DEF Init, ContextsRemembered, Working, InTurn
<1>2. ContextsRemembered => RepliesRemembered
  <2> SUFFICES ASSUME ContextsRemembered, NEW s \in Sessions, NEW t \in {file[s], row[s]},
                      NEW i \in 1 .. Len(t), t[i].kind \in Replies, backend[t[i].by] = "durable"
               PROVE  t[i] \in memory[s]
    BY DEF RepliesRemembered
  <2>1. t[i] \in SavedOf(t)
    BY DEF SavedOf
  <2> QED
    BY <2>1 DEF ContextsRemembered
<1> QED
  BY <1>1, <1>2, NextRemembered, SpecTypes, PTL DEF Spec

-------------------------------------------------------------------------------
(* Denied replies are nowhere *)

\* What the memory or a transcript receives is in the context of a call past its turn.
LEMMA StoredStep ==
    ASSUME TypeOK, [Next]_vars, NEW m, Stored(m)'
    PROVE  \/ Stored(m)
           \/ \E d \in Calls : m \in SavedOf(ctx[d]) /\ pc[d] # "idle" /\ ~InTurn(d)'
<1>1. PICK s \in Sessions :
         \/ m \in memory'[s] \cup scratch'[s]
         \/ \E t \in {file'[s], row'[s]} : m \in SavedOf(t)
  BY DEF Stored
<1>2. CASE m \in memory'[s] \cup scratch'[s]
  <2>1. \/ m \in memory[s] \cup scratch[s]
        \/ \E c \in Calls : /\ pc[c] = "persist" /\ pc'[c] \in {"loop", "save", "ended"}
                            /\ m \in SavedOf(ctx[c])
    BY <1>2, MemoryStep
  <2> QED
    BY <2>1 DEF Stored, InTurn
<1>3. ASSUME NEW t \in {file'[s], row'[s]}, m \in SavedOf(t)
      PROVE  \/ Stored(m)
             \/ \E d \in Calls : m \in SavedOf(ctx[d]) /\ pc[d] # "idle" /\ ~InTurn(d)'
  <2>1. CASE t \in {file[s], row[s], <<>>}
    BY <1>3, <2>1, EmptySaves DEF Stored
  <2>2. ASSUME NEW c \in Calls, Writes(c, s, t)
        PROVE  m \in SavedOf(ctx[c]) /\ pc[c] # "idle" /\ ~InTurn(c)'
    <3>1. m \in SavedOf(ctx[c])
      BY <1>3, <2>2, TranscriptStep, WrittenIs
    <3> QED
      BY <2>2, <3>1 DEF Writes, InTurn
  <2> QED
    BY <2>1, <2>2, TranscriptStep
<1> QED
  BY <1>1, <1>2, <1>3

\* A call holds a reply that it held, that it loads, or that its provider just gave it.
LEMMA HeldStep ==
    ASSUME TypeOK, [Next]_vars, NEW d \in Calls, NEW m \in SavedOf(ctx'[d]), m.kind \in Replies
    PROVE  \/ m \in SavedOf(ctx[d])
           \/ Stored(m)
           \/ /\ pc[d] = "prompt" /\ pc'[d] = "tools"
              /\ m.by = d /\ m.turn = turn[d] /\ turn'[d] = turn[d]
<1>c. ctx[d] \in Conversation /\ session[d] \in Sessions
      /\ file[session[d]] \in Conversation /\ row[session[d]] \in Conversation
      /\ turn[d] \in Nat
  BY LimitsAssumption DEF TypeOK
<1>1. CASE Keeps(d) \/ Begins(d)
  BY <1>1 DEF Keeps, Begins
<1>2. CASE Loads(d)
  <2>1. \E t \in {file[session[d]], row[session[d]]} : m \in SavedOf(t)
    BY <1>c, <1>2, ContextIs DEF Loads
  <2> QED
    BY <1>c, <2>1 DEF Stored
<1>3. CASE Says(d)
  BY <1>3, WhatIsSaid
<1>4. CASE Executes(d)
  BY <1>4, <1>c, ExecutedIs DEF Executes, Replies, Outcome
<1>5. CASE Declines(d)
  <2>1. Msg(d, turn[d], "decline").kind = "decline"
    BY <1>c, MsgIsMessage DEF Kinds, Assistant
  <2> QED
    BY <1>5, <2>1, DeclinedIs DEF Declines, Replies
<1> QED
  BY <1>1, <1>2, <1>3, <1>4, <1>5, CallStep

\* Turns are counted up, one at the prompt of each.
LEMMA TurnStep ==
    ASSUME TypeOK, [Next]_vars, NEW c \in Calls
    PROVE  /\ turn[c] \in Nat /\ turn'[c] \in Nat
           /\ turn'[c] = turn[c] \/ turn'[c] = turn[c] + 1
           /\ InTurn(c)' => (InTurn(c) /\ turn'[c] = turn[c]) \/ turn'[c] = turn[c] + 1
           /\ pc'[c] = "prompt" =>
                 (pc[c] = "prompt" /\ turn'[c] = turn[c]) \/ turn'[c] = turn[c] + 1
           /\ pc[c] \in {"save", "write"} \cup {"ended"} =>
                 pc'[c] \in {"save", "write"} \cup {"ended"}
<1>1. turn[c] \in Nat /\ turn[c] + 1 \in Nat
  BY LimitsAssumption DEF TypeOK
<1>2. CASE Keeps(c)
  BY <1>1, <1>2 DEF Keeps, InTurn
<1>3. CASE Begins(c) \/ Loads(c)
  BY <1>1, <1>3 DEF Begins, Loads, InTurn
<1>4. CASE Says(c)
  BY <1>1, <1>4 DEF Says, InTurn
<1>5. CASE Executes(c) \/ Declines(c)
  BY <1>1, <1>5 DEF Executes, Declines, InTurn
<1> QED
  BY <1>2, <1>3, <1>4, <1>5, CallStep

LEMMA NextApart == Types /\ TurnsApart /\ [Next]_vars => TurnsApart'
<1> SUFFICES ASSUME TypeOK, TurnsApart, [Next]_vars,
                    NEW c \in Calls, NEW m \in Message, m.by = c, m.kind \in Replies
             PROVE  /\ Stored(m)' \/ (\E d \in Calls \ {c} : m \in SavedOf(ctx'[d])) =>
                          m.turn <= turn'[c] /\ (InTurn(c)' => m.turn < turn'[c])
                    /\ m \in SavedOf(ctx'[c]) =>
                          m.turn <= turn'[c] /\ (pc'[c] = "prompt" => m.turn < turn'[c])
  BY DEF Types, TurnsApart
<1> DEFINE Out == Stored(m) \/ \E d \in Calls \ {c} : m \in SavedOf(ctx[d])
           Held == m \in SavedOf(ctx[c])
<1>1. m.turn \in Nat
  BY DEF Message
<1>2. /\ Out => m.turn <= turn[c] /\ (InTurn(c) => m.turn < turn[c])
      /\ Held => m.turn <= turn[c] /\ (pc[c] = "prompt" => m.turn < turn[c])
  BY DEF TurnsApart
<1>3. Out => m.turn <= turn'[c] /\ (InTurn(c)' => m.turn < turn'[c])
  BY <1>1, <1>2, TurnStep
<1>4. Held => m.turn <= turn'[c] /\ (pc'[c] = "prompt" => m.turn < turn'[c])
  BY <1>1, <1>2, TurnStep
<1>5. ASSUME Stored(m)' PROVE Out \/ (Held /\ ~InTurn(c)')
  BY <1>5, StoredStep
<1>6. ASSUME NEW d \in Calls \ {c}, m \in SavedOf(ctx'[d]) PROVE Out
  BY <1>6, HeldStep
<1>7. ASSUME m \in SavedOf(ctx'[c])
      PROVE  Out \/ Held \/ (pc'[c] = "tools" /\ m.turn = turn[c] /\ turn'[c] = turn[c])
  BY <1>7, HeldStep
<1>8. pc'[c] = "prompt" => InTurn(c)'
  BY DEF InTurn
<1> HIDE DEF Out, Held
<1>9. Stored(m)' \/ (\E d \in Calls \ {c} : m \in SavedOf(ctx'[d])) =>
         m.turn <= turn'[c] /\ (InTurn(c)' => m.turn < turn'[c])
  BY <1>3, <1>4, <1>5, <1>6
<1>10. m \in SavedOf(ctx'[c]) =>
          m.turn <= turn'[c] /\ (pc'[c] = "prompt" => m.turn < turn'[c])
  BY <1>1, <1>3, <1>4, <1>7, <1>8, TurnStep
<1> QED
  BY <1>9, <1>10

LEMMA NextGone == Types /\ TurnsApart /\ RefusedGone /\ [Next]_vars => RefusedGone'
<1> SUFFICES ASSUME Types, TurnsApart, RefusedGone, [Next]_vars,
                    NEW c \in Calls, NEW t \in Nat, <<c, t>> \in refused'
             PROVE  /\ t \in 1 .. MaxTurns
                    /\ pc'[c] \in {"save", "write"} \cup {"ended"}
                    /\ \A m \in Message : m.by = c /\ m.turn = t /\ m.kind \in Replies =>
                          ~Stored(m)' /\ \A d \in Calls : m \notin SavedOf(ctx'[d])
  BY DEF RefusedGone
<1>t. TypeOK
  BY DEF Types
<1>1. CASE <<c, t>> \in refused
  <2>1. t \in 1 .. MaxTurns /\ pc[c] \in {"save", "write"} \cup {"ended"}
    BY <1>1 DEF RefusedGone
  <2>2. pc'[c] \in {"save", "write"} \cup {"ended"}
    BY <1>t, <2>1, TurnStep
  <2>3. ASSUME NEW m \in Message, m.by = c, m.turn = t, m.kind \in Replies
        PROVE  ~Stored(m)' /\ \A d \in Calls : m \notin SavedOf(ctx'[d])
    <3>1. ~Stored(m) /\ \A d \in Calls : m \notin SavedOf(ctx[d])
      BY <1>1, <2>3 DEF RefusedGone
    <3>2. pc[c] # "prompt"
      BY <2>1 
    <3>3. ~Stored(m)'
      BY <1>t, <3>1, StoredStep
    <3>4. \A d \in Calls : m \notin SavedOf(ctx'[d])
      BY <1>t, <2>3, <3>1, <3>2, HeldStep
    <3> QED
      BY <3>3, <3>4
  <2> QED
    BY <2>1, <2>2, <2>3
<1>2. CASE <<c, t>> \notin refused
  <2>1. PICK e \in Calls : Declines(e)
    BY <1>t, <1>2, RefusedStep
  <2>2. e = c /\ t = turn[c] /\ Declines(c)
    BY <1>2, <2>1 DEF Declines
  <2>3. InTurn(c) /\ t \in 1 .. MaxTurns /\ pc'[c] = "save"
    BY <2>2, LimitsAssumption DEF Declines, Types, TypeOK, TurnsCounted, InTurn
  <2>4. ASSUME NEW m \in Message, m.by = c, m.turn = t, m.kind \in Replies
        PROVE  ~Stored(m)' /\ \A d \in Calls : m \notin SavedOf(ctx'[d])
    <3>1. ~Stored(m) /\ \A d \in Calls \ {c} : m \notin SavedOf(ctx[d])
      <4>1. ~(m.turn < turn[c])
        BY <2>2, <2>4
      <4> QED
        BY <2>3, <2>4, <4>1 DEF TurnsApart
    <3>2. ~Stored(m)'
      BY <2>2, <3>1 DEF Declines, Stored
    <3>3. m \notin SavedOf(ctx'[c])
      <4>1. Msg(c, t, "decline").kind = "decline"
        BY MsgIsMessage DEF Kinds, Assistant
      <4> QED
        BY <1>t, <2>2, <2>4, <4>1, DeclinedIs DEF Declines, Assistant, Replies
    <3> QED
      BY <2>2, <3>1, <3>2, <3>3 DEF Declines
  <2> QED
    BY <2>3, <2>4
<1> QED
  BY <1>1, <1>2

\* A reply that governance denied reaches neither the memory nor a transcript: not then, and
\* not later through the context of another call.
THEOREM SpecRefusedNeverStored == Spec => []RefusedNeverStored
<1>1. Init => TurnsApart /\ RefusedGone
  <2> SUFFICES ASSUME Init PROVE TurnsApart /\ RefusedGone
    OBVIOUS
  <2>1. \A m : ~Stored(m) /\ \A d \in Calls : m \notin SavedOf(ctx[d])
    BY EmptySaves DEF Init, Stored
  <2> QED
    BY <2>1 DEF Init, TurnsApart, RefusedGone
<1>2. RefusedGone => RefusedNeverStored
  <2> SUFFICES ASSUME RefusedGone, NEW c \in Calls, NEW k \in Replies,
                      NEW t \in 1 .. MaxTurns, <<c, t>> \in refused, NEW s \in Sessions
               PROVE  /\ Msg(c, t, k) \notin memory[s] \cup scratch[s]
                      /\ ~In(Msg(c, t, k), file[s]) /\ ~In(Msg(c, t, k), row[s])
    BY DEF RefusedNeverStored
  <2>1. t \in Nat /\ k \in Kinds
    BY LimitsAssumption DEF Kinds, Assistant
  <2>2. /\ Msg(c, t, k) \in Message /\ Msg(c, t, k).kind = k
        /\ Msg(c, t, k).by = c /\ Msg(c, t, k).turn = t
    BY <2>1, MsgIsMessage
  <2>3. ~Stored(Msg(c, t, k))
    BY <2>1, <2>2 DEF RefusedGone
  <2> QED
    BY <2>3 DEF Stored, In, SavedOf
<1> QED
  BY <1>1, <1>2, NextApart, NextGone, SpecTypes, PTL DEF Spec

===============================================================================
