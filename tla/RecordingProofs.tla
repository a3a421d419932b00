--------------------------- MODULE RecordingProofs ---------------------------
(***************************************************************************)
(* Proofs about Recording.tla, for any finite set of windows, any sets of  *)
(* recorders and payloads and any MaxSeq: the type invariant, the two      *)
(* buffer invariants and the refinement of WindowLog.                      *)
(***************************************************************************)
EXTENDS Recording, FiniteSetTheorems, SequenceTheorems, WellFoundedInduction, TLAPS

-----------------------------------------------------------------------------
(* Queues without their first slots.                                       *)

(* Skipping n slots of a queue leaves a queue of the other ones, in order. *)
LEMMA SkipProperties ==
    ASSUME NEW S, NEW s \in Seq(S), NEW n \in 0 .. Len(s)
    PROVE  /\ Skip(s, n) \in Seq(S)
           /\ Len(Skip(s, n)) = Len(s) - n
           /\ \A i \in 1 .. Len(s) - n : Skip(s, n)[i] = s[n + i]
<1>1. \A i \in n + 1 .. Len(s) : s[i] \in S
  BY ElementOfSeq
<1>2. /\ n + 1 \in Int
      /\ Len(s) \in Nat
  BY LenProperties
<1>3. /\ Skip(s, n) \in Seq(S)
      /\ Len(Skip(s, n)) = IF n + 1 <= Len(s) THEN Len(s) - (n + 1) + 1 ELSE 0
      /\ \A i \in 1 .. Len(s) - (n + 1) + 1 : Skip(s, n)[i] = s[(n + 1) + i - 1]
  BY <1>1, <1>2, SubSeqProperties DEF Skip
<1>4. QED
  BY <1>2, <1>3

(* Trimming the front of the buffer and skipping from the new front is the *)
(* same as skipping from the old front.                                    *)
LEMMA SkipOfSkip ==
    ASSUME NEW S, NEW s \in Seq(S), NEW a \in 0 .. Len(s), NEW b \in a .. Len(s)
    PROVE  Skip(Skip(s, a), b - a) = Skip(s, b)
<1> DEFINE t == Skip(s, a)
<1>1. /\ Len(s) \in Nat
      /\ a \in Nat /\ b \in Nat /\ a <= b /\ b <= Len(s)
  BY LenProperties
<1>2. /\ t \in Seq(S)
      /\ Len(t) = Len(s) - a
      /\ \A i \in 1 .. Len(s) - a : t[i] = s[a + i]
  BY SkipProperties
<1>3. b - a \in 0 .. Len(t) /\ b \in 0 .. Len(s)
  BY <1>1, <1>2
<1> HIDE DEF t
<1> DEFINE d == b - a
<1> HIDE DEF d
<1>4. /\ Skip(t, b - a) \in Seq(S)
      /\ Len(Skip(t, b - a)) = Len(t) - (b - a)
      /\ \A i \in 1 .. Len(t) - (b - a) : Skip(t, b - a)[i] = t[(b - a) + i]
  <2>1. t \in Seq(S) /\ d \in 0 .. Len(t)
    BY <1>2, <1>3 DEF d
  <2>2. /\ Skip(t, d) \in Seq(S) /\ Len(Skip(t, d)) = Len(t) - d
        /\ \A i \in 1 .. Len(t) - d : Skip(t, d)[i] = t[d + i]
    BY <2>1, SkipProperties
  <2>3. QED
    BY <2>2 DEF d
<1>5. /\ Skip(s, b) \in Seq(S)
      /\ Len(Skip(s, b)) = Len(s) - b
      /\ \A i \in 1 .. Len(s) - b : Skip(s, b)[i] = s[b + i]
  BY <1>3, SkipProperties
<1>6. Len(Skip(t, b - a)) = Len(Skip(s, b))
  <2>1. Len(Skip(t, b - a)) = (Len(s) - a) - (b - a)
    BY <1>2, <1>4
  <2>2. (Len(s) - a) - (b - a) = Len(s) - b
    BY <1>1
  <2>3. QED
    BY <2>1, <2>2, <1>5
<1>7. ASSUME NEW i \in 1 .. Len(Skip(t, b - a))
      PROVE  Skip(t, b - a)[i] = Skip(s, b)[i]
  <2>1. i \in 1 .. Len(t) - (b - a) /\ i \in 1 .. Len(s) - b
    BY <1>1, <1>2, <1>4
  <2>2. (b - a) + i \in 1 .. Len(s) - a /\ a + ((b - a) + i) = b + i
    BY <1>1, <2>1
  <2>3. QED
    BY <1>2, <1>4, <1>5, <2>1, <2>2
<1>8. Skip(t, b - a) = Skip(s, b)
  BY <1>4, <1>5, <1>6, <1>7, SeqEqual
<1>9. QED
  BY <1>8 DEF t

(* An event pushed at the end of the buffer is pushed at the end of every  *)
(* slice of it.                                                            *)
LEMMA SkipOfAppend ==
    ASSUME NEW S, NEW s \in Seq(S), NEW n \in 0 .. Len(s), NEW e \in S
    PROVE  Skip(Append(s, e), n) = Append(Skip(s, n), e)
<1> DEFINE t == Append(s, e)
           u == Skip(s, n)
<1>1. Len(s) \in Nat
  BY LenProperties
<1>2. /\ t \in Seq(S)
      /\ Len(t) = Len(s) + 1
      /\ \A i \in 1 .. Len(s) : t[i] = s[i]
      /\ t[Len(s) + 1] = e
  BY AppendProperties
<1>3. /\ u \in Seq(S)
      /\ Len(u) = Len(s) - n
      /\ \A i \in 1 .. Len(s) - n : u[i] = s[n + i]
  BY SkipProperties
<1> HIDE DEF t, u
<1>4. n \in 0 .. Len(t)
  BY <1>1, <1>2
<1>5. /\ Skip(t, n) \in Seq(S)
      /\ Len(Skip(t, n)) = Len(t) - n
      /\ \A i \in 1 .. Len(t) - n : Skip(t, n)[i] = t[n + i]
  BY <1>2, <1>4, SkipProperties
<1>6. /\ Append(u, e) \in Seq(S)
      /\ Len(Append(u, e)) = Len(u) + 1
      /\ \A i \in 1 .. Len(u) : Append(u, e)[i] = u[i]
      /\ Append(u, e)[Len(u) + 1] = e
  BY <1>3, AppendProperties
<1>7. Len(Skip(t, n)) = Len(Append(u, e))
  BY <1>1, <1>2, <1>3, <1>5, <1>6
<1>8. ASSUME NEW i \in 1 .. Len(Skip(t, n))
      PROVE  Skip(t, n)[i] = Append(u, e)[i]
  <2>1. i \in 1 .. Len(t) - n
    BY <1>5
  <2>2. CASE i = Len(u) + 1
    <3>1. n + i = Len(s) + 1
      BY <2>2, <1>1, <1>3
    <3>2. QED
      BY <2>1, <2>2, <3>1, <1>2, <1>5, <1>6
  <2>3. CASE i # Len(u) + 1
    <3>1. /\ n \in Nat /\ n <= Len(s)
          /\ Len(u) = Len(s) - n
          /\ Len(t) = Len(s) + 1
      BY <1>1, <1>2, <1>3
    <3>2. i \in 1 .. Len(u) /\ i \in 1 .. Len(s) - n /\ n + i \in 1 .. Len(s)
      <4> HIDE DEF Skip
      <4>1. i \in 1 .. (Len(s) + 1) - n
        BY <2>1, <3>1
      <4>2. i # (Len(s) - n) + 1
        BY <2>3, <3>1
      <4>3. i \in 1 .. Len(s) - n /\ n + i \in 1 .. Len(s)
        BY <4>1, <4>2, <3>1, <1>1
      <4>4. QED
        BY <4>3, <3>1
    <3>3. QED
      BY <2>1, <3>2, <1>2, <1>3, <1>5, <1>6
  <2>4. QED
    BY <2>2, <2>3
<1>9. Skip(t, n) = Append(u, e)
  BY <1>5, <1>6, <1>7, <1>8, SeqEqual
<1>10. QED
  BY <1>9 DEF t, u

(* Nothing is left of a queue when every slot is skipped.                  *)
LEMMA SkipAll ==
    ASSUME NEW S, NEW s \in Seq(S)
    PROVE  Skip(s, Len(s)) = <<>>
<1>1. Len(s) \in Nat
  BY LenProperties
<1>2. QED
  BY <1>1, SubSeqEmpty DEF Skip

-----------------------------------------------------------------------------
(* The oldest of a non-empty set of starts is a least element of it.       *)
LEMMA OldestIsLeast ==
    ASSUME NEW starts \in [Seqs -> Nat], Registered(starts) # {}
    PROVE  /\ Oldest(starts) \in Registered(starts)
           /\ \A s \in Registered(starts) : Oldest(starts) <= s
<1> DEFINE R == OpToRel(<, Nat)
<1>1. Registered(starts) \subseteq Nat
  BY RecordingAssumption DEF Registered, Seqs
<1>2. IsWellFoundedOn(R, Nat)
  BY NatLessThanWellFounded
<1>3. \A x, y \in Nat : y < x => <<y, x>> \in R
  BY DEF OpToRel
<1> HIDE DEF R
<1>4. PICK x \in Registered(starts) : \A y \in Registered(starts) : ~ (<<y, x>> \in R)
  BY <1>1, <1>2, WFMin
<1>5. ASSUME NEW y \in Registered(starts)
      PROVE  x <= y
  <2>1. x \in Nat /\ y \in Nat
    BY <1>1
  <2>2. ~ (y < x)
    BY <2>1, <1>3, <1>4
  <2>3. QED
    BY <2>1, <2>2
<1>6. QED
  BY <1>5 DEF Oldest

(* A count is positive exactly if a window is counted.                     *)
LEMMA SomeCounted ==
    ASSUME NEW W \in SUBSET Windows, NEW n \in Nat, n = Cardinality(W)
    PROVE  n > 0 <=> W # {}
<1>1. IsFiniteSet(W)
  BY RecordingAssumption, FS_Subset
<1>2. Cardinality(W) = 0 <=> W = {}
  BY <1>1, FS_EmptySet
<1>3. n > 0 <=> n # 0
  OBVIOUS
<1>4. QED
  BY <1>2, <1>3

(* The mutex is held only while a window is being registered or dropped.   *)
LEMMA MutexFree ==
    ASSUME IInv, lock = NoOne
    PROVE  /\ \A w \in Windows : wpc[w] \in {"closed", "open", "taken"}
           /\ Listed = OpenWindows
           /\ Counted = OpenWindows
<1>1. \A w \in Windows : wpc[w] \notin {"registering", "dropping"}
  BY RecordingAssumption DEF IInv, MutexInv
<1>2. QED
  BY <1>1 DEF IInv, TypeOK, WindowPC, Listed, Counted, OpenWindows

-----------------------------------------------------------------------------
LEMMA InitInv == Init => IInv
<1> SUFFICES ASSUME Init PROVE IInv
  OBVIOUS
<1> USE DEF Init
<1>1. Listed = {} /\ Counted = {} /\ OpenWindows = {}
  BY DEF Listed, Counted, OpenWindows
<1>2. Len(buffer) = 0 /\ buffer \in Seq(Events) /\ \A w \in Windows : taken[w] \in Seq(Events)
  BY EmptySeq
<1>3. TypeOK
  BY <1>2, RecordingAssumption DEF TypeOK, NextSeq, Seqs, WindowPC, RecorderPC
<1>4. MutexInv
  BY RecordingAssumption DEF MutexInv
<1>5. StartsInv
  BY <1>1, FS_EmptySet DEF StartsInv, StartsWith
<1>6. RefsInv
  BY <1>1, FS_EmptySet DEF RefsInv
<1>7. StartsInBuffer /\ RegisteringInv /\ BufferTrim
  BY <1>1 DEF StartsInBuffer, RegisteringInv, BufferTrim
<1>8. OwedInv
  BY DEF OwedInv
<1>9. QED
  BY <1>3, <1>4, <1>5, <1>6, <1>7, <1>8 DEF IInv

LEMMA StartRegisterInv ==
    ASSUME IInv, NEW w \in Windows, StartRegister(w)
    PROVE  IInv'
<1> USE DEF StartRegister
<1>1. /\ TypeOK /\ NextSeq \in Seqs /\ NextSeq' = NextSeq
      /\ w \notin Listed
      /\ \A v \in Windows : wpc[v] \in {"closed", "open", "taken"}
  BY MutexFree DEF IInv, TypeOK, NextSeq, Listed
<1>2. /\ Listed' = Listed \cup {w}
      /\ Counted' = Counted
      /\ OpenWindows' = OpenWindows
  BY <1>1 DEF TypeOK, Listed, Counted, OpenWindows
<1>3. \A v \in Windows : startSeq'[v] = IF v = w THEN NextSeq ELSE startSeq[v]
  BY <1>1 DEF TypeOK
<1>4. TypeOK'
  BY <1>1 DEF TypeOK, WindowPC, Seqs
<1>5. MutexInv'
  BY <1>1 DEF MutexInv, TypeOK
<1>6. StartsInv'
  <2> SUFFICES ASSUME NEW s \in Seqs
               PROVE  activeStarts'[s] = Cardinality(StartsWith(s)')
    BY DEF StartsInv
  <2>1. StartsWith(s) \in SUBSET Windows /\ IsFiniteSet(StartsWith(s)) /\ w \notin StartsWith(s)
    BY <1>1, RecordingAssumption, FS_Subset DEF StartsWith, Listed
  <2>2. activeStarts[s] = Cardinality(StartsWith(s)) /\ activeStarts[s] \in Nat
    BY <1>1 DEF IInv, StartsInv, TypeOK
  <2>3. CASE s = NextSeq
    <3>1. StartsWith(s)' = StartsWith(s) \cup {w}
      BY <2>3, <1>2, <1>3 DEF StartsWith, Listed
    <3>2. activeStarts'[s] = activeStarts[s] + 1
      BY <2>3, <1>1 DEF TypeOK
    <3>3. Cardinality(StartsWith(s) \cup {w}) = Cardinality(StartsWith(s)) + 1
      BY <2>1, FS_AddElement
    <3>4. QED
      BY <3>1, <3>2, <3>3, <2>2
  <2>4. CASE s # NextSeq
    <3>1. StartsWith(s)' = StartsWith(s)
      BY <2>4, <1>1, <1>2, <1>3 DEF StartsWith, Listed
    <3>2. activeStarts'[s] = activeStarts[s]
      BY <2>4, <1>1 DEF TypeOK
    <3>3. QED
      BY <3>1, <3>2, <2>2
  <2>5. QED
    BY <2>3, <2>4
<1>7. RefsInv'
  BY <1>2 DEF IInv, RefsInv
<1>8. StartsInBuffer'
  BY <1>1, <1>2, <1>3 DEF IInv, StartsInBuffer, NextSeq, TypeOK, Listed, Seqs
<1>9. RegisteringInv'
  BY <1>1, <1>3 DEF RegisteringInv, TypeOK
<1>10. BufferTrim'
  <2>1. CASE Listed = {}
    <3>1. buffer = <<>> /\ startSeq'[w] = NextSeq
      BY <2>1, <1>3 DEF IInv, BufferTrim
    <3>2. startSeq'[w] = frontSeq'
      BY <3>1, <1>1 DEF NextSeq, TypeOK, Seqs
    <3>3. QED
      BY <3>2, <1>2 DEF BufferTrim
  <2>2. CASE Listed # {}
    <3>1. PICK v \in Listed : startSeq[v] = frontSeq
      BY <2>2 DEF IInv, BufferTrim
    <3>2. v \in Listed' /\ startSeq'[v] = frontSeq'
      BY <3>1, <1>1, <1>2, <1>3 DEF Listed
    <3>3. QED
      BY <3>2 DEF BufferTrim
  <2>3. QED
    BY <2>1, <2>2
<1>11. OwedInv'
  BY <1>2 DEF IInv, OwedInv
<1>12. QED
  BY <1>4, <1>5, <1>6, <1>7, <1>8, <1>9, <1>10, <1>11 DEF IInv

LEMMA StartReturnInv ==
    ASSUME IInv, NEW w \in Windows, StartReturn(w)
    PROVE  IInv'
<1> USE DEF StartReturn
<1>1. TypeOK /\ lock = w /\ NextSeq' = NextSeq
  BY DEF IInv, MutexInv, NextSeq
<1>2. /\ Listed' = Listed
      /\ Counted' = Counted \cup {w} /\ w \notin Counted
      /\ OpenWindows' = OpenWindows \cup {w}
  BY <1>1 DEF TypeOK, Listed, Counted, OpenWindows
<1>3. TypeOK'
  BY <1>1 DEF TypeOK, WindowPC
<1>4. MutexInv'
  BY <1>1, RecordingAssumption DEF IInv, MutexInv, TypeOK
<1>5. StartsInv'
  BY <1>2 DEF IInv, StartsInv, StartsWith
<1>6. RefsInv'
  <2>1. Counted \in SUBSET Windows /\ IsFiniteSet(Counted)
    BY RecordingAssumption, FS_Subset DEF Counted
  <2>2. Cardinality(Counted \cup {w}) = Cardinality(Counted) + 1
    BY <2>1, <1>2, FS_AddElement
  <2>3. QED
    BY <2>2, <1>2 DEF IInv, RefsInv
<1>7. StartsInBuffer' /\ BufferTrim'
  BY <1>1, <1>2 DEF IInv, StartsInBuffer, BufferTrim
<1>8. RegisteringInv'
  BY <1>1 DEF IInv, RegisteringInv, TypeOK
<1>9. OwedInv'
  BY <1>2 DEF IInv, OwedInv
<1>10. QED
  BY <1>3, <1>4, <1>5, <1>6, <1>7, <1>8, <1>9 DEF IInv

LEMMA TakeInv ==
    ASSUME IInv, NEW w \in Windows, Take(w)
    PROVE  IInv'
<1> USE DEF Take
<1>1. TypeOK /\ NextSeq' = NextSeq
  BY DEF IInv, NextSeq
<1>2. Listed' = Listed /\ Counted' = Counted /\ OpenWindows' = OpenWindows
  BY <1>1 DEF TypeOK, Listed, Counted, OpenWindows
<1>3. startSeq[w] - frontSeq \in 0 .. Len(buffer)
  BY <1>1, LenProperties DEF IInv, StartsInBuffer, Listed, TypeOK, NextSeq, Seqs
<1>4. Skip(buffer, startSeq[w] - frontSeq) \in Seq(Events)
  BY <1>1, <1>3, SkipProperties DEF TypeOK
<1>5. TypeOK'
  BY <1>1, <1>4 DEF TypeOK, WindowPC
<1>6. MutexInv'
  BY <1>1 DEF IInv, MutexInv, TypeOK
<1>7. StartsInv' /\ RefsInv' /\ StartsInBuffer' /\ BufferTrim'
  BY <1>1, <1>2 DEF IInv, StartsInv, StartsWith, RefsInv, StartsInBuffer, BufferTrim
<1>8. RegisteringInv' /\ OwedInv'
  BY <1>1, <1>2 DEF IInv, RegisteringInv, OwedInv, TypeOK
<1>9. QED
  BY <1>5, <1>6, <1>7, <1>8 DEF IInv

(* What dropping window w leaves behind: its start, and only its, is gone  *)
(* from active_starts.                                                     *)
LEMMA DropDeregisters ==
    ASSUME IInv, NEW w \in Windows, DropTrim(w)
    PROVE  /\ Listed' = Listed \ {w}
           /\ w \in Listed
           /\ Deregister(startSeq[w]) \in [Seqs -> Nat]
           /\ \A s \in Seqs : Deregister(startSeq[w])[s] =
                                 Cardinality({v \in Listed \ {w} : startSeq[v] = s})
<1> DEFINE starts == Deregister(startSeq[w])
<1>1. /\ TypeOK /\ w \in Listed /\ Listed' = Listed \ {w} /\ startSeq[w] \in Seqs
      /\ activeStarts \in [Seqs -> Nat]
  BY DEF IInv, TypeOK, DropTrim, Listed, OpenWindows
<1>2. \A s \in Seqs : /\ StartsWith(s) \in SUBSET Windows
                       /\ IsFiniteSet(StartsWith(s))
                       /\ activeStarts[s] = Cardinality(StartsWith(s))
  BY RecordingAssumption, FS_Subset DEF IInv, StartsInv, StartsWith, Listed
<1>3. activeStarts[startSeq[w]] > 0
  <2>1. w \in StartsWith(startSeq[w])
    BY <1>1 DEF StartsWith
  <2>2. Cardinality(StartsWith(startSeq[w])) # 0
    BY <1>1, <1>2, <2>1, FS_EmptySet
  <2>3. QED
    BY <1>1, <1>2, <2>2
<1>4. starts = [activeStarts EXCEPT ![startSeq[w]] = @ - 1]
  BY <1>3 DEF Deregister
<1>5. starts \in [Seqs -> Nat]
  BY <1>1, <1>3, <1>4
<1>6. ASSUME NEW s \in Seqs
      PROVE  starts[s] = Cardinality({v \in Listed \ {w} : startSeq[v] = s})
  <2>1. CASE s = startSeq[w]
    <3>1. {v \in Listed \ {w} : startSeq[v] = s} = StartsWith(s) \ {w} /\ w \in StartsWith(s)
      BY <2>1, <1>1 DEF StartsWith
    <3>2. Cardinality(StartsWith(s) \ {w}) = Cardinality(StartsWith(s)) - 1
      BY <3>1, <1>2, FS_RemoveElement
    <3>3. starts[s] = activeStarts[s] - 1
      BY <2>1, <1>1, <1>4
    <3>4. QED
      BY <3>1, <3>2, <3>3, <1>2
  <2>2. CASE s # startSeq[w]
    <3>1. {v \in Listed \ {w} : startSeq[v] = s} = StartsWith(s)
      BY <2>2, <1>1 DEF StartsWith
    <3>2. starts[s] = activeStarts[s]
      BY <2>2, <1>1, <1>4
    <3>3. QED
      BY <3>1, <3>2, <1>2
  <2>3. QED
    BY <2>1, <2>2
<1>7. QED
  BY <1>1, <1>5, <1>6

(* The trim: either no window is left and the buffer is emptied, or the    *)
(* new front is the least start that is left and lies in the buffer.       *)
LEMMA DropTrims ==
    ASSUME IInv, NEW w \in Windows, DropTrim(w)
    PROVE  \/ /\ Listed \ {w} = {}
              /\ frontSeq' = NextSeq
              /\ buffer' = <<>>
           \/ \E v \in Listed \ {w} :
                 /\ frontSeq' = startSeq[v]
                 /\ \A u \in Listed \ {w} : startSeq[v] <= startSeq[u]
                 /\ frontSeq' - frontSeq \in 0 .. Len(buffer)
                 /\ buffer' = Skip(buffer, frontSeq' - frontSeq)
<1> DEFINE starts == Deregister(startSeq[w])
<1>1. /\ starts \in [Seqs -> Nat]
      /\ \A s \in Seqs : starts[s] = Cardinality({v \in Listed \ {w} : startSeq[v] = s})
  BY DropDeregisters
<1>2. Listed \ {w} \in SUBSET Windows
  BY DEF Listed
<1>3. \A v \in Listed : startSeq[v] \in Seqs /\ frontSeq <= startSeq[v] /\ startSeq[v] <= NextSeq
  BY DEF IInv, TypeOK, StartsInBuffer, Listed
<1>4. frontSeq \in Nat /\ Len(buffer) \in Nat
  BY LenProperties DEF IInv, TypeOK, Seqs
<1>5. Trim(starts)
  BY DEF DropTrim
<1> HIDE DEF starts
<1>6. \A s \in Seqs : s \in Registered(starts) <=> \E v \in Listed \ {w} : startSeq[v] = s
  <2> SUFFICES ASSUME NEW s \in Seqs
               PROVE  s \in Registered(starts) <=> \E v \in Listed \ {w} : startSeq[v] = s
    OBVIOUS
  <2> DEFINE W == {v \in Listed \ {w} : startSeq[v] = s}
             n == starts[s]
  <2>1. W \in SUBSET Windows
    BY <1>2
  <2>2. n \in Nat
    BY <1>1
  <2>3. n = Cardinality(W)
    BY <1>1
  <2>4. s \in Registered(starts) <=> n > 0
    BY DEF Registered
  <2>5. W # {} <=> \E v \in Listed \ {w} : startSeq[v] = s
    OBVIOUS
  <2> HIDE DEF W, n
  <2>6. QED
    BY <2>1, <2>2, <2>3, <2>4, <2>5, SomeCounted
<1>7. CASE Registered(starts) = {}
  <2>1. Listed \ {w} = {}
    BY <1>3, <1>6, <1>7
  <2>2. QED
    BY <2>1, <1>5, <1>7 DEF Trim
<1>8. CASE Registered(starts) # {}
  <2> DEFINE o == Oldest(starts)
  <2>1. o \in Registered(starts) /\ \A s \in Registered(starts) : o <= s
    BY <1>1, <1>8, OldestIsLeast
  <2>2. frontSeq' = o /\ buffer' = Skip(buffer, o - frontSeq)
    BY <1>5, <1>8 DEF Trim
  <2> HIDE DEF o
  <2>3. o \in Seqs
    BY <2>1 DEF Registered
  <2>4. PICK v \in Listed \ {w} : startSeq[v] = o
    BY <2>1, <2>3, <1>6
  <2>5. \A u \in Listed \ {w} : o <= startSeq[u]
    BY <2>1, <1>3, <1>6
  <2>6. o - frontSeq \in 0 .. Len(buffer)
    BY <2>3, <2>4, <1>3, <1>4 DEF NextSeq, Seqs
  <2>7. QED
    BY <2>2, <2>4, <2>5, <2>6
<1>9. QED
  BY <1>7, <1>8

LEMMA DropTrimInv ==
    ASSUME IInv, NEW w \in Windows, DropTrim(w)
    PROVE  IInv'
<1>1. /\ TypeOK /\ w \in OpenWindows /\ lock = NoOne /\ lock' = w
      /\ wpc' = [wpc EXCEPT ![w] = "dropping"]
      /\ activeStarts' = Deregister(startSeq[w])
      /\ taken' = [taken EXCEPT ![w] = <<>>]
      /\ owed' = [p \in Recorders |-> owed[p] \ {w}]
      /\ UNCHANGED <<recordingRefs, startSeq, rpc, event>>
  BY DEF IInv, DropTrim
<1>2. Listed' = Listed \ {w} /\ w \in Listed
  BY DropDeregisters
<1>3. /\ Counted' = Counted
      /\ OpenWindows' = OpenWindows \ {w}
      /\ \A v \in Windows : wpc[v] \in {"closed", "open", "taken"}
  BY <1>1, MutexFree DEF TypeOK, Counted, OpenWindows
<1>4. /\ frontSeq \in Nat /\ Len(buffer) \in Nat /\ NextSeq \in Seqs /\ MaxSeq \in Nat
      /\ \A v \in Windows : startSeq[v] \in Seqs
  BY <1>1, LenProperties, RecordingAssumption DEF TypeOK, Seqs
<1>5. /\ frontSeq' \in Seqs
      /\ buffer' \in Seq(Events)
      /\ frontSeq' + Len(buffer') = NextSeq
      /\ \A u \in Listed' : frontSeq' <= startSeq[u]
      /\ IF Listed' = {} THEN buffer' = <<>> ELSE \E v \in Listed' : startSeq[v] = frontSeq'
  <2>1. CASE /\ Listed \ {w} = {}
             /\ frontSeq' = NextSeq
             /\ buffer' = <<>>
    BY <2>1, <1>2, <1>4, EmptySeq DEF Seqs
  <2>2. CASE \E v \in Listed \ {w} :
                 /\ frontSeq' = startSeq[v]
                 /\ \A u \in Listed \ {w} : startSeq[v] <= startSeq[u]
                 /\ frontSeq' - frontSeq \in 0 .. Len(buffer)
                 /\ buffer' = Skip(buffer, frontSeq' - frontSeq)
    <3>1. PICK v \in Listed \ {w} :
                 /\ frontSeq' = startSeq[v]
                 /\ \A u \in Listed \ {w} : startSeq[v] <= startSeq[u]
                 /\ frontSeq' - frontSeq \in 0 .. Len(buffer)
                 /\ buffer' = Skip(buffer, frontSeq' - frontSeq)
      BY <2>2
    <3>2. frontSeq' \in Seqs /\ frontSeq' \in Nat
      BY <3>1, <1>4 DEF Listed, Seqs
    <3>3. buffer' \in Seq(Events) /\ Len(buffer') = Len(buffer) - (frontSeq' - frontSeq)
      BY <3>1, <1>1, SkipProperties DEF TypeOK
    <3>4. frontSeq' + Len(buffer') = NextSeq
      BY <3>2, <3>3, <1>4 DEF NextSeq
    <3>5. QED
      BY <3>1, <3>2, <3>3, <3>4, <1>2
  <2>3. QED
    BY <2>1, <2>2, DropTrims
<1>6. NextSeq' = NextSeq
  BY <1>5 DEF NextSeq
<1>7. TypeOK'
  <2>1. activeStarts' \in [Seqs -> Nat]
    BY <1>1, DropDeregisters
  <2>2. taken' \in [Windows -> Seq(Events)]
    BY <1>1, EmptySeq DEF TypeOK
  <2>3. owed' \in [Recorders -> SUBSET Windows]
    BY <1>1 DEF TypeOK
  <2>4. QED
    BY <1>1, <1>4, <1>5, <1>6, <2>1, <2>2, <2>3 DEF TypeOK, WindowPC
<1>8. MutexInv'
  BY <1>1, <1>3 DEF MutexInv, TypeOK
<1>9. StartsInv'
  BY <1>1, <1>2, DropDeregisters DEF StartsInv, StartsWith
<1>10. RefsInv'
  BY <1>1, <1>3 DEF IInv, RefsInv
<1>11. StartsInBuffer'
  BY <1>1, <1>2, <1>5, <1>6 DEF IInv, StartsInBuffer
<1>12. RegisteringInv'
  BY <1>1, <1>3 DEF RegisteringInv, TypeOK
<1>13. BufferTrim'
  BY <1>1, <1>5 DEF BufferTrim
<1>14. OwedInv'
  BY <1>1, <1>3 DEF IInv, OwedInv
<1>15. QED
  BY <1>7, <1>8, <1>9, <1>10, <1>11, <1>12, <1>13, <1>14 DEF IInv

LEMMA DropReturnInv ==
    ASSUME IInv, NEW w \in Windows, DropReturn(w)
    PROVE  IInv'
<1> USE DEF DropReturn
<1>1. TypeOK /\ lock = w /\ NextSeq' = NextSeq
  BY DEF IInv, MutexInv, NextSeq
<1>2. /\ Listed' = Listed
      /\ Counted' = Counted \ {w} /\ w \in Counted
      /\ OpenWindows' = OpenWindows
  BY <1>1 DEF TypeOK, Listed, Counted, OpenWindows
<1>3. recordingRefs' = Cardinality(Counted') /\ recordingRefs' \in Nat
  <2>1. Counted \in SUBSET Windows /\ IsFiniteSet(Counted)
    BY RecordingAssumption, FS_Subset DEF Counted
  <2>2. /\ Cardinality(Counted \ {w}) = Cardinality(Counted) - 1
        /\ IsFiniteSet(Counted \ {w})
    BY <2>1, <1>2, FS_RemoveElement
  <2>3. Cardinality(Counted \ {w}) \in Nat
    BY <2>2, FS_CardinalityType
  <2>4. QED
    BY <2>2, <2>3, <1>2 DEF IInv, RefsInv
<1>4. TypeOK'
  BY <1>1, <1>3 DEF TypeOK, WindowPC
<1>5. MutexInv'
  BY <1>1, RecordingAssumption DEF IInv, MutexInv, TypeOK
<1>6. StartsInv'
  BY <1>2 DEF IInv, StartsInv, StartsWith
<1>7. RefsInv'
  BY <1>3 DEF RefsInv
<1>8. StartsInBuffer' /\ BufferTrim'
  BY <1>1, <1>2 DEF IInv, StartsInBuffer, BufferTrim
<1>9. RegisteringInv'
  BY <1>1 DEF IInv, RegisteringInv, TypeOK
<1>10. OwedInv'
  BY <1>2 DEF IInv, OwedInv
<1>11. QED
  BY <1>4, <1>5, <1>6, <1>7, <1>8, <1>9, <1>10 DEF IInv

LEMMA CallRecordInv ==
    ASSUME IInv, NEW p \in Recorders, NEW e \in Events, CallRecord(p, e)
    PROVE  IInv'
<1> USE DEF CallRecord
<1>1. TypeOK /\ NextSeq' = NextSeq
  BY DEF IInv, NextSeq
<1>2. Listed' = Listed /\ Counted' = Counted /\ OpenWindows' = OpenWindows
  BY DEF Listed, Counted, OpenWindows
<1>3. OpenWindows \in SUBSET Windows
  BY DEF OpenWindows
<1>4. TypeOK'
  BY <1>1, <1>3 DEF TypeOK, RecorderPC
<1>5. MutexInv' /\ StartsInv' /\ RefsInv' /\ StartsInBuffer' /\ RegisteringInv' /\ BufferTrim'
  BY <1>1, <1>2 DEF IInv, MutexInv, StartsInv, StartsWith, RefsInv, StartsInBuffer,
                    RegisteringInv, BufferTrim
<1>6. OwedInv'
  BY <1>1, <1>2, RecordingAssumption DEF IInv, OwedInv, TypeOK
<1>7. QED
  BY <1>4, <1>5, <1>6 DEF IInv

(* A recorder that returns owes nothing any more.                          *)
LEMMA ReturnOwed ==
    ASSUME TypeOK, OwedInv, NEW p \in Recorders, Return(p), UNCHANGED wpc
    PROVE  /\ OwedInv'
           /\ rpc' \in [Recorders -> RecorderPC]
           /\ event' \in [Recorders -> Events \cup {NoEvent}]
           /\ owed' \in [Recorders -> SUBSET Windows]
<1>1. OpenWindows' = OpenWindows
  BY DEF OpenWindows
<1>2. OwedInv'
  BY <1>1 DEF TypeOK, OwedInv, Return
<1>3. QED
  BY <1>2 DEF TypeOK, Return, RecorderPC

LEMMA LoadRefsInv ==
    ASSUME IInv, NEW p \in Recorders, LoadRefs(p)
    PROVE  IInv'
<1> USE DEF LoadRefs
<1>1. TypeOK /\ OwedInv /\ NextSeq' = NextSeq
  BY DEF IInv, NextSeq
<1>2. Listed' = Listed /\ Counted' = Counted /\ OpenWindows' = OpenWindows
  BY DEF Listed, Counted, OpenWindows
<1>3. /\ OwedInv'
      /\ rpc' \in [Recorders -> RecorderPC]
      /\ event' \in [Recorders -> Events \cup {NoEvent}]
      /\ owed' \in [Recorders -> SUBSET Windows]
  <2>1. CASE Return(p)
    BY <1>1, <2>1, ReturnOwed
  <2>2. CASE rpc' = [rpc EXCEPT ![p] = "pushing"] /\ UNCHANGED <<event, owed>>
    BY <1>1, <1>2, <2>2 DEF TypeOK, OwedInv, RecorderPC
  <2>3. QED
    BY <2>1, <2>2
<1>4. TypeOK'
  BY <1>1, <1>3 DEF TypeOK
<1>5. MutexInv' /\ StartsInv' /\ RefsInv' /\ StartsInBuffer' /\ RegisteringInv' /\ BufferTrim'
  BY <1>1, <1>2 DEF IInv, MutexInv, StartsInv, StartsWith, RefsInv, StartsInBuffer,
                    RegisteringInv, BufferTrim
<1>6. QED
  BY <1>3, <1>4, <1>5 DEF IInv

(* Under the mutex, an empty active_starts means that no window is open.   *)
LEMMA NoStartNoWindow ==
    ASSUME IInv, lock = NoOne
    PROVE  Registered(activeStarts) = {} <=> Listed = {}
<1>1. Listed \in SUBSET Windows /\ activeStarts \in [Seqs -> Nat]
  BY DEF IInv, TypeOK, Listed
<1>2. \A s \in Seqs : activeStarts[s] = Cardinality({v \in Listed : startSeq[v] = s})
  BY DEF IInv, StartsInv, StartsWith
<1>3. \A s \in Seqs : s \in Registered(activeStarts) <=> \E v \in Listed : startSeq[v] = s
  <2> SUFFICES ASSUME NEW s \in Seqs
               PROVE  s \in Registered(activeStarts) <=> \E v \in Listed : startSeq[v] = s
    OBVIOUS
  <2> DEFINE W == {v \in Listed : startSeq[v] = s}
             n == activeStarts[s]
  <2>1. W \in SUBSET Windows
    BY <1>1
  <2>2. n \in Nat
    BY <1>1
  <2>3. n = Cardinality(W)
    BY <1>2
  <2>4. s \in Registered(activeStarts) <=> n > 0
    BY DEF Registered
  <2>5. W # {} <=> \E v \in Listed : startSeq[v] = s
    OBVIOUS
  <2> HIDE DEF W, n
  <2>6. QED
    BY <2>1, <2>2, <2>3, <2>4, <2>5, SomeCounted
<1>4. \A w \in Listed : startSeq[w] \in Seqs
  BY <1>1 DEF IInv, TypeOK
<1>5. Registered(activeStarts) \subseteq Seqs
  BY DEF Registered
<1>6. QED
  BY <1>3, <1>4, <1>5

LEMMA PushEventInv ==
    ASSUME IInv, NEW p \in Recorders, PushEvent(p)
    PROVE  IInv'
<1>1. /\ TypeOK /\ OwedInv /\ lock = NoOne /\ rpc[p] = "pushing" /\ Return(p)
      /\ UNCHANGED <<frontSeq, activeStarts, recordingRefs, lock, wpc, startSeq, taken>>
  BY DEF IInv, PushEvent
<1>2. Listed' = Listed /\ Counted' = Counted /\ OpenWindows' = OpenWindows
  BY <1>1 DEF Listed, Counted, OpenWindows
<1>3. /\ OwedInv'
      /\ rpc' \in [Recorders -> RecorderPC]
      /\ event' \in [Recorders -> Events \cup {NoEvent}]
      /\ owed' \in [Recorders -> SUBSET Windows]
  BY <1>1, ReturnOwed
<1>4. MutexInv' /\ StartsInv' /\ RefsInv'
  BY <1>1, <1>2 DEF IInv, MutexInv, StartsInv, StartsWith, RefsInv
<1>5. \A w \in Windows : wpc[w] # "registering"
  BY <1>1, MutexFree
<1>6. RegisteringInv'
  BY <1>1, <1>5 DEF RegisteringInv
<1>7. CASE Registered(activeStarts) = {} /\ UNCHANGED buffer
  <2>1. NextSeq' = NextSeq
    BY <1>1, <1>7 DEF NextSeq
  <2>2. TypeOK'
    BY <1>1, <1>3, <1>7, <2>1 DEF TypeOK
  <2>3. StartsInBuffer' /\ BufferTrim'
    BY <1>1, <1>2, <1>7, <2>1 DEF IInv, StartsInBuffer, BufferTrim
  <2>4. QED
    BY <1>3, <1>4, <1>6, <2>2, <2>3 DEF IInv
<1>8. CASE /\ Registered(activeStarts) # {}
           /\ NextSeq < MaxSeq
           /\ buffer' = Append(buffer, event[p])
  <2>1. event[p] \in Events
    BY <1>1 DEF TypeOK, OwedInv
  <2>2. buffer' \in Seq(Events) /\ Len(buffer') = Len(buffer) + 1 /\ Len(buffer) \in Nat
    BY <1>1, <1>8, <2>1, AppendProperties, LenProperties DEF TypeOK
  <2>3. frontSeq \in Nat /\ NextSeq \in Nat /\ NextSeq' = NextSeq + 1 /\ NextSeq' \in Seqs
    BY <1>1, <1>8, <2>2, RecordingAssumption DEF TypeOK, NextSeq, Seqs
  <2>4. TypeOK'
    BY <1>1, <1>3, <2>2, <2>3 DEF TypeOK
  <2>5. \A w \in Listed : startSeq[w] \in Nat
    BY <1>1 DEF TypeOK, Listed, Seqs
  <2>6. StartsInBuffer'
    BY <1>1, <1>2, <2>3, <2>5 DEF IInv, StartsInBuffer
  <2>7. Listed # {}
    BY <1>1, <1>8, NoStartNoWindow
  <2>8. BufferTrim'
    BY <1>1, <1>2, <2>7 DEF IInv, BufferTrim
  <2>9. QED
    BY <1>3, <1>4, <1>6, <2>4, <2>6, <2>8 DEF IInv
<1>9. QED
  BY <1>7, <1>8 DEF PushEvent

LEMMA NextInv == IInv /\ [Next]_vars => IInv'
<1> SUFFICES ASSUME IInv, [Next]_vars PROVE IInv'
  OBVIOUS
<1>1. ASSUME NEW w \in Windows, StartRegister(w) PROVE IInv'
  BY <1>1, StartRegisterInv
<1>2. ASSUME NEW w \in Windows, StartReturn(w) PROVE IInv'
  BY <1>2, StartReturnInv
<1>3. ASSUME NEW w \in Windows, Take(w) PROVE IInv'
  BY <1>3, TakeInv
<1>4. ASSUME NEW w \in Windows, DropTrim(w) PROVE IInv'
  BY <1>4, DropTrimInv
<1>5. ASSUME NEW w \in Windows, DropReturn(w) PROVE IInv'
  BY <1>5, DropReturnInv
<1>6. ASSUME NEW p \in Recorders, NEW e \in Events, CallRecord(p, e) PROVE IInv'
  BY <1>6, CallRecordInv
<1>7. ASSUME NEW p \in Recorders, LoadRefs(p) PROVE IInv'
  BY <1>7, LoadRefsInv
<1>8. ASSUME NEW p \in Recorders, PushEvent(p) PROVE IInv'
  BY <1>8, PushEventInv
<1>9. CASE UNCHANGED vars
  <2>1. /\ Listed' = Listed /\ Counted' = Counted /\ OpenWindows' = OpenWindows
        /\ NextSeq' = NextSeq
    BY <1>9 DEF vars, Listed, Counted, OpenWindows, NextSeq
  <2>2. TypeOK' /\ MutexInv' /\ RegisteringInv' /\ OwedInv'
    BY <1>9, <2>1 DEF vars, IInv, TypeOK, MutexInv, RegisteringInv, OwedInv
  <2>3. StartsInv' /\ RefsInv' /\ StartsInBuffer' /\ BufferTrim'
    BY <1>9, <2>1 DEF vars, IInv, StartsInv, StartsWith, RefsInv, StartsInBuffer, BufferTrim
  <2>4. QED
    BY <2>2, <2>3 DEF IInv
<1>10. QED
  BY <1>1, <1>2, <1>3, <1>4, <1>5, <1>6, <1>7, <1>8, <1>9 DEF Next

(* The bookkeeping of the recording buffer is consistent in every state of *)
(* every run: mutex, counters and starts agree, whatever the windows do.   *)
THEOREM RecordingInvariant == Spec => []IInv
<1>1. QED
  BY InitInv, NextInv, PTL DEF Spec

(* Every variable of the recording buffer keeps its type; in particular    *)
(* recording_refs never goes below zero.                                   *)
THEOREM RecordingTypeOK == Spec => []TypeOK
<1>1. IInv => TypeOK
  BY DEF IInv
<1>2. QED
  BY <1>1, RecordingInvariant, PTL

(* No window of any number of overlapping fetches ever points outside the  *)
(* buffer: take() and Drop cannot underflow or run off its end.            *)
THEOREM RecordingStartsInBuffer == Spec => []StartsInBuffer
<1>1. IInv => StartsInBuffer
  BY DEF IInv
<1>2. QED
  BY <1>1, RecordingInvariant, PTL

(* The buffer never keeps a slot that no open window references.           *)
THEOREM RecordingBufferTrim == Spec => []BufferTrim
<1>1. IInv => BufferTrim
  BY DEF IInv
<1>2. QED
  BY <1>1, RecordingInvariant, PTL

-----------------------------------------------------------------------------
(* The refinement.  A window's log is its slice of the shared buffer.      *)

LEMMA OpenStart ==
    ASSUME IInv, NEW w \in OpenWindows
    PROVE  w \in Listed /\ startSeq[w] - frontSeq \in 0 .. Len(buffer)
<1>1. w \in Listed
  BY DEF OpenWindows, Listed
<1>2. /\ frontSeq \in Nat /\ Len(buffer) \in Nat /\ startSeq[w] \in Nat
      /\ frontSeq <= startSeq[w] /\ startSeq[w] <= frontSeq + Len(buffer)
  BY <1>1, LenProperties DEF IInv, TypeOK, StartsInBuffer, NextSeq, Listed, Seqs
<1>3. QED
  BY <1>1, <1>2

LEMMA InitRefines == Init => WL!Init
<1> SUFFICES ASSUME Init PROVE WL!Init
  OBVIOUS
<1>1. OpenWindows = {}
  BY DEF Init, OpenWindows
<1>2. [w \in Windows |-> LogOf(w)] = [w \in Windows |-> <<>>]
  BY <1>1 DEF LogOf
<1>3. QED
  BY <1>1, <1>2 DEF Init, WL!Init

(* The logs do not change when neither the open windows nor the buffer do. *)
LEMMA LogsUnchanged ==
    ASSUME OpenWindows' = OpenWindows, UNCHANGED <<buffer, frontSeq>>,
           \A w \in OpenWindows : startSeq'[w] = startSeq[w]
    PROVE  [w \in Windows |-> LogOf(w)]' = [w \in Windows |-> LogOf(w)]
<1>1. \A w \in Windows : LogOf(w)' = LogOf(w)
  BY DEF LogOf
<1>2. QED
  BY <1>1

LEMMA StartRegisterRefines ==
    ASSUME IInv, NEW w \in Windows, StartRegister(w)
    PROVE  UNCHANGED WL!vars
<1>1. OpenWindows' = OpenWindows /\ w \notin OpenWindows
  BY DEF StartRegister, OpenWindows, IInv, TypeOK
<1>2. \A v \in OpenWindows : startSeq'[v] = startSeq[v]
  BY <1>1 DEF StartRegister, OpenWindows, IInv, TypeOK
<1>3. [v \in Windows |-> LogOf(v)]' = [v \in Windows |-> LogOf(v)]
  BY <1>1, <1>2, LogsUnchanged DEF StartRegister
<1>4. QED
  BY <1>1, <1>3 DEF StartRegister, WL!vars

LEMMA StartReturnRefines ==
    ASSUME IInv, NEW w \in Windows, StartReturn(w)
    PROVE  WL!Open(w)
<1> USE DEF StartReturn
<1>1. w \notin OpenWindows /\ OpenWindows' = OpenWindows \cup {w}
  BY DEF OpenWindows, IInv, TypeOK
<1>2. Skip(buffer, startSeq[w] - frontSeq) = <<>>
  <2>1. startSeq[w] - frontSeq = Len(buffer)
    BY LenProperties DEF IInv, TypeOK, RegisteringInv, NextSeq, Seqs
  <2>2. QED
    BY <2>1, SkipAll DEF IInv, TypeOK
<1>3. \A v \in Windows : LogOf(v)' = LogOf(v)
  BY <1>1, <1>2 DEF LogOf
<1>4. QED
  BY <1>1, <1>3 DEF WL!Open

LEMMA TakeRefines ==
    ASSUME IInv, NEW w \in Windows, Take(w)
    PROVE  WL!Take(w)
<1> USE DEF Take
<1>1. w \in OpenWindows /\ OpenWindows' = OpenWindows
  BY DEF OpenWindows, IInv, TypeOK
<1>2. [v \in Windows |-> LogOf(v)]' = [v \in Windows |-> LogOf(v)]
  BY <1>1, LogsUnchanged
<1>3. [v \in Windows |-> LogOf(v)][w] = Skip(buffer, startSeq[w] - frontSeq)
  BY <1>1 DEF LogOf
<1>4. QED
  BY <1>1, <1>2, <1>3 DEF WL!Take

LEMMA DropTrimRefines ==
    ASSUME IInv, NEW w \in Windows, DropTrim(w)
    PROVE  WL!Close(w)
<1>1. /\ w \in OpenWindows /\ OpenWindows' = OpenWindows \ {w} /\ OpenWindows \subseteq Listed
      /\ taken' = [taken EXCEPT ![w] = <<>>]
      /\ owed' = [p \in Recorders |-> owed[p] \ {w}]
      /\ UNCHANGED <<startSeq, event>>
  BY DEF DropTrim, OpenWindows, Listed, IInv, TypeOK
<1>2. ASSUME NEW v \in OpenWindows \ {w}
      PROVE  Skip(buffer', startSeq[v] - frontSeq') = Skip(buffer, startSeq[v] - frontSeq)
  <2>1. v \in Listed \ {w}
    BY <1>1
  <2>2. PICK o \in Listed \ {w} :
                 /\ frontSeq' = startSeq[o]
                 /\ \A u \in Listed \ {w} : startSeq[o] <= startSeq[u]
                 /\ frontSeq' - frontSeq \in 0 .. Len(buffer)
                 /\ buffer' = Skip(buffer, frontSeq' - frontSeq)
    BY <2>1, DropTrims
  <2> DEFINE a == frontSeq' - frontSeq
             b == startSeq[v] - frontSeq
  <2>3. /\ frontSeq \in Nat /\ Len(buffer) \in Nat /\ buffer \in Seq(Events)
        /\ startSeq[v] \in Nat /\ startSeq[o] \in Nat
    <3>1. v \in Windows /\ o \in Windows
      BY <2>1, <2>2 DEF Listed
    <3>2. QED
      BY <3>1, LenProperties DEF IInv, TypeOK, Seqs
  <2>4. a \in 0 .. Len(buffer)
    BY <2>2
  <2>5. b \in 0 .. Len(buffer)
    BY OpenStart
  <2>6. frontSeq' <= startSeq[v]
    BY <2>1, <2>2
  <2>7. b \in a .. Len(buffer) /\ b - a = startSeq[v] - frontSeq'
    BY <2>2, <2>3, <2>4, <2>5, <2>6
  <2> HIDE DEF a, b
  <2>8. Skip(Skip(buffer, a), b - a) = Skip(buffer, b)
    BY <2>3, <2>4, <2>7, SkipOfSkip
  <2>9. buffer' = Skip(buffer, a)
    BY <2>2 DEF a
  <2>10. QED
    BY <2>7, <2>8, <2>9 DEF b
<1>3. \A v \in Windows : LogOf(v)' = IF v = w THEN <<>> ELSE LogOf(v)
  <2> SUFFICES ASSUME NEW v \in Windows
               PROVE  LogOf(v)' = IF v = w THEN <<>> ELSE LogOf(v)
    OBVIOUS
  <2>1. CASE v \in OpenWindows \ {w}
    BY <2>1, <1>1, <1>2 DEF LogOf
  <2>2. CASE v \notin OpenWindows \ {w}
    BY <2>2, <1>1 DEF LogOf
  <2>3. QED
    BY <2>1, <2>2
<1>4. [v \in Windows |-> LogOf(v)]' = [[v \in Windows |-> LogOf(v)] EXCEPT ![w] = <<>>]
  BY <1>3
<1>5. QED
  BY <1>1, <1>4 DEF WL!Close

LEMMA DropReturnRefines ==
    ASSUME IInv, NEW w \in Windows, DropReturn(w)
    PROVE  UNCHANGED WL!vars
<1>1. OpenWindows' = OpenWindows
  BY DEF DropReturn, OpenWindows, IInv, TypeOK
<1>2. [v \in Windows |-> LogOf(v)]' = [v \in Windows |-> LogOf(v)]
  BY <1>1, LogsUnchanged DEF DropReturn
<1>3. QED
  BY <1>1, <1>2 DEF DropReturn, WL!vars

LEMMA CallRecordRefines ==
    ASSUME IInv, NEW p \in Recorders, NEW e \in Events, CallRecord(p, e)
    PROVE  WL!Begin(p, e)
<1>1. OpenWindows' = OpenWindows
  BY DEF CallRecord, OpenWindows
<1>2. [v \in Windows |-> LogOf(v)]' = [v \in Windows |-> LogOf(v)]
  BY <1>1, LogsUnchanged DEF CallRecord
<1>3. event[p] = NoEvent
  BY DEF CallRecord, IInv, OwedInv
<1>4. QED
  BY <1>1, <1>2, <1>3 DEF CallRecord, WL!Begin

(* A recorder that returns without pushing owes its event to nobody.       *)
LEMMA SkipRefines ==
    ASSUME IInv, NEW p \in Recorders, rpc[p] # "idle", OpenWindows = {}, Return(p),
           UNCHANGED <<buffer, frontSeq, wpc, startSeq, taken>>
    PROVE  WL!Finish(p)
<1>1. OpenWindows' = OpenWindows
  BY DEF OpenWindows
<1>2. [v \in Windows |-> LogOf(v)]' = [v \in Windows |-> LogOf(v)]
  BY <1>1, LogsUnchanged
<1>3. event[p] # NoEvent /\ owed[p] = {}
  BY DEF IInv, OwedInv
<1>4. QED
  BY <1>1, <1>2, <1>3 DEF Return, WL!Finish

LEMMA LoadRefsRefines ==
    ASSUME IInv, NEW p \in Recorders, LoadRefs(p)
    PROVE  WL!Finish(p) \/ UNCHANGED WL!vars
<1>1. CASE recordingRefs = 0 /\ Return(p)
  <2>1. IsFiniteSet(Counted) /\ Cardinality(Counted) = 0
    BY <1>1, RecordingAssumption, FS_Subset DEF IInv, RefsInv, Counted
  <2>2. Counted = {}
    BY <2>1, FS_EmptySet
  <2>3. OpenWindows = {}
    BY <2>2 DEF OpenWindows, Counted
  <2>4. QED
    BY <1>1, <2>3, SkipRefines DEF LoadRefs
<1>2. CASE UNCHANGED <<event, owed>>
  <2>1. OpenWindows' = OpenWindows
    BY DEF LoadRefs, OpenWindows
  <2>2. [v \in Windows |-> LogOf(v)]' = [v \in Windows |-> LogOf(v)]
    BY <2>1, LogsUnchanged DEF LoadRefs
  <2>3. QED
    BY <1>2, <2>1, <2>2 DEF LoadRefs, WL!vars
<1>3. QED
  BY <1>1, <1>2 DEF LoadRefs

LEMMA PushEventRefines ==
    ASSUME IInv, NEW p \in Recorders, PushEvent(p)
    PROVE  WL!Finish(p)
<1>1. /\ lock = NoOne /\ rpc[p] = "pushing" /\ Return(p)
      /\ UNCHANGED <<frontSeq, wpc, startSeq, taken>>
  BY DEF PushEvent
<1>2. OpenWindows' = OpenWindows /\ Listed = OpenWindows
  BY <1>1, MutexFree DEF OpenWindows
<1>3. CASE Registered(activeStarts) = {} /\ UNCHANGED buffer
  <2>1. OpenWindows = {}
    BY <1>1, <1>2, <1>3, NoStartNoWindow
  <2>2. QED
    BY <1>1, <1>3, <2>1, SkipRefines
<1>4. CASE buffer' = Append(buffer, event[p])
  <2>1. event[p] \in Events /\ event[p] # NoEvent /\ buffer \in Seq(Events)
    BY <1>1, RecordingAssumption DEF IInv, TypeOK, OwedInv
  <2>2. ASSUME NEW v \in OpenWindows
        PROVE  Skip(buffer', startSeq[v] - frontSeq) =
                 Append(Skip(buffer, startSeq[v] - frontSeq), event[p])
    BY <1>4, <2>1, OpenStart, SkipOfAppend
  <2>3. \A v \in Windows : LogOf(v)' = IF v \in OpenWindows THEN Append(LogOf(v), event[p])
                                                             ELSE LogOf(v)
    BY <1>1, <1>2, <2>2 DEF LogOf
  <2>4. QED
    BY <1>1, <1>2, <2>1, <2>3 DEF Return, WL!Finish
<1>5. QED
  BY <1>3, <1>4 DEF PushEvent

LEMMA NextRefines == IInv /\ [Next]_vars => [WL!Next]_(WL!vars)
<1> SUFFICES ASSUME IInv, [Next]_vars PROVE [WL!Next]_(WL!vars)
  OBVIOUS
<1>1. ASSUME NEW w \in Windows, StartRegister(w) PROVE UNCHANGED WL!vars
  BY <1>1, StartRegisterRefines
<1>2. ASSUME NEW w \in Windows, StartReturn(w) PROVE WL!Next
  BY <1>2, StartReturnRefines DEF WL!Next
<1>3. ASSUME NEW w \in Windows, Take(w) PROVE WL!Next
  BY <1>3, TakeRefines DEF WL!Next
<1>4. ASSUME NEW w \in Windows, DropTrim(w) PROVE WL!Next
  BY <1>4, DropTrimRefines DEF WL!Next
<1>5. ASSUME NEW w \in Windows, DropReturn(w) PROVE UNCHANGED WL!vars
  BY <1>5, DropReturnRefines
<1>6. ASSUME NEW p \in Recorders, NEW e \in Events, CallRecord(p, e) PROVE WL!Next
  BY <1>6, CallRecordRefines DEF WL!Next
<1>7. ASSUME NEW p \in Recorders, LoadRefs(p) PROVE WL!Next \/ UNCHANGED WL!vars
  BY <1>7, LoadRefsRefines DEF WL!Next
<1>8. ASSUME NEW p \in Recorders, PushEvent(p) PROVE WL!Next
  BY <1>8, PushEventRefines DEF WL!Next
<1>9. CASE UNCHANGED vars
  <2>1. OpenWindows' = OpenWindows
    BY <1>9 DEF vars, OpenWindows
  <2>2. [v \in Windows |-> LogOf(v)]' = [v \in Windows |-> LogOf(v)]
    BY <1>9, <2>1, LogsUnchanged DEF vars
  <2>3. QED
    BY <1>9, <2>1, <2>2 DEF vars, WL!vars
<1>10. QED
  BY <1>1, <1>2, <1>3, <1>4, <1>5, <1>6, <1>7, <1>8, <1>9 DEF Next

(* The shared, trimmed, reference-counted buffer behaves as if every       *)
(* window had a log of its own, to which every event whose handler started *)
(* while the window was open is appended exactly once and in order.        *)
THEOREM RecordingImplementsWindowLog == Spec => ImplementsWindowLog
<1>1. QED
  BY InitRefines, NextRefines, RecordingInvariant, PTL DEF Spec, ImplementsWindowLog, WL!Spec
=============================================================================
