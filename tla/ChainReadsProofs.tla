-------------------------- MODULE ChainReadsProofs --------------------------
(***************************************************************************)
(* Proofs about replayAgreement and its requests, for histories, pages and *)
(* limits of any size.                                                     *)
(***************************************************************************)
EXTENDS ChainReads, SequenceTheorems, TLAPS

\* n signatures, from top downwards.
Down(top, n) == [i \in 1 .. n |-> top + 1 - i]

LEMMA DownIsSeq ==
    ASSUME NEW top \in Int, NEW n \in Nat
    PROVE  Down(top, n) \in Seq(Int) /\ Len(Down(top, n)) = n
  BY DEF Down

LEMMA DownJoins ==
    ASSUME NEW top \in Int, NEW m \in Nat, NEW n \in Nat
    PROVE  Down(top, m) \o Down(top - m, n) = Down(top, m + n)
  <1> DEFINE s == Down(top, m)
             t == Down(top - m, n)
             u == Down(top, m + n)
  <1>1. /\ s \in Seq(Int) /\ Len(s) = m /\ t \in Seq(Int) /\ Len(t) = n
        /\ u \in Seq(Int) /\ Len(u) = m + n
    BY DownIsSeq
  <1>2. \A i \in 1 .. m + n : u[i] = IF i <= m THEN s[i] ELSE t[i - m]
    BY DEF Down
  <1> HIDE DEF s, t, u
  <1>3. /\ s \o t \in Seq(Int) /\ Len(s \o t) = m + n
        /\ \A i \in 1 .. m + n : (s \o t)[i] = IF i <= m THEN s[i] ELSE t[i - m]
    BY <1>1, ConcatProperties
  <1>4. s \o t = u
    BY <1>1, <1>2, <1>3, SeqEqual
  <1> QED
    BY <1>4 DEF s, t, u

LEMMA DownPrefix ==
    ASSUME NEW top \in Int, NEW n \in Nat, NEW k \in 0 .. n
    PROVE  SubSeq(Down(top, n), 1, k) = Down(top, k)
  <1>1. /\ Down(top, n) \in Seq(Int) /\ Len(Down(top, n)) = n
        /\ Down(top, k) \in Seq(Int) /\ Len(Down(top, k)) = k
    BY DownIsSeq
  <1>2. \A i \in 1 .. k : SubSeq(Down(top, n), 1, k)[i] = Down(top, k)[i]
    BY <1>1 DEF Down
  <1> QED
    BY <1>1, <1>2

LEMMA DownReversed ==
    ASSUME NEW top \in Int, NEW n \in Nat
    PROVE  Reverse(Down(top, n)) = [i \in 1 .. n |-> (top - n) + i]
  <1>1. Len(Down(top, n)) = n
    BY DownIsSeq
  <1>2. \A i \in 1 .. n : Down(top, n)[(n - i) + 1] = (top - n) + i
    BY DEF Down
  <1> QED
    BY <1>1, <1>2 DEF Reverse
-----------------------------------------------------------------------------
Increasing(s) == \A i, j \in DOMAIN s : i < j => s[i] < s[j]
SpanTo(upTo) == [i \in 1 .. (upTo - until) |-> until + i]

LEMMA AppendedLast ==
    ASSUME NEW s \in Seq(Int), Increasing(s), NEW n \in Int, \A x \in ToSet(s) : x < n
    PROVE  /\ Append(s, n) \in Seq(Int)
           /\ ToSet(Append(s, n)) = ToSet(s) \cup {n}
           /\ Increasing(Append(s, n))
  <1>1. /\ Append(s, n) \in Seq(Int) /\ Len(Append(s, n)) = Len(s) + 1 /\ Len(s) \in Nat
        /\ \A i \in 1 .. Len(s) : Append(s, n)[i] = s[i]
        /\ Append(s, n)[Len(s) + 1] = n
        /\ DOMAIN Append(s, n) = 1 .. (Len(s) + 1) /\ DOMAIN s = 1 .. Len(s)
    BY AppendProperties, LenProperties
  <1>2. ToSet(s) = {s[i] : i \in DOMAIN s} /\ ToSet(Append(s, n)) = {Append(s, n)[i] : i \in DOMAIN Append(s, n)}
    BY DEF ToSet
  <1> DEFINE t == Append(s, n)
  <1> HIDE DEF t
  <1>3. /\ t \in Seq(Int) /\ DOMAIN t = 1 .. (Len(s) + 1) /\ t[Len(s) + 1] = n
        /\ \A i \in 1 .. Len(s) : t[i] = s[i]
    BY <1>1 DEF t
  <1>4. {t[i] : i \in 1 .. (Len(s) + 1)} = {s[i] : i \in 1 .. Len(s)} \cup {n}
    <2>1. \A i \in 1 .. (Len(s) + 1) : i \in 1 .. Len(s) \/ i = Len(s) + 1
      BY <1>1
    <2>2. 1 .. Len(s) \subseteq 1 .. (Len(s) + 1) /\ Len(s) + 1 \in 1 .. (Len(s) + 1)
      BY <1>1
    <2> QED
      BY <1>3, <2>1, <2>2
  <1>5. ASSUME NEW i \in DOMAIN t, NEW j \in DOMAIN t, i < j PROVE t[i] < t[j]
    <2>1. i \in 1 .. Len(s) /\ t[i] = s[i] /\ s[i] \in ToSet(s)
      BY <1>1, <1>2, <1>3, <1>5
    <2>2. CASE j \in 1 .. Len(s)
      BY <1>1, <1>3, <1>5, <2>1, <2>2 DEF Increasing
    <2>3. CASE j = Len(s) + 1
      BY <1>3, <2>1, <2>3
    <2> QED
      BY <1>1, <1>3, <2>2, <2>3
  <1>6. Increasing(t)
    BY <1>5 DEF Increasing
  <1> QED
    BY <1>1, <1>2, <1>3, <1>4, <1>6 DEF t
-----------------------------------------------------------------------------
(* The invariant. *)

ReaderOK ==
    /\ chain \in Seq(Kinds)
    /\ until \in Nat /\ until <= seen /\ seen \in Nat /\ seen <= Len(chain)
    /\ pc \in {"page", "read", "done", "error"}
    /\ before \in Nat
    /\ events \in Seq(Int)
    /\ attempt \in Nat /\ waited \in Nat

\* The next page starts below the cursor, or at the newest signature there is.
Newest == IF before = 0 THEN Len(chain) ELSE before - 1

\* Between pages: no gap between what is collected and the cursor, which is above `until`,
\* and the first page reached back from no earlier than the start of the replay.
Gathered ==
    pc = "page" =>
        /\ pos = 1 /\ missing = {} /\ events = << >>
        /\ IF before = 0 THEN collected = << >>
           ELSE \E top \in seen .. Len(chain) :
                    /\ before - 1 <= top /\ until < before
                    /\ collected = Down(top, top - (before - 1))

\* Once they are reversed: every signature after `until` up to some point, of which the
\* first pos - 1 have been read.
Replayed ==
    pc \in {"read", "done"} =>
        /\ \E upTo \in seen .. Len(chain) :
              collected = SpanTo(upTo) /\ pos \in 1 .. (upTo - until + 1)
        /\ missing \subseteq (until + 1) .. (until + pos - 1)
        /\ ToSet(events) =
              {n \in (until + 1) .. (until + pos - 1) : chain[n] = "event" /\ n \notin missing}
        /\ Increasing(events)
        /\ pc = "done" => pos > Len(collected)

ReplayInv == ReaderOK /\ RetriesAreBounded /\ Gathered /\ Replayed

LEMMA ReplayInit == Init => ReplayInv
  <1> SUFFICES ASSUME Init PROVE ReplayInv
    OBVIOUS
  <1>1. PICK n \in 1 .. MaxChain : chain \in [1 .. n -> Kinds]
    BY DEF Init
  <1>2. chain \in Seq(Kinds) /\ Len(chain) \in Nat
    BY <1>1, ReaderAssumption
  <1>3. ReaderOK
    BY <1>2 DEF Init, ReaderOK
  <1>4. RetriesAreBounded
    BY ReaderAssumption DEF Init, RetriesAreBounded
  <1>5. Gathered /\ Replayed
    BY DEF Init, Gathered, Replayed
  <1> QED
    BY <1>3, <1>4, <1>5 DEF ReplayInv

\* A delay is capped, whatever the header says.
LEMMA DelayCapped ==
    ASSUME NEW header \in RetryAfterHeaders, NEW retry \in Nat \ {0},
           NEW delay \in RateLimitDelaysMs(retry, header)
    PROVE  delay \in 0 .. MaxDelayMs
  <1>1. MaxDelayMs \in Nat
    BY ReaderAssumption
  <1>2. header.value \in Int /\ (header.form = "seconds" => header.value \in Nat)
    BY ReaderAssumption
  <1>3. ParseRetryAfter(header) = Absent \/ ParseRetryAfter(header) \in 0 .. MaxDelayMs
    BY <1>1, <1>2 DEF ParseRetryAfter, AtMost, Absent
  <1>4. AtMost(retry, Len(BackoffMs)) \in 1 .. Len(BackoffMs)
    <2>1. Len(BackoffMs) \in Nat \ {0}
      BY ReaderAssumption
    <2> QED
      BY <2>1 DEF AtMost
  <1> DEFINE b == BackoffMs[AtMost(retry, Len(BackoffMs))]
  <1>5. b \in Nat
    BY <1>4, ReaderAssumption
  <1> HIDE DEF b
  <1>6. AtMost(b, MaxDelayMs) \in 0 .. MaxDelayMs
    BY <1>1, <1>5 DEF AtMost
  <1>7. \A k \in 0 .. MaxDelayMs : k \div 2 \in 0 .. MaxDelayMs
    BY <1>1
  <1> QED
    BY <1>3, <1>6, <1>7 DEF RateLimitDelaysMs, b

LEMMA RateLimitedStep ==
    ASSUME ReplayInv, NEW header \in RetryAfterHeaders, RateLimited(header)
    PROVE  ReplayInv'
  <1>1. /\ attempt \in Nat /\ waited \in Nat /\ MaxRateLimitRetries \in Nat /\ MaxDelayMs \in Nat
        /\ waited <= attempt * MaxDelayMs
    BY ReaderAssumption DEF ReplayInv, ReaderOK, RetriesAreBounded
  <1>2. PICK delay \in RateLimitDelaysMs(attempt + 1, header) : waited' = waited + delay
    BY DEF RateLimited
  <1>3. delay \in 0 .. MaxDelayMs
    BY <1>1, <1>2, DelayCapped
  <1>4. attempt' = attempt + 1 /\ attempt < MaxRateLimitRetries
    BY DEF RateLimited
  <1>5. (attempt + 1) * MaxDelayMs = attempt * MaxDelayMs + MaxDelayMs
        /\ attempt * MaxDelayMs \in Nat
    BY <1>1
  <1>6. RetriesAreBounded' /\ attempt' \in Nat /\ waited' \in Nat
    <2> DEFINE p == attempt * MaxDelayMs
    <2>1. p \in Nat /\ waited <= p /\ (attempt + 1) * MaxDelayMs = p + MaxDelayMs
      BY <1>1, <1>5
    <2> HIDE DEF p
    <2> QED
      BY <1>1, <1>2, <1>3, <1>4, <2>1 DEF RetriesAreBounded
  <1>7. UNCHANGED <<chain, until, pc, before, collected, pos, missing, events, seen>>
    BY DEF RateLimited
  <1> QED
    BY <1>6, <1>7 DEF ReplayInv, ReaderOK, Gathered, Replayed, SpanTo

LEMMA AnsweredBound ==
    ASSUME Answered
    PROVE  RetriesAreBounded' /\ attempt' \in Nat /\ waited' \in Nat
  BY ReaderAssumption DEF Answered, RetriesAreBounded

\* The history grows at the far end: what has been read of it stays.
LEMMA GrowStep ==
    ASSUME ReplayInv, NEW kind \in Kinds, Grow(kind)
    PROVE  ReplayInv'
  <1>1. ReaderOK /\ RetriesAreBounded /\ Gathered /\ Replayed
    BY DEF ReplayInv
  <1>2. /\ chain' = Append(chain, kind)
        /\ UNCHANGED <<until, pc, before, collected, pos, missing, events, attempt, waited, seen>>
    BY DEF Grow, reader, request
  <1>3. /\ chain' \in Seq(Kinds) /\ Len(chain') = Len(chain) + 1 /\ Len(chain) \in Nat
        /\ \A n \in 1 .. Len(chain) : chain'[n] = chain[n]
    BY <1>1, <1>2, AppendProperties, LenProperties DEF ReaderOK
  <1>4. ReaderOK' /\ RetriesAreBounded'
    BY <1>1, <1>2, <1>3 DEF ReaderOK, RetriesAreBounded
  <1>5. seen .. Len(chain) \subseteq seen .. Len(chain')
    BY <1>1, <1>3 DEF ReaderOK
  <1>6. Gathered'
    BY <1>1, <1>2, <1>5 DEF Gathered
  <1>7. ASSUME pc \in {"read", "done"} PROVE Replayed'
    <2>1. PICK upTo \in seen .. Len(chain) :
              collected = SpanTo(upTo) /\ pos \in 1 .. (upTo - until + 1)
      BY <1>1, <1>7 DEF Replayed
    <2>2. \A n \in (until + 1) .. (until + pos - 1) : n \in 1 .. Len(chain)
      BY <1>1, <1>3, <2>1 DEF ReaderOK
    <2>3. {n \in (until + 1) .. (until + pos - 1) : chain[n] = "event" /\ n \notin missing}
            = {n \in (until + 1) .. (until + pos - 1) : chain'[n] = "event" /\ n \notin missing}
      BY <1>3, <2>2
    <2>4. SpanTo(upTo)' = SpanTo(upTo) /\ upTo \in seen .. Len(chain')
      BY <1>2, <1>5 DEF SpanTo
    <2>5. /\ missing \subseteq (until + 1) .. (until + pos - 1)
          /\ ToSet(events) = {n \in (until + 1) .. (until + pos - 1) :
                                    chain[n] = "event" /\ n \notin missing}
          /\ Increasing(events) /\ (pc = "done" => pos > Len(collected))
      BY <1>1, <1>7 DEF Replayed
    <2> QED
      BY <1>2, <2>1, <2>3, <2>4, <2>5 DEF Replayed
  <1> QED
    BY <1>2, <1>4, <1>6, <1>7 DEF ReplayInv, Replayed

\* One more entry of the history is passed, at the place it has in the span.
LEMMA ReadAt ==
    ASSUME ReplayInv, InRead
    PROVE  /\ collected[pos] = until + pos
           /\ until \in Nat /\ pos \in Nat \ {0} /\ until + pos \in 1 .. Len(chain)
           /\ \E upTo \in seen .. Len(chain) :
                collected = SpanTo(upTo) /\ pos + 1 \in 1 .. (upTo - until + 1)
  <1>1. ReaderOK /\ Replayed /\ pc = "read" /\ pos <= Len(collected)
    BY DEF ReplayInv, InRead
  <1>2. PICK upTo \in seen .. Len(chain) :
            collected = SpanTo(upTo) /\ pos \in 1 .. (upTo - until + 1)
    BY <1>1 DEF Replayed
  <1>3. upTo - until \in Nat /\ until \in Nat /\ Len(chain) \in Nat /\ seen \in Nat
    BY <1>1, <1>2, LenProperties DEF ReaderOK
  <1>4. Len(SpanTo(upTo)) = upTo - until
    BY <1>3 DEF SpanTo
  <1>5. pos \in 1 .. (upTo - until) /\ pos \in Nat \ {0}
    BY <1>1, <1>2, <1>3, <1>4
  <1>6. collected[pos] = until + pos
    BY <1>2, <1>5 DEF SpanTo
  <1>7. until + pos \in 1 .. Len(chain) /\ pos + 1 \in 1 .. (upTo - until + 1)
    BY <1>2, <1>3, <1>5
  <1> QED
    BY <1>2, <1>3, <1>5, <1>6, <1>7

LEMMA EntryPassed ==
    ASSUME ReplayInv, InRead, pos' = pos + 1, UNCHANGED <<chain, until, pc, collected, seen>>,
           missing \subseteq missing', missing' \subseteq missing \cup {until + pos},
           Increasing(events'),
           ToSet(events') = ToSet(events) \cup
                (IF chain[until + pos] = "event" /\ until + pos \notin missing'
                 THEN {until + pos} ELSE {})
    PROVE  Replayed'
  <1>1. ReaderOK /\ Replayed /\ pc = "read"
    BY DEF ReplayInv, InRead
  <1>2. until \in Nat /\ pos \in Nat \ {0} /\ until + pos \in Nat
    BY ReadAt
  <1>3. (until + 1) .. (until + pos' - 1) = ((until + 1) .. (until + pos - 1)) \cup {until + pos}
    BY <1>2
  <1>4. /\ missing \subseteq (until + 1) .. (until + pos - 1)
        /\ ToSet(events) = {n \in (until + 1) .. (until + pos - 1) :
                                chain[n] = "event" /\ n \notin missing}
    BY <1>1 DEF Replayed
  <1>5. until + pos \notin (until + 1) .. (until + pos - 1)
    BY <1>2
  <1>6. \A n \in (until + 1) .. (until + pos - 1) : n \in missing' <=> n \in missing
    BY <1>2, <1>5
  <1>7. missing' \subseteq (until + 1) .. (until + pos' - 1)
    BY <1>3, <1>4
  <1>8. ToSet(events') = {n \in (until + 1) .. (until + pos' - 1) :
                                chain[n] = "event" /\ n \notin missing'}
    <2> DEFINE old == (until + 1) .. (until + pos - 1)
    <2> HIDE DEF old
    <2>1. (until + 1) .. (until + pos' - 1) = old \cup {until + pos}
      BY <1>3 DEF old
    <2>2. /\ ToSet(events) = {n \in old : chain[n] = "event" /\ n \notin missing}
          /\ \A n \in old : n \in missing' <=> n \in missing
      BY <1>4, <1>6 DEF old
    <2>3. ToSet(events) = {n \in old : chain[n] = "event" /\ n \notin missing'}
      BY <2>2
    <2> QED
      BY <2>1, <2>3
  <1>9. PICK upTo \in seen .. Len(chain) :
            collected = SpanTo(upTo) /\ pos + 1 \in 1 .. (upTo - until + 1)
    BY ReadAt
  <1>10. SpanTo(upTo)' = SpanTo(upTo)
    BY DEF SpanTo
  <1> QED
    BY <1>1, <1>7, <1>8, <1>9, <1>10 DEF Replayed

LEMMA SkipStep ==
    ASSUME ReplayInv, SkipFailed
    PROVE  ReplayInv'
  <1>1. /\ InRead /\ chain[until + pos] # "event" /\ pos' = pos + 1
        /\ UNCHANGED <<chain, until, pc, before, collected, missing, events, attempt, waited, seen>>
    BY ReadAt DEF SkipFailed, request
  <1>2. ReaderOK /\ RetriesAreBounded /\ Replayed /\ pc = "read"
    BY <1>1 DEF ReplayInv, InRead
  <1>3. Increasing(events)
    BY <1>2 DEF Replayed
  <1>4. Replayed'
    BY <1>1, <1>3, EntryPassed
  <1> QED
    BY <1>1, <1>2, <1>4 DEF ReplayInv, ReaderOK, RetriesAreBounded, Gathered

LEMMA ReadStep ==
    ASSUME ReplayInv, ReadTransaction
    PROVE  ReplayInv'
  <1>1. /\ InRead /\ pos' = pos + 1 /\ Answered /\ collected[pos] = until + pos
        /\ events' = IF chain[until + pos] = "event" THEN Append(events, until + pos) ELSE events
        /\ UNCHANGED <<chain, until, pc, before, collected, missing, seen>>
    BY ReadAt DEF ReadTransaction
  <1>2. ReaderOK /\ Replayed /\ pc = "read" /\ events \in Seq(Int)
    BY <1>1 DEF ReplayInv, InRead, ReaderOK
  <1>3. until \in Nat /\ pos \in Nat \ {0}
    BY <1>1, ReadAt
  <1>4. /\ Increasing(events)
        /\ missing \subseteq (until + 1) .. (until + pos - 1)
        /\ ToSet(events) \subseteq (until + 1) .. (until + pos - 1)
    BY <1>2 DEF Replayed
  <1>5. until + pos \notin missing /\ \A x \in ToSet(events) : x < until + pos
    BY <1>3, <1>4
  <1>6. /\ Append(events, until + pos) \in Seq(Int)
        /\ ToSet(Append(events, until + pos)) = ToSet(events) \cup {until + pos}
        /\ Increasing(Append(events, until + pos))
    BY <1>2, <1>3, <1>4, <1>5, AppendedLast
  <1>7. /\ events' \in Seq(Int) /\ Increasing(events')
        /\ ToSet(events') = ToSet(events) \cup
                (IF chain[until + pos] = "event" /\ until + pos \notin missing'
                 THEN {until + pos} ELSE {})
    BY <1>1, <1>2, <1>4, <1>5, <1>6
  <1>8. Replayed'
    BY <1>1, <1>7, EntryPassed
  <1> QED
    BY <1>1, <1>2, <1>7, <1>8, AnsweredBound DEF ReplayInv, ReaderOK, Gathered

LEMMA NullStep ==
    ASSUME ReplayInv, TransactionIsNull
    PROVE  ReplayInv'
  <1>1. /\ InRead /\ pos' = pos + 1 /\ Answered /\ missing' = missing \cup {until + pos}
        /\ UNCHANGED <<chain, until, pc, before, collected, events, seen>>
    BY ReadAt DEF TransactionIsNull
  <1>2. ReaderOK /\ Replayed /\ pc = "read"
    BY <1>1 DEF ReplayInv, InRead
  <1>3. Increasing(events)
    BY <1>2 DEF Replayed
  <1>4. Replayed'
    BY <1>1, <1>3, EntryPassed
  <1> QED
    BY <1>1, <1>2, <1>4, AnsweredBound DEF ReplayInv, ReaderOK, Gathered

LEMMA EndSteps ==
    ASSUME ReplayInv, RequestFails \/ Project
    PROVE  ReplayInv'
  <1>1. ReaderOK /\ RetriesAreBounded /\ Replayed
    BY DEF ReplayInv
  <1>2. /\ UNCHANGED <<chain, until, before, collected, pos, missing, events, attempt, waited, seen>>
        /\ pc' = "error" \/ (pc = "read" /\ pc' = "done" /\ pos > Len(collected))
    BY DEF RequestFails, Project, request
  <1>3. ReaderOK' /\ RetriesAreBounded' /\ Gathered'
    BY <1>1, <1>2 DEF ReaderOK, RetriesAreBounded, Gathered
  <1>4. Replayed'
    BY <1>1, <1>2 DEF Replayed, SpanTo
  <1> QED
    BY <1>3, <1>4 DEF ReplayInv
-----------------------------------------------------------------------------
(* signatureHistory *)

\* What a page holds, and what is taken of it, below a cursor above `until`.
LEMMA FreshPart ==
    ASSUME ReaderOK, until <= Newest, Newest \in Nat
    PROVE  LET n == AtMost(Newest, PageSize)
           IN  /\ n \in Nat /\ n <= Newest
               /\ n < PageSize => n = Newest
               /\ Page = Down(Newest, n) /\ Page \in Seq(Int) /\ Len(Page) = n
               /\ until \in ToSet(Page) =>
                    /\ until > Newest - n
                    /\ Fresh(Page) = Down(Newest, Newest - until)
               /\ until \notin ToSet(Page) =>
                    /\ until <= Newest - n
                    /\ Fresh(Page) = Down(Newest, n)
  <1> DEFINE n == AtMost(Newest, PageSize)
             page == Down(Newest, n)
  <1>1. PageSize \in Nat \ {0} /\ until \in Nat
    BY ReaderAssumption DEF ReaderOK
  <1>2. n \in Nat /\ n <= Newest /\ (n < PageSize => n = Newest)
    BY <1>1 DEF AtMost
  <1>3. Page = page
    BY DEF Page, Down, Newest
  <1> HIDE DEF n
  <1>4. page \in Seq(Int) /\ Len(page) = n /\ DOMAIN page = 1 .. n
    BY <1>2, DownIsSeq, LenProperties
  <1>5. \A i \in 1 .. n : page[i] = Newest + 1 - i
    BY DEF Down
  <1>6. until \in ToSet(page) <=> \E i \in 1 .. n : Newest + 1 - i = until
    BY <1>4, <1>5 DEF ToSet
  <1> HIDE DEF page
  <1>7. ASSUME until \in ToSet(page)
        PROVE  until > Newest - n /\ Fresh(page) = Down(Newest, Newest - until)
    <2> DEFINE i == CHOOSE i \in DOMAIN page : page[i] = until
    <2>1. i \in 1 .. n /\ page[i] = until
      BY <1>4, <1>5, <1>6, <1>7
    <2> HIDE DEF i
    <2>2. i = Newest + 1 - until
      BY <1>1, <1>2, <1>5, <2>1
    <2>3. until > Newest - n /\ Newest - until \in 0 .. n
      BY <1>1, <1>2, <2>1, <2>2
    <2>4. i - 1 = Newest - until
      BY <1>1, <2>2
    <2>5. Fresh(page) = SubSeq(page, 1, Newest - until)
      BY <1>7, <2>4 DEF Fresh, i
    <2>6. SubSeq(page, 1, Newest - until) = Down(Newest, Newest - until)
      <3> DEFINE k == Newest - until
      <3>1. Newest \in Int /\ k \in 0 .. n
        BY <2>3
      <3> HIDE DEF k
      <3>2. SubSeq(Down(Newest, n), 1, k) = Down(Newest, k)
        BY <1>2, <3>1, DownPrefix
      <3> QED
        BY <3>2 DEF page, k
    <2> QED
      BY <2>3, <2>5, <2>6
  <1>8. ASSUME until \notin ToSet(page)
        PROVE  until <= Newest - n /\ Fresh(page) = Down(Newest, n)
    <2>1. until <= Newest - n
      <3> SUFFICES ASSUME until > Newest - n PROVE FALSE
        BY <1>1, <1>2
      <3>1. Newest + 1 - until \in 1 .. n /\ Newest + 1 - (Newest + 1 - until) = until
        BY <1>1, <1>2
      <3> QED
        BY <1>6, <1>8, <3>1
    <2> QED
      BY <1>8, <2>1 DEF Fresh, page
  <1> QED
    BY <1>2, <1>3, <1>4, <1>7, <1>8 DEF n, page

LEMMA PageStep ==
    ASSUME ReplayInv, ReadPage
    PROVE  ReplayInv'
  <1> DEFINE n == AtMost(Newest, PageSize)
             all == collected \o Fresh(Page)
             met == until \in ToSet(Page)
  <1>1. ReaderOK /\ Gathered /\ pc = "page" /\ pos = 1 /\ missing = {} /\ events = << >>
    BY DEF ReplayInv, ReadPage, Gathered
  <1>2. /\ until \in Nat /\ seen \in Nat /\ Len(chain) \in Nat /\ until <= seen
        /\ seen <= Len(chain) /\ before \in Nat
    BY <1>1, LenProperties DEF ReaderOK
  <1>3. PICK top \in seen .. Len(chain) :
            /\ Newest \in Nat /\ Newest <= top /\ until <= Newest
            /\ collected = Down(top, top - Newest)
    <2>1. CASE before = 0
      <3>1. Newest = Len(chain) /\ collected = << >>
        BY <1>1, <2>1 DEF Newest, Gathered
      <3>2. << >> = Down(Len(chain), Len(chain) - Len(chain))
        <4>1. Len(chain) - Len(chain) = 0
          BY <1>2
        <4>2. Down(Len(chain), 0) \in Seq(Int) /\ Len(Down(Len(chain), 0)) = 0
          BY <1>2, DownIsSeq
        <4> QED
          BY <4>1, <4>2
      <3> QED
        BY <1>2, <3>1, <3>2
    <2>2. CASE before # 0
      <3>1. Newest = before - 1 /\ Newest \in Nat
        BY <1>2, <2>2 DEF Newest
      <3>2. PICK top \in seen .. Len(chain) :
                /\ before - 1 <= top /\ until < before
                /\ collected = Down(top, top - (before - 1))
        BY <1>1, <2>2 DEF Gathered
      <3> QED
        BY <1>2, <3>1, <3>2
    <2> QED
      BY <2>1, <2>2
  <1>4. /\ n \in Nat /\ n <= Newest
        /\ n < PageSize => n = Newest
        /\ Page = Down(Newest, n) /\ Page \in Seq(Int) /\ Len(Page) = n
        /\ met => until > Newest - n /\ Fresh(Page) = Down(Newest, Newest - until)
        /\ ~met => until <= Newest - n /\ Fresh(Page) = Down(Newest, n)
    BY <1>1, <1>3, FreshPart
  <1>5. top \in Nat /\ PageSize \in Nat \ {0}
    BY <1>2, <1>3, ReaderAssumption
  <1>6. \A k \in Nat : Down(top, top - Newest) \o Down(Newest, k) = Down(top, top - Newest + k)
    <2>1. top - Newest \in Nat /\ top - (top - Newest) = Newest
      BY <1>3, <1>5
    <2> DEFINE m == top - Newest
    <2>2. m \in Nat /\ top - m = Newest /\ top \in Int
      BY <1>5, <2>1
    <2> HIDE DEF m
    <2>3. \A k \in Nat : Down(top, m) \o Down(top - m, k) = Down(top, m + k)
      BY <2>2, DownJoins
    <2> QED
      BY <2>2, <2>3 DEF m
  <1>7. met => all = Down(top, top - until)
    <2>1. Newest - until \in Nat /\ top - Newest + (Newest - until) = top - until
      BY <1>2, <1>3, <1>5
    <2> QED
      BY <1>3, <1>4, <1>6, <2>1
  <1>8. ~met => all = Down(top, top - Newest + n)
    BY <1>3, <1>4, <1>6
  <1>9. /\ UNCHANGED <<chain, until, pos, missing, events, seen>> /\ Answered
        /\ \/ pc' = "error" /\ UNCHANGED before
           \/ /\ Page = << >> \/ met \/ Len(Page) < PageSize
              /\ pc' = "read" /\ collected' = Reverse(all) /\ UNCHANGED before
           \/ /\ ~(Page = << >> \/ met \/ Len(Page) < PageSize)
              /\ pc' = "page" /\ collected' = all /\ before' = Page[Len(Page)]
    BY <1>1 DEF ReadPage, NextCursor
  <1> HIDE DEF n, all, met
  <1>10. RetriesAreBounded' /\ attempt' \in Nat /\ waited' \in Nat
    BY <1>9, AnsweredBound
  <1>11. CASE pc' = "error"
    <2>1. before' \in Nat
      BY <1>2, <1>9, <1>11
    <2>2. ReaderOK'
      BY <1>1, <1>9, <1>10, <1>11, <2>1 DEF ReaderOK
    <2> QED
      BY <1>10, <1>11, <2>2 DEF ReplayInv, Gathered, Replayed
  <1>12. CASE pc' = "read"
    <2>1. (Page = << >> \/ met \/ Len(Page) < PageSize) /\ collected' = Reverse(all) /\ before' = before
      BY <1>9, <1>12
    <2>2. all = Down(top, top - until)
      <3>1. CASE met
        BY <1>7, <3>1
      <3>2. CASE ~met
        <4>1. n < PageSize
          BY <1>4, <1>5, <2>1, <3>2
        <4>2. n = Newest /\ until = 0 /\ top - Newest + n = top - until
          BY <1>2, <1>3, <1>4, <1>5, <3>2, <4>1
        <4> QED
          BY <1>8, <3>2, <4>2
      <3> QED
        BY <3>1, <3>2
    <2>3. top - until \in Nat /\ top - (top - until) = until
      BY <1>2, <1>3, <1>5
    <2>4. collected' = SpanTo(top)
      <3> DEFINE m == top - until
      <3>1. m \in Nat /\ top - m = until /\ top \in Int /\ collected' = Reverse(Down(top, m))
        BY <1>5, <2>1, <2>2, <2>3
      <3> HIDE DEF m
      <3>2. Reverse(Down(top, m)) = [i \in 1 .. m |-> (top - m) + i]
        BY <3>1, DownReversed
      <3> QED
        BY <3>1, <3>2 DEF SpanTo, m
    <2>5. ReaderOK'
      BY <1>1, <1>9, <1>10, <1>12, <2>1 DEF ReaderOK
    <2>6. Replayed'
      <3>1. SpanTo(top)' = SpanTo(top) /\ pos' = 1 /\ 1 \in 1 .. (top - until + 1)
        BY <1>1, <1>9, <2>3 DEF SpanTo
      <3>2. (until + 1) .. (until + 1 - 1) = {}
        BY <1>2
      <3>3. ToSet(<< >>) = {} /\ Increasing(<< >>)
        BY DEF ToSet, Increasing
      <3> QED
        BY <1>1, <1>3, <1>9, <1>12, <2>4, <3>1, <3>2, <3>3 DEF Replayed
    <2> QED
      BY <1>10, <1>12, <2>5, <2>6 DEF ReplayInv, Gathered
  <1>13. CASE pc' = "page"
    <2>1. /\ Page # << >> /\ ~met /\ n = PageSize /\ collected' = all
          /\ before' = Page[Len(Page)]
      <3>1. /\ Page # << >> /\ ~met /\ ~(Len(Page) < PageSize) /\ collected' = all
            /\ before' = Page[Len(Page)]
        BY <1>9, <1>13
      <3>2. n <= PageSize
        BY <1>3, <1>5 DEF n, AtMost
      <3> QED
        BY <1>4, <1>5, <3>1, <3>2
    <2>2. before' = Newest + 1 - n
      BY <1>4, <1>5, <2>1 DEF Down
    <2>3. /\ before' \in Nat \ {0} /\ before' - 1 <= top /\ until < before'
          /\ top - (before' - 1) = top - Newest + n
      BY <1>2, <1>3, <1>4, <1>5, <2>1, <2>2
    <2>4. collected' = Down(top, top - (before' - 1))
      BY <1>8, <2>1, <2>3
    <2>5. ReaderOK'
      BY <1>1, <1>9, <1>10, <1>13, <2>3 DEF ReaderOK
    <2>6. Gathered'
      BY <1>1, <1>3, <1>9, <2>3, <2>4 DEF Gathered
    <2> QED
      BY <1>10, <1>13, <2>5, <2>6 DEF ReplayInv, Replayed
  <1> QED
    BY <1>9, <1>11, <1>12, <1>13

LEMMA ReplayStep == ReplayInv /\ [Next]_vars => ReplayInv'
  <1> SUFFICES ASSUME ReplayInv, [Next]_vars PROVE ReplayInv'
    OBVIOUS
  <1>1. CASE UNCHANGED vars
    BY <1>1 DEF vars, reader, request, ReplayInv, ReaderOK, RetriesAreBounded, Gathered,
                Replayed, SpanTo
  <1> QED
    BY <1>1, RateLimitedStep, GrowStep, SkipStep, ReadStep, NullStep, EndSteps, PageStep
    DEF Next, Reads

LEMMA ReplayAlways == Spec => []ReplayInv
  BY ReplayInit, ReplayStep, PTL DEF Spec

\* No request is repeated, or waits, without bound, whatever Retry-After asks for.
THEOREM RetriesAreAlwaysBounded == Spec => []RetriesAreBounded
  <1>1. ReplayInv => RetriesAreBounded
    BY DEF ReplayInv
  <1> QED
    BY <1>1, ReplayAlways, PTL

\* A replay that ends has every event after `until`, once and in order, up to some point
\* no earlier than its start, save those whose transaction the endpoint would not serve.
THEOREM ReplayIsAlwaysComplete == Spec => []ReplayIsComplete
  <1>1. ReplayInv => ReplayIsComplete
    <2> SUFFICES ASSUME ReplayInv, pc = "done"
                 PROVE  \E upTo \in seen .. Len(chain) :
                            /\ collected = [i \in 1 .. (upTo - until) |-> until + i]
                            /\ ToSet(events) = {n \in (until + 1) .. upTo :
                                                    chain[n] = "event" /\ n \notin missing}
                            /\ \A i, j \in DOMAIN events : i < j => events[i] < events[j]
      BY DEF ReplayIsComplete
    <2>1. ReaderOK /\ Replayed
      BY DEF ReplayInv
    <2>2. PICK upTo \in seen .. Len(chain) :
              collected = SpanTo(upTo) /\ pos \in 1 .. (upTo - until + 1)
      BY <2>1 DEF Replayed
    <2>3. upTo - until \in Nat /\ until \in Nat /\ upTo \in Nat
      BY <2>1, <2>2, LenProperties DEF ReaderOK
    <2>4. pos = upTo - until + 1
      <3>1. Len(SpanTo(upTo)) = upTo - until
        BY <2>3 DEF SpanTo
      <3>2. pos > upTo - until
        BY <2>1, <2>2, <3>1 DEF Replayed
      <3> QED
        BY <2>2, <2>3, <3>2
    <2>5. until + pos - 1 = upTo
      BY <2>3, <2>4
    <2> QED
      BY <2>1, <2>2, <2>5 DEF Replayed, SpanTo, Increasing
  <1> QED
    BY <1>1, ReplayAlways, PTL
=============================================================================
