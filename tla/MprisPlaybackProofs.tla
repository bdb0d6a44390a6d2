-------------------------- MODULE MprisPlaybackProofs --------------------------
(***************************************************************************)
(* Proofs about MprisPlayback: it implements StableTrack, whatever the     *)
(* players answer, come, go or hang between two reads, and however fast    *)
(* polls follow each other.                                                *)
(***************************************************************************)
EXTENDS MprisPlayback, WellFoundedInduction, TLAPS

Records == [player : Players, status : Followable, info : Infos \cup {Empty}]

Ages == Nat \cup {None}

\* The types of the selector and of the reads of a poll.
SelectorOK(sel) ==
    sel \in [current : Players \cup {None}, lock : Players \cup {None},
             since : [Players -> Ages], later : SUBSET (Players \X Players)]

PollOK(p) ==
    /\ p \in [phase : {"idle", "reading", "sampling"}, todo : SUBSET Players,
             found : Seq(Records)]
    /\ p.phase = "reading" => p.todo # {}

\* The types of the stabilizer and of the last sample.
StabOK(s) ==
    s \in [cand : Keys \cup {None}, age : Nat, committed : Keys \cup {None},
          transitioning : BOOLEAN]

SampleOK(sample) == sample \in [key : Keys \cup {None}, transitioning : BOOLEAN]

\* The type invariant: a poll that reads has players left to read, one that
\* samples follows a player.
TypeOK ==
    /\ running \in BOOLEAN /\ missed \in BOOLEAN
    /\ SelectorOK(selector) /\ PollOK(poll)
    /\ poll.phase = "sampling" => selector.current # None
    /\ StabOK(stab) /\ SampleOK(last)

\* The last sample was of the candidate, and transitioning unless it is the
\* track that is committed already.  Without a candidate (nothing was seen yet, or
\* nothing in the last metadata) the next sample is a sighting or a return.
CandidateWasSeen ==
    stab.cand # None =>
        /\ stab.transitioning = (stab.cand # stab.committed)
        /\ last = [key |-> stab.cand, transitioning |-> stab.transitioning]

IInv == TypeOK /\ CandidateWasSeen

-------------------------------------------------------------------------------
(* The selection of the player.                                            *)

\* The metadata a player answers is one of those reported.
LEMMA AnsweredInfo == \A answer \in Answers : answer.info \in Infos \cup {None}
<1> SUFFICES ASSUME NEW p \in Players, NEW answer \in AnswersOf(p)
             PROVE  answer.info \in Infos \cup {None}
  BY DEF Answers
<1>1. Reports[p] \subseteq Infos
  BY DEF Infos
<1>2. answer.info \in Reports[p] \cup {None}
  BY DEF AnswersOf
<1> QED BY <1>1, <1>2

\* Of some numbers one is the least.
LEMMA LeastNatural ==
    ASSUME NEW S \in SUBSET Nat, S # {}
    PROVE  \E m \in S : \A n \in S : m <= n
<1>1. PICK m \in S : \A n \in S : ~ (<<n, m>> \in OpToRel(<, Nat))
  BY NatLessThanWellFounded, WFMin
<1>2. \A n \in S : ~ (n < m)
  BY <1>1 DEF OpToRel
<1>3. QED BY <1>2

\* Some of the records found, by their indices, are records of players.
LEMMA FoundArePlayers ==
    ASSUME NEW records \in Seq(Records)
    PROVE  \A i \in DOMAIN records : /\ i \in Nat
                                     /\ records[i] \in Records /\ records[i].player \in Players
<1>1. \A i \in DOMAIN records : i \in Nat /\ records[i] \in Records
  OBVIOUS
<1>2. \A r \in Records : r.player \in Players
  BY DEF Records
<1>3. QED BY <1>1, <1>2

\* The first of some records is one of a player.
LEMMA FirstOfIsAPlayer ==
    ASSUME NEW records \in Seq(Records), NEW those \in SUBSET (DOMAIN records)
    PROVE  FirstOf(records, those) \in Players \cup {None}
<1>1. CASE those = {}
  BY <1>1 DEF FirstOf
<1>2. CASE those # {}
  <2>1. those \in SUBSET Nat
    BY FoundArePlayers
  <2>2. \E i \in those : \A j \in those : i <= j
    BY <1>2, <2>1, LeastNatural
  <2>3. (CHOOSE i \in those : \A j \in those : i <= j) \in those
    BY <2>2
  <2>4. QED BY <1>2, <2>3, FoundArePlayers DEF FirstOf
<1>3. QED BY <1>1, <1>2

\* Scores are small numbers.
LEMMA ScoresAreBounded ==
    ASSUME NEW s, NEW record
    PROVE  Score(s, record) \in 0 .. 15
<1>1. \A b : Bit(b) \in {0, 1}
  BY DEF Bit
<1>2. /\ Bit(record.info.artist # None) \in {0, 1}
      /\ Bit(<<record.player, s.current>> \in s.later) \in {0, 1}
      /\ Bit(record.info.title # None) \in {0, 1}
      /\ Bit(record.player = s.current) \in {0, 1}
  BY <1>1
<1> HIDE DEF Bit
<1>3. QED BY <1>2 DEF Score

\* Among some records there is a first one with the highest score, and it is one
\* of a player: max() of the code has a result, whatever the scores are.
LEMMA HighestIsAPlayer ==
    ASSUME NEW s, NEW records \in Seq(Records), NEW those \in SUBSET (DOMAIN records), those # {}
    PROVE  Highest(s, records, those) \in Players
<1> DEFINE Value(i) == Score(s, records[i])
           Lacks == {n \in Nat : \E i \in those : n = 15 - Value(i)}
<1>1. \A i \in those : Value(i) \in Nat /\ 15 - Value(i) \in Nat
  <2> SUFFICES ASSUME NEW i \in those PROVE Value(i) \in Nat /\ 15 - Value(i) \in Nat
    OBVIOUS
  <2>1. Value(i) \in 0 .. 15
    BY ScoresAreBounded
  <2> HIDE DEF Value
  <2>2. QED BY <2>1
<1>2. those \in SUBSET Nat
  BY FoundArePlayers
<1> DEFINE Best(i) == \A j \in those : Value(j) <= Value(i) /\ (j < i => Value(j) < Value(i))
<1> HIDE DEF Value
<1>3. Lacks # {} /\ Lacks \in SUBSET Nat
  BY <1>1
<1>4. PICK n \in Lacks : \A m \in Lacks : n <= m
  BY <1>3, LeastNatural
<1> DEFINE Tops == {i \in those : n = 15 - Value(i)}
<1>5. Tops # {} /\ Tops \in SUBSET Nat
  BY <1>2, <1>4
<1>6. PICK i \in Tops : \A j \in Tops : i <= j
  BY <1>5, LeastNatural
<1>7. ASSUME NEW j \in those
      PROVE  Value(j) <= Value(i) /\ (j < i => Value(j) < Value(i))
  <2>1. 15 - Value(j) \in Lacks
    BY <1>1
  <2>2. n <= 15 - Value(j) /\ n = 15 - Value(i) /\ i \in those
    BY <1>4, <1>6, <2>1
  <2>3. Value(j) <= Value(i)
    BY <1>1, <2>2
  <2>4. ASSUME j < i PROVE Value(j) < Value(i)
    <3>1. j \notin Tops
      BY <1>2, <1>6, <2>2, <2>4
    <3>2. QED BY <1>1, <2>2, <2>3, <3>1
  <2>5. QED BY <2>3, <2>4
<1>8. \E k \in those : Best(k)
  BY <1>6, <1>7
<1>9. (CHOOSE k \in those : Best(k)) \in those
  BY <1>8
<1>10. Highest(s, records, those) = records[CHOOSE k \in those : Best(k)].player
  BY DEF Highest, Value
<1> HIDE DEF Best
<1>11. QED BY <1>9, <1>10, FoundArePlayers

\* The player followed is one that was found, the one pinned, or none.
LEMMA ChoiceIsAPlayer ==
    ASSUME NEW s, SelectorOK(s), NEW records \in Seq(Records)
    PROVE  Choose(s, records) \in Players \cup {None}
<1>1. /\ WithStatus(records, "Playing") \in SUBSET (DOMAIN records)
      /\ WithTrack(records, "Playing") \in SUBSET (DOMAIN records)
      /\ WithTrack(records, "Paused") \in SUBSET (DOMAIN records)
  BY DEF WithStatus, WithTrack
<1>2. s.lock \in Players \cup {None} /\ s.current \in Players \cup {None}
  BY DEF SelectorOK
<1>3. QED BY <1>1, <1>2, FirstOfIsAPlayer, HighestIsAPlayer DEF Choose

\* The next player to read is one of those left.
LEMMA FirstToPollIsLeft ==
    ASSUME NEW todo \in SUBSET Players, todo # {}
    PROVE  FirstToPoll(todo) \in todo
<1>1. CASE selector.current \in todo
  BY <1>1 DEF FirstToPoll
<1>2. CASE selector.current \notin todo
  <2> DEFINE S == {i \in DOMAIN Names : Names[i] \in todo}
             First(i) == Names[i] \in todo
                         /\ \A j \in DOMAIN Names : Names[j] \in todo => i <= j
  <2>1. S # {} /\ S \in SUBSET Nat
    BY NamesAssumption DEF Players
  <2>2. PICK i \in S : \A j \in S : i <= j
    BY <2>1, LeastNatural
  <2>3. \E k \in DOMAIN Names : First(k)
    BY <2>2
  <2>4. First(CHOOSE k \in DOMAIN Names : First(k))
    BY <2>3
  <2>5. QED BY <1>2, <2>4 DEF FirstToPoll
<1>3. QED BY <1>1, <1>2

\* What is noticed of a player, and a player that is gone, keep the selector's type.
LEMMA SelectorKeepsItsType ==
    ASSUME NEW s, SelectorOK(s)
    PROVE  /\ \A p \in Players : \A status : SelectorOK(Noticed(s, p, status))
           /\ \A names : SelectorOK(Present(s, names))
           /\ \A p \in Players \cup {None} : SelectorOK([s EXCEPT !.current = p])
           /\ \A p \in Players \cup {None} : SelectorOK([s EXCEPT !.lock = p])
           /\ SelectorOK(NoSelection(s.lock))
<1>1. /\ s.current \in Players \cup {None} /\ s.lock \in Players \cup {None}
      /\ s.since \in [Players -> Ages] /\ s.later \in SUBSET (Players \X Players)
  BY DEF SelectorOK
<1>2. \A since \in [Players -> Ages], later \in SUBSET (Players \X Players) :
         SelectorOK([s EXCEPT !.since = since, !.later = later])
  BY DEF SelectorOK
<1>3. 0 \in Ages /\ None \in Ages
  BY DEF Ages
<1>4. ASSUME NEW p \in Players, NEW status
      PROVE  SelectorOK(Noticed(s, p, status))
  <2> DEFINE fewer == {pair \in s.later : p \notin {pair[1], pair[2]}}
             more == s.later \cup {<<p, q>> : q \in {r \in Players : s.since[r] # None
                                                                     /\ s.since[r] > Margin}}
             stopped == [s.since EXCEPT ![p] = None]
             started == [s.since EXCEPT ![p] = 0]
  <2>1. fewer \in SUBSET (Players \X Players) /\ more \in SUBSET (Players \X Players)
    BY <1>1
  <2>2. stopped \in [Players -> Ages] /\ started \in [Players -> Ages]
    BY <1>1, <1>3
  <2>3. Noticed(s, p, status) \in {s, [s EXCEPT !.since = stopped, !.later = fewer],
                                   [s EXCEPT !.since = started, !.later = more]}
    BY Zenon DEF Noticed, NotPlaying
  <2> HIDE DEF fewer, more, stopped, started
  <2>4. /\ SelectorOK([s EXCEPT !.since = stopped, !.later = fewer])
        /\ SelectorOK([s EXCEPT !.since = started, !.later = more])
    BY <1>2, <2>1, <2>2
  <2>5. QED BY <2>3, <2>4, Zenon
<1>5. ASSUME NEW names PROVE SelectorOK(Present(s, names))
  <2> DEFINE since == [p \in Players |-> IF p \in names THEN s.since[p] ELSE None]
             later == {pair \in s.later : pair[1] \in names /\ pair[2] \in names}
  <2>1. since \in [Players -> Ages] /\ later \in SUBSET (Players \X Players)
    BY <1>1, <1>3
  <2>2. Present(s, names) = [s EXCEPT !.since = since, !.later = later]
    BY Zenon DEF Present
  <2> HIDE DEF since, later
  <2>3. QED BY <1>2, <2>1, <2>2
<1>6. ASSUME NEW p \in Players \cup {None}
      PROVE  SelectorOK([s EXCEPT !.current = p]) /\ SelectorOK([s EXCEPT !.lock = p])
  BY DEF SelectorOK
<1>7. SelectorOK(NoSelection(s.lock))
  BY <1>1, <1>3 DEF NoSelection, SelectorOK
<1>8. QED BY <1>4, <1>5, <1>6, <1>7

-------------------------------------------------------------------------------
(* The invariant, and the refinement.                                      *)

\* Nothing the lyric workflow hears of: the same track committed, the same last
\* sample, the same candidate.
Unheard == /\ stab'.cand = stab.cand /\ stab'.committed = stab.committed
           /\ stab'.transitioning = stab.transitioning /\ last' = last

\* Playback is forgotten.
Forgotten == stab' = Unsettled /\ last' = NoSample

LEMMA InitIsGood == Init => IInv /\ Promised!Init
<1> SUFFICES ASSUME Init PROVE IInv /\ Promised!Init
  OBVIOUS
<1>1. SelectorOK(selector)
  BY DEF Init, NoSelection, SelectorOK, Ages
<1>2. PollOK(poll) /\ poll.phase = "idle"
  BY DEF Init, NoPoll, PollOK
<1>3. StabOK(stab) /\ SampleOK(last) /\ stab.cand = None
  BY DEF Init, Unsettled, NoSample, StabOK, SampleOK
<1>4. Promised!Init
  BY DEF Init, Unsettled, NoSample, Promised!Init, Promised!Nothing
<1>5. QED BY <1>1, <1>2, <1>3, <1>4 DEF Init, IInv, TypeOK, CandidateWasSeen

\* Where nobody can be followed, playback is as it was or is forgotten.
LEMMA NobodyFollowedIsUnheard ==
    ASSUME NEW sel, SelectorOK(sel), NEW s, missed \in BOOLEAN, NobodyFollowed(sel, s)
    PROVE  /\ SelectorOK(selector') /\ missed' \in BOOLEAN
           /\ \/ stab' = s /\ last' = last
              \/ Forgotten
BY SelectorKeepsItsType DEF NobodyFollowed, NobodyKeepsTrack, Forgets, Forgotten

\* A step of a poll's reads keeps the types, and nothing else changes but by
\* forgetting it all.
LEMMA ContinuesIsUnheard ==
    ASSUME NEW sel, SelectorOK(sel), NEW s, NEW todo \in SUBSET Players,
           NEW found \in Seq(Records), missed \in BOOLEAN, Continues(sel, s, todo, found)
    PROVE  /\ SelectorOK(selector') /\ PollOK(poll') /\ missed' \in BOOLEAN
           /\ poll'.phase = "sampling" => selector'.current # None
           /\ \/ stab' = s /\ last' = last
              \/ Forgotten
<1> DEFINE chosen == [sel EXCEPT !.current = Choose(sel, found)]
<1>1. SelectorOK(chosen)
  BY ChoiceIsAPlayer, SelectorKeepsItsType
<1>2. PollOK(NoPoll) /\ NoPoll.phase = "idle"
  BY DEF NoPoll, PollOK
<1>3. PollOK([NoPoll EXCEPT !.phase = "sampling"])
  <2>1. \A p : PollOK(p) => PollOK([p EXCEPT !.phase = "sampling"])
    BY DEF PollOK
  <2>2. QED BY <1>2, <2>1
<1>4. CASE todo # {}
  BY <1>4 DEF Continues, PollOK
<1>5. CASE todo = {} /\ chosen.current = None
  <2>1. poll' = NoPoll /\ NobodyFollowed(chosen, s)
    BY <1>5 DEF Continues
  <2> HIDE DEF chosen
  <2>2. QED BY <1>1, <1>2, <2>1, NobodyFollowedIsUnheard
<1>6. CASE todo = {} /\ chosen.current # None
  <2>1. /\ poll' = [NoPoll EXCEPT !.phase = "sampling"]
        /\ selector' = chosen /\ stab' = s /\ UNCHANGED <<missed, last>>
    BY <1>6 DEF Continues
  <2> HIDE DEF chosen
  <2>2. QED BY <1>1, <1>3, <1>6, <2>1
<1>7. QED BY <1>4, <1>5, <1>6

\* What is unheard of, or forgotten, keeps the invariant and is a step of the
\* abstract specification.
LEMMA UnheardIsFine ==
    ASSUME IInv, running' \in BOOLEAN, missed' \in BOOLEAN, SelectorOK(selector'),
           PollOK(poll'), poll'.phase = "sampling" => selector'.current # None,
           StabOK(stab'), Unheard \/ Forgotten
    PROVE  IInv' /\ [Promised!Next]_<<stab.committed, last>>
<1>1. CASE Unheard
  <2>1. SampleOK(last')
    BY <1>1 DEF Unheard, IInv, TypeOK
  <2>2. CandidateWasSeen'
    BY <1>1 DEF Unheard, IInv, CandidateWasSeen
  <2>3. QED BY <1>1, <2>1, <2>2 DEF Unheard, IInv, TypeOK
<1>2. CASE Forgotten
  <2>1. SampleOK(last') /\ CandidateWasSeen'
    BY <1>2 DEF Forgotten, Unsettled, NoSample, SampleOK, CandidateWasSeen
  <2>2. Promised!Forget
    BY <1>2 DEF Forgotten, Unsettled, NoSample, Promised!Forget, Promised!Nothing
  <2>3. QED BY <2>1, <2>2 DEF IInv, TypeOK, Promised!Next
<1>3. QED BY <1>1, <1>2

\* Growing older is nothing the stabilizer's type or its track depends on.
LEMMA AgesStayAges ==
    ASSUME NEW e \in Nat, NEW cap \in Nat
    PROVE  /\ \A age \in Nat : Capped(age, e, cap) \in Nat
           /\ \A age \in Ages : Capped(age, e, cap) \in Ages
BY NoneAssumption DEF Capped, Ages

LEMMA PollStartsIsFine ==
    ASSUME IInv, NEW e \in Nat, NEW names \in SUBSET Players, PollStarts(e, names)
    PROVE  IInv' /\ [Promised!Next]_<<stab.committed, last>>
<1> DEFINE since == [p \in Players |-> Capped(selector.since[p], e, Margin + 1)]
           aged == [selector EXCEPT !.since = since]
           older == [stab EXCEPT !.age = Capped(stab.age, e, LongSettle)]
<1>1. SelectorOK(selector) /\ StabOK(stab) /\ missed \in BOOLEAN
  BY DEF IInv, TypeOK
<1>2. LongSettle \in Nat /\ Margin + 1 \in Nat
  BY TimesAssumption
<1>3. since \in [Players -> Ages]
  BY <1>1, <1>2, AgesStayAges DEF SelectorOK
<1> HIDE DEF since
<1>4. SelectorOK(aged)
  BY <1>1, <1>3 DEF SelectorOK
<1>5. Capped(stab.age, e, LongSettle) \in Nat
  BY <1>1, <1>2, AgesStayAges DEF StabOK
<1>6. /\ StabOK(older) /\ older.cand = stab.cand /\ older.committed = stab.committed
      /\ older.transitioning = stab.transitioning
  BY <1>1, <1>5 DEF StabOK
<1>7. running' = running /\ Continues(Present(aged, names), older, names, <<>>)
  BY Zenon DEF PollStarts, since
<1> HIDE DEF aged, older
<1>8. SelectorOK(Present(aged, names)) /\ <<>> \in Seq(Records)
  BY <1>4, SelectorKeepsItsType
<1>9. /\ SelectorOK(selector') /\ PollOK(poll') /\ missed' \in BOOLEAN
      /\ poll'.phase = "sampling" => selector'.current # None
      /\ \/ stab' = older /\ last' = last
         \/ Forgotten
  BY <1>1, <1>7, <1>8, ContinuesIsUnheard
<1>10. StabOK(stab') /\ (Unheard \/ Forgotten)
  <2>1. StabOK(Unsettled)
    BY DEF Unsettled, StabOK
  <2>2. QED BY <1>6, <1>9, <2>1 DEF Unheard, Forgotten
<1>11. running' \in BOOLEAN
  BY <1>7 DEF IInv, TypeOK
<1>12. QED BY <1>9, <1>10, <1>11, UnheardIsFine

LEMMA ReadPlayerIsFine ==
    ASSUME IInv, NEW answer \in Answers, ReadPlayer(answer)
    PROVE  IInv' /\ [Promised!Next]_<<stab.committed, last>>
<1> DEFINE p == FirstToPoll(poll.todo)
           known == IF answer.info = None THEN Empty ELSE answer.info
           record == [player |-> p, status |-> answer.status, info |-> known]
           kept == answer.status \in Followable /\ (answer.info # None \/ p = selector.lock)
           found == IF kept THEN Append(poll.found, record) ELSE poll.found
           left == poll.todo \ {p}
<1>1. SelectorOK(selector) /\ StabOK(stab) /\ missed \in BOOLEAN /\ PollOK(poll)
  BY DEF IInv, TypeOK
<1>2. poll.phase = "reading" /\ running' = running
      /\ Continues(Noticed(selector, p, answer.status), stab, left, found)
  BY DEF ReadPlayer
<1>3. poll.todo \in SUBSET Players /\ poll.todo # {} /\ poll.found \in Seq(Records)
  BY <1>1, <1>2 DEF PollOK
<1>4. p \in Players
  BY <1>3, FirstToPollIsLeft
<1> HIDE DEF p
<1>5. known \in Infos \cup {Empty}
  BY AnsweredInfo
<1> HIDE DEF known
<1>6. kept => record \in Records
  BY <1>4, <1>5 DEF Records
<1> HIDE DEF record
<1>7. found \in Seq(Records)
  BY <1>3, <1>6
<1> HIDE DEF found, kept
<1>8. SelectorOK(Noticed(selector, p, answer.status))
  BY <1>1, <1>4, SelectorKeepsItsType
<1>9. /\ SelectorOK(selector') /\ PollOK(poll') /\ missed' \in BOOLEAN
      /\ poll'.phase = "sampling" => selector'.current # None
      /\ \/ stab' = stab /\ last' = last
         \/ Forgotten
  BY <1>1, <1>2, <1>3, <1>7, <1>8, ContinuesIsUnheard
<1>10. StabOK(stab') /\ (Unheard \/ Forgotten)
  <2>1. StabOK(Unsettled)
    BY DEF Unsettled, StabOK
  <2>2. QED BY <1>1, <1>9, <2>1 DEF Unheard, Forgotten
<1>11. running' \in BOOLEAN
  BY <1>2 DEF IInv, TypeOK
<1>12. QED BY <1>9, <1>10, <1>11, UnheardIsFine

\* The heart of it: a reading of the player that is followed is a sighting, a
\* commit to the track that was sighted, a sample of the track committed, or is
\* not heard of.
LEMMA ObservedIsFine ==
    ASSUME StabOK(stab), SampleOK(last), CandidateWasSeen, NEW p \in Players, NEW info \in Infos,
           ~(info.title = None /\ info.artist = None),
           stab' = Observe(stab, p, info),
           last' = [key |-> <<p, info>>, transitioning |-> stab'.transitioning]
    PROVE  /\ StabOK(stab') /\ SampleOK(last') /\ CandidateWasSeen'
           /\ [Promised!Next]_<<stab.committed, last>>
<1> DEFINE key == <<p, info>>
<1>1. key \in Keys /\ key # None
  BY NoneAssumption DEF Keys
<1>2. last' = [key |-> key, transitioning |-> stab'.transitioning]
  OBVIOUS
<1> HIDE DEF key
<1>3. CASE key # stab.cand
  <2>1. stab' = [stab EXCEPT !.cand = key, !.age = 0, !.transitioning = (key # stab.committed)]
    BY <1>3 DEF Observe, key
  <2>2. /\ stab'.cand = key /\ stab'.committed = stab.committed /\ stab'.age = 0
        /\ stab'.transitioning = (key # stab.committed)
        /\ DOMAIN stab' = DOMAIN stab
    BY <2>1 DEF StabOK
  <2>3. (key # stab.committed) \in BOOLEAN
    BY Zenon
  <2>4. StabOK(stab')
    <3>1. \A b \in BOOLEAN :
             StabOK([stab EXCEPT !.cand = key, !.age = 0, !.transitioning = b])
      BY <1>1 DEF StabOK
    <3>2. QED BY <2>1, <2>3, <3>1, Zenon
  <2>5. SampleOK(last') /\ CandidateWasSeen'
    BY <1>1, <1>2, <2>2, <2>3 DEF SampleOK, CandidateWasSeen
  <2>6. CASE key = stab.committed
    <3>1. Promised!Settled
      BY <1>1, <1>2, <2>2, <2>6 DEF Promised!Settled
    <3>2. QED BY <2>4, <2>5, <3>1 DEF Promised!Next
  <2>7. CASE key # stab.committed
    <3>1. Promised!Sight(key)
      BY <1>1, <1>2, <2>2, <2>7 DEF Promised!Sight
    <3>2. QED BY <1>1, <2>4, <2>5, <3>1 DEF Promised!Next
  <2>8. QED BY <2>6, <2>7
<1>4. CASE key = stab.cand /\ stab' = stab
  <2>1. last' = last
    BY <1>1, <1>2, <1>4 DEF CandidateWasSeen
  <2>2. QED BY <1>4, <2>1 DEF CandidateWasSeen
<1>5. CASE key = stab.cand /\ stab' = [stab EXCEPT !.committed = key, !.transitioning = FALSE]
  <2>1. /\ stab'.cand = key /\ stab'.committed = key /\ stab'.transitioning = FALSE
        /\ StabOK(stab')
    BY <1>1, <1>5 DEF StabOK
  <2>2. last' = [key |-> key, transitioning |-> FALSE]
    BY <1>2, <2>1
  <2>3. SampleOK(last') /\ CandidateWasSeen'
    <3>1. SampleOK(last')
      <4>1. \A k \in Keys, b \in BOOLEAN : SampleOK([key |-> k, transitioning |-> b])
        BY DEF SampleOK
      <4>2. QED BY <1>1, <2>2, <4>1, Zenon
    <3>2. stab'.transitioning = (stab'.cand # stab'.committed)
      BY <2>1, Zenon
    <3>3. last' = [key |-> stab'.cand, transitioning |-> stab'.transitioning]
      BY <2>1, <2>2
    <3>4. QED BY <3>1, <3>2, <3>3, Zenon DEF CandidateWasSeen
  <2>4. CASE key = stab.committed
    <3>1. Promised!Settled
      BY <1>1, <2>1, <2>2, <2>4 DEF Promised!Settled
    <3>2. QED BY <2>1, <2>3, <3>1 DEF Promised!Next
  <2>5. CASE key # stab.committed
    <3>1. last = [key |-> key, transitioning |-> TRUE]
      BY <1>1, <1>5, <2>5 DEF CandidateWasSeen
    <3>2. Promised!Commit
      <4>1. last.transitioning /\ last.key = key
        BY <3>1
      <4>2. [last EXCEPT !.transitioning = FALSE] = [key |-> key, transitioning |-> FALSE]
        <5>1. \A k, b, c : [[key |-> k, transitioning |-> b] EXCEPT !.transitioning = c]
                             = [key |-> k, transitioning |-> c]
          OBVIOUS
        <5>2. QED BY <3>1, <5>1, Zenon
      <4>3. QED BY <2>1, <2>2, <4>1, <4>2 DEF Promised!Commit
    <3>3. QED BY <2>1, <2>3, <3>2 DEF Promised!Next
  <2>6. QED BY <2>4, <2>5
<1>6. QED BY <1>3, <1>4, <1>5 DEF Observe, key

LEMMA SampleIsFine ==
    ASSUME IInv, NEW answer \in Answers, Sample(answer)
    PROVE  IInv' /\ [Promised!Next]_<<stab.committed, last>>
<1> DEFINE info == answer.info
<1>1. /\ SelectorOK(selector) /\ StabOK(stab) /\ missed \in BOOLEAN /\ running' \in BOOLEAN
      /\ SampleOK(last) /\ CandidateWasSeen
  BY DEF IInv, TypeOK, Sample
<1>2. PollOK(poll') /\ poll'.phase = "idle"
  BY DEF Sample, NoPoll, PollOK
<1>3. selector.current \in Players
  BY <1>1 DEF IInv, TypeOK, Sample, SelectorOK
<1>4. CASE answer.status \notin Followable
  <2>1. NobodyFollowed(selector, stab)
    BY <1>4 DEF Sample
  <2>2. /\ SelectorOK(selector') /\ missed' \in BOOLEAN
        /\ \/ stab' = stab /\ last' = last
           \/ Forgotten
    BY <1>1, <2>1, NobodyFollowedIsUnheard
  <2>3. StabOK(stab') /\ (Unheard \/ Forgotten)
    <3>1. StabOK(Unsettled)
      BY DEF Unsettled, StabOK
    <3>2. QED BY <1>1, <2>2, <3>1 DEF Unheard, Forgotten
  <2>4. QED BY <1>1, <1>2, <2>2, <2>3, UnheardIsFine
<1>5. CASE answer.status \in Followable /\ info = None
  <2>1. UNCHANGED <<selector, stab, missed, last>>
    BY <1>5 DEF Sample
  <2>2. QED BY <1>1, <1>2, <2>1, UnheardIsFine DEF Unheard
<1>6. CASE answer.status \in Followable /\ info # None
  <2>1. /\ stab' = Observe(stab, selector.current, info)
        /\ last' = IF info.title = None /\ info.artist = None THEN last
                   ELSE [key |-> <<selector.current, info>>,
                         transitioning |-> stab'.transitioning]
        /\ UNCHANGED <<selector, missed>>
    BY <1>6 DEF Sample
  <2>2. info \in Infos
    BY <1>6, AnsweredInfo
  <2> HIDE DEF info
  <2>3. CASE info.title = None /\ info.artist = None
    <3>1. stab' = [stab EXCEPT !.cand = None, !.transitioning = (stab.committed # None)]
      BY <2>1, <2>3 DEF Observe
    <3>2. (stab.committed # None) \in BOOLEAN
      BY Zenon
    <3>3. StabOK(stab') /\ stab'.cand = None /\ stab'.committed = stab.committed
      BY <1>1, <3>1, <3>2 DEF StabOK
    <3>4. last' = last
      BY <2>1, <2>3
    <3>5. QED BY <1>1, <1>2, <2>1, <3>3, <3>4 DEF IInv, TypeOK, CandidateWasSeen
  <2>4. CASE ~(info.title = None /\ info.artist = None)
    <3>1. last' = [key |-> <<selector.current, info>>, transitioning |-> stab'.transitioning]
      BY <2>1, <2>4
    <3>2. /\ StabOK(stab') /\ SampleOK(last') /\ CandidateWasSeen'
          /\ [Promised!Next]_<<stab.committed, last>>
      BY <1>1, <1>3, <2>1, <2>2, <2>4, <3>1, ObservedIsFine
    <3>3. QED BY <1>1, <1>2, <2>1, <3>2 DEF IInv, TypeOK
  <2>5. QED BY <2>3, <2>4
<1>7. QED BY <1>4, <1>5, <1>6

LEMMA SettingsAreFine ==
    ASSUME IInv, Stop \/ Start \/ \E lock \in Locks : SetPlayerLock(lock)
    PROVE  IInv' /\ [Promised!Next]_<<stab.committed, last>>
<1>1. SelectorOK(selector) /\ StabOK(stab) /\ PollOK(poll) /\ missed \in BOOLEAN
      /\ running \in BOOLEAN
  BY DEF IInv, TypeOK
<1>2. CASE Stop
  <2>1. PollOK(poll') /\ poll'.phase = "idle" /\ running' = FALSE /\ missed' = FALSE
        /\ selector' = NoSelection(selector.lock) /\ Forgotten
    BY <1>2 DEF Stop, NoPoll, PollOK, Forgets, Forgotten
  <2>2. SelectorOK(selector')
    BY <1>1, <2>1, SelectorKeepsItsType
  <2>3. StabOK(stab')
    BY <2>1 DEF Forgotten, Unsettled, StabOK
  <2>4. QED BY <2>1, <2>2, <2>3, UnheardIsFine
<1>3. CASE Start
  <2>1. running' = TRUE /\ UNCHANGED <<selector, stab, poll, missed, last>>
    BY <1>3 DEF Start
  <2>2. QED BY <1>1, <2>1, UnheardIsFine DEF Unheard, IInv, TypeOK
<1>4. ASSUME NEW lock \in Locks, SetPlayerLock(lock)
      PROVE  IInv' /\ [Promised!Next]_<<stab.committed, last>>
  <2>1. selector' = [selector EXCEPT !.lock = lock]
        /\ UNCHANGED <<running, stab, poll, missed, last>>
    BY <1>4 DEF SetPlayerLock
  <2>2. SelectorOK(selector') /\ selector'.current = selector.current
    <3>1. lock \in Players \cup {None}
      BY TimesAssumption
    <3>2. QED BY <1>1, <2>1, <3>1, SelectorKeepsItsType DEF SelectorOK
  <2>3. poll'.phase = "sampling" => selector'.current # None
    BY <2>1, <2>2 DEF IInv, TypeOK
  <2>4. QED BY <1>1, <2>1, <2>2, <2>3, UnheardIsFine DEF Unheard
<1>5. QED BY <1>2, <1>3, <1>4

\* Every step keeps the invariant and is one of the abstract specification.
LEMMA StepsAreFine ==
    IInv /\ [Next]_vars => IInv' /\ [Promised!Next]_<<stab.committed, last>>
<1> SUFFICES ASSUME IInv, [Next]_vars
             PROVE  IInv' /\ [Promised!Next]_<<stab.committed, last>>
  OBVIOUS
<1>1. ASSUME NEW e \in 0 .. LongSettle, NEW names \in SUBSET Players, PollStarts(e, names)
      PROVE  IInv' /\ [Promised!Next]_<<stab.committed, last>>
  <2>1. e \in Nat
    BY TimesAssumption
  <2>2. QED BY <1>1, <2>1, PollStartsIsFine
<1>2. ASSUME NEW answer \in Answers, ReadPlayer(answer) \/ Sample(answer)
      PROVE  IInv' /\ [Promised!Next]_<<stab.committed, last>>
  BY <1>2, ReadPlayerIsFine, SampleIsFine
<1>3. CASE UNCHANGED vars
  BY <1>3 DEF vars, IInv, TypeOK, CandidateWasSeen
<1>4. ASSUME Read PROVE IInv' /\ [Promised!Next]_<<stab.committed, last>>
  <2>1. PICK p \in Players : \E answer \in AnswersOf(p) : ReadPlayer(answer) \/ Sample(answer)
    BY <1>4 DEF Read
  <2> QED BY <1>2, <2>1 DEF Answers
<1>5. QED BY <1>1, <1>3, <1>4, SettingsAreFine DEF Next, Polls

-------------------------------------------------------------------------------
\* The inductive invariant holds in every reachable state.
THEOREM Invariance == Spec => []IInv
<1>1. Init => IInv
  BY InitIsGood
<1>2. IInv /\ [Next]_vars => IInv'
  BY StepsAreFine
<1>3. QED BY <1>1, <1>2, PTL DEF Spec

\* The coordinator's state always has its type: a poll that samples follows a
\* player, and one that reads has a player left to read.
THEOREM TypeCorrect == Spec => []TypeOK
<1>1. IInv => TypeOK
  BY DEF IInv
<1>2. QED BY <1>1, Invariance, PTL

\* The lyric workflow hears of tracks as StableTrack says: no commit without a
\* sighting by an earlier poll, none after another track was seen in between, none
\* twice, no settled sample of a track that is not committed.  This holds for any
\* number of players, whatever they answer and whoever is pinned.
THEOREM Implements == Spec => TracksAreStable
<1>1. Init => Promised!Init
  BY InitIsGood
<1>2. IInv /\ [Next]_vars => [Promised!Next]_<<stab.committed, last>>
  BY StepsAreFine
<1>3. QED BY <1>1, <1>2, Invariance, PTL DEF Spec, TracksAreStable, Promised!Spec
===============================================================================
