---------------------------- MODULE WebPlayerProofs ----------------------------
(***************************************************************************)
(* Proofs about WebPlayer, for any audios, queues, waveforms and URLs: the *)
(* current track is the queue's, carries only its own waveform and is what *)
(* the element has loaded; a late waveform leaves the sound alone; a       *)
(* canvas lies still unless its track plays.                               *)
(***************************************************************************)
EXTENDS WebPlayer, WaveformProofs, SequenceTheorems

StoreType == [track: Track \cup {None}, queue: Seq(Track), index: Nat,
              playing: BOOLEAN, error: BOOLEAN, time: Time]

Own(t) == t.wave \in {None, t.id}

\* A store whose current track, if any, is the one at its place in the queue.  Also
\* without a track the place is one of the queue's: next() goes there.
Good(p) ==
    /\ p \in StoreType
    /\ p.queue # <<>> => p.index \in DOMAIN p.queue
    /\ p.track # None => p.index \in DOMAIN p.queue /\ p.queue[p.index] = p.track
    /\ p.track # None => Own(p.track)
    /\ \A i \in DOMAIN p.queue : Own(p.queue[i])

\* Without a source the element is as empty as it was made: play() is only called when
\* there is one, so no promise is ever open that names none.
Sourced(m) == m.src = None => m.state = "empty" /\ m.paused /\ ~m.pending

\* An element that has loaded the track of store p.
Fits(m, p) ==
    m # None =>
        /\ m \in Element
        /\ p.track # None
        /\ m.src = (IF p.track.stream = 0 THEN None ELSE SourceOf(p.track))
        /\ ~m.paused => p.playing
        /\ Sourced(m)

\* There is an element exactly while a page with the player shows a track.
Present(m, p, pg) == InShell(pg) /\ p.track # None => m # None

\* The canvas of page pg under store p.
Still(c, p, pg) ==
    c # None =>
        /\ c = [width |-> c.width, bars |-> c.bars, energy |-> c.energy, head |-> c.head]
        /\ ~Live(p, pg) => /\ c.energy = 0
                           /\ ~IsCurrent(p, pg) => c.head = 0

AnswersType ==
    /\ page \in Page
    /\ urls \in [Audio -> Nat]
    /\ waves \in [Audio -> BOOLEAN]

PlayerInv ==
    /\ AnswersType
    /\ Good(player)
    /\ Fits(media, player)
    /\ Present(media, player, page)
    /\ Still(canvas, player, page)

-----------------------------------------------------------------------------
(* The element                                                             *)

LEMMA ElementSteps ==
    ASSUME NEW m \in Element
    PROVE  /\ NewElement \in Element /\ Sourced(NewElement)
           /\ Sourced(m) => Sourced(Paused(m))
           /\ Played(m) \in Element /\ Played(m).src = m.src
           /\ Paused(m) \in Element /\ Paused(m).src = m.src /\ Paused(m).paused
           /\ \A src \in Source \cup {None} :
                /\ Loaded(m, src) \in Element
                /\ Loaded(m, src).src = src
                /\ Loaded(m, src).paused <=> m.paused \/ m.src # None
                /\ Sourced(m) => Sourced(Loaded(m, src))
<1>0. 0 \in Time
  BY PlayerAssumption DEF Time
<1>1. NewElement \in Element /\ Sourced(NewElement)
  BY <1>0 DEF NewElement, Element, Sourced
<1>2. Played(m) \in Element /\ Played(m).src = m.src
  BY <1>0 DEF Played, Element
<1>3. /\ Paused(m) \in Element /\ Paused(m).src = m.src /\ Paused(m).paused
      /\ Sourced(m) => Sourced(Paused(m))
  BY DEF Paused, Element, Sourced
<1>4. ASSUME NEW src \in Source \cup {None}
      PROVE  /\ Loaded(m, src) \in Element
             /\ Loaded(m, src).src = src
             /\ Loaded(m, src).paused <=> m.paused \/ m.src # None
             /\ Sourced(m) => Sourced(Loaded(m, src))
  BY <1>0 DEF Loaded, Element, Sourced
<1> QED BY <1>1, <1>2, <1>3, <1>4

LEMMA SourceType ==
    ASSUME NEW t \in Track
    PROVE  (IF t.stream = 0 THEN None ELSE SourceOf(t)) \in Source \cup {None}
BY DEF Track, Source, SourceOf

\* A promise that is broken names a source.
LEMMA BrokenSource ==
    ASSUME NEW m, m # None => m \in Element /\ Sourced(m)
    PROVE  Broken(m) \subseteq Source
BY DEF Broken, Element, Sourced

\* The effects leave an element that fits the new store.
LEMMA EffectsFit ==
    ASSUME PlayerInv, NEW p, Good(p), NEW m, Fits(m, player), NEW pg
    PROVE  /\ Fits(Effects(p, m, pg).element, p)
           /\ Present(Effects(p, m, pg).element, p, pg)
           /\ Effects(p, m, pg).rejects \subseteq Source
<1>0. Broken(m) \subseteq Source
  BY BrokenSource DEF Fits
<1>1. CASE ~InShell(pg) \/ p.track = None
  <2>1. Effects(p, m, pg) = [element |-> None, rejects |-> Broken(m)]
    BY <1>1 DEF Effects
  <2> QED BY <1>0, <1>1, <2>1 DEF Fits, Present
<1>2. CASE InShell(pg) /\ p.track # None
  <2> DEFINE fresh == m = None
             m0 == IF fresh THEN NewElement ELSE m
             reload == fresh \/ NewSource(p)
             src == IF p.track.stream = 0 THEN None ELSE SourceOf(p.track)
             m1 == IF reload THEN Loaded(m0, src) ELSE m0
             again == (fresh \/ PlaysAgain(p)) /\ m1.src # None
             m2 == IF ~again THEN m1 ELSE IF p.playing THEN Played(m1) ELSE Paused(m1)
  <2>1. Effects(p, m, pg).element = m2
    BY <1>2 DEF Effects
  <2>2. /\ p.track \in Track /\ p.playing \in BOOLEAN
        /\ player.track \in Track \cup {None} /\ player.playing \in BOOLEAN
    BY <1>2 DEF Good, StoreType, PlayerInv
  <2>3. src \in Source \cup {None}
    BY <2>2, SourceType
  <2>4. /\ m0 \in Element
        /\ Sourced(m0)
    <3>1. CASE fresh
      <4>1. NewElement \in Element
        BY PlayerAssumption DEF NewElement, Element, Time
      <4> QED BY <3>1, <4>1 DEF NewElement, Sourced
    <3>2. CASE ~fresh
      BY <3>2 DEF Fits
    <3> QED BY <3>1, <3>2
  <2>5. /\ m1 \in Element
        /\ m1.src = src
        /\ Sourced(m1)
        /\ ~m1.paused => ~reload /\ player.playing
    <3>1. CASE reload
      <4> HIDE DEF m0, src
      <4>1. /\ m1 = Loaded(m0, src)
        BY <3>1
      <4>2. Loaded(m0, src).paused
        BY <2>3, <2>4, ElementSteps DEF Sourced
      <4> QED BY <2>3, <2>4, <4>1, <4>2, ElementSteps
    <3>2. CASE ~reload
      <4>1. m1 = m /\ m # None /\ ~NewSource(p)
        BY <3>2
      <4>2. player.track # None /\ SourceOf(p.track) = SourceOf(player.track)
        BY <4>1 DEF NewSource
      <4>3. p.track.stream = player.track.stream
        BY <4>2 DEF SourceOf
      <4> QED BY <3>2, <4>1, <4>2, <4>3 DEF Fits
    <3> QED BY <3>1, <3>2
  <2>6. /\ m2 \in Element
        /\ m2.src = src
        /\ ~m2.paused => p.playing
        /\ Sourced(m2)
    <3> HIDE DEF m1, src
    <3>1. CASE ~again
      <4>1. m2 = m1
        BY <3>1
      <4>2. ASSUME ~m1.paused
            PROVE  p.playing
        <5>1. m1.src # None /\ ~reload /\ player.playing
          BY <2>5, <4>2 DEF Sourced
        <5>2. ~fresh /\ ~PlaysAgain(p)
          BY <3>1, <5>1
        <5> QED BY <5>1, <5>2 DEF PlaysAgain
      <4> QED BY <2>5, <4>1, <4>2
    <3>2. CASE again /\ p.playing
      <4>1. m2 = Played(m1) /\ m1.src # None
        BY <3>2
      <4> QED BY <2>5, <3>2, <4>1, ElementSteps DEF Sourced
    <3>3. CASE again /\ ~p.playing
      <4>1. m2 = Paused(m1)
        BY <3>3
      <4> QED BY <2>5, <4>1, ElementSteps
    <3> QED BY <3>1, <3>2, <3>3
  <2>7. m2 # None
    BY <2>6, NoneAssumption
  <2>8. Effects(p, m, pg).rejects \subseteq Source
    <3>1. Effects(p, m, pg).rejects =
            (IF reload THEN Broken(m0) ELSE {})
              \cup (IF again /\ ~p.playing THEN Broken(m1) ELSE {})
              \cup (IF again /\ p.playing /\ m1.state = "failed" THEN {m1.src} ELSE {})
      BY <1>2 DEF Effects
    <3>2. Broken(m0) \subseteq Source /\ Broken(m1) \subseteq Source
      BY <2>4, <2>5, BrokenSource
    <3>3. again => m1.src \in Source
      <4> HIDE DEF m1, src
      <4> QED BY <2>3, <2>5
    <3> HIDE DEF m1, reload, m0, again
    <3> QED BY <3>1, <3>2, <3>3
  <2> HIDE DEF m2
  <2> QED BY <1>2, <2>1, <2>6, <2>7, <2>8 DEF Fits, Present
<1> QED BY <1>1, <1>2

-----------------------------------------------------------------------------
(* The store                                                               *)

LEMMA SnapshotOwn ==
    ASSUME PlayerInv, NEW a \in Audio
    PROVE  Snapshot(a) \in Track /\ Own(Snapshot(a)) /\ Snapshot(a).id = a
BY DEF PlayerInv, AnswersType, Snapshot, Track, Own

\* A queue of snapshots: those with the same id are the same.
LEMMA PlayTrackGood ==
    ASSUME PlayerInv, NEW list \in Seq(Audio), NEW i \in DOMAIN list
    PROVE  Good(PlayTrack(Snapshot(list[i]), [k \in DOMAIN list |-> Snapshot(list[k])]))
<1> DEFINE queue == [k \in DOMAIN list |-> Snapshot(list[k])]
           track == Snapshot(list[i])
           places == {k \in DOMAIN queue : queue[k].id = track.id}
           p == PlayTrack(track, queue)
<1>1. DOMAIN list = 1..Len(list) /\ Len(list) \in Nat /\ \A k \in DOMAIN list : list[k] \in Audio
  OBVIOUS
<1>2. \A k \in DOMAIN list : Snapshot(list[k]) \in Track /\ Own(Snapshot(list[k]))
                              /\ Snapshot(list[k]).id = list[k]
  BY <1>1, SnapshotOwn
<1>3. queue \in Seq(Track)
  BY <1>1, <1>2, SeqDef
<1>4. i \in places /\ places \subseteq 1..Len(list)
  BY <1>1
<1>5. Min(places) \in places
  <2>1. places \in SUBSET Nat /\ places # {}
    BY <1>1, <1>4
  <2> HIDE DEF places
  <2> QED BY <2>1, MinIsLeast
<1>6. queue[Min(places)] = track
  <2>1. Min(places) \in DOMAIN list /\ Snapshot(list[Min(places)]).id = Snapshot(list[i]).id
    BY <1>5
  <2>2. list[Min(places)] = list[i]
    BY <1>2, <2>1
  <2> QED BY <2>1, <2>2
<1>7. p = [player EXCEPT !.track = track, !.queue = queue, !.playing = TRUE,
                         !.error = FALSE, !.index = Min(places)]
  BY <1>4 DEF PlayTrack
<1>8. player \in StoreType
  BY DEF PlayerInv, Good
<1>9. /\ p \in StoreType
      /\ p.track = track /\ p.queue = queue /\ p.index = Min(places)
  <2> HIDE DEF queue, places, track
  <2>1. track \in Track /\ Min(places) \in Nat
    BY <1>1, <1>2, <1>4, <1>5 DEF track
  <2> QED BY <1>3, <1>7, <1>8, <2>1 DEF StoreType
<1>10. p.index \in DOMAIN p.queue /\ p.queue[p.index] = p.track
  BY <1>4, <1>5, <1>6, <1>9
<1>11. Own(p.track) /\ \A k \in DOMAIN p.queue : Own(p.queue[k])
  BY <1>2, <1>9
<1> QED BY <1>9, <1>10, <1>11 DEF Good

LEMMA HydrateGood ==
    ASSUME NEW p, Good(p), NEW a \in Audio
    PROVE  /\ Good(HydrateTrack(p, a))
           /\ HydrateTrack(p, a).playing = p.playing
           /\ HydrateTrack(p, a).track = None <=> p.track = None
           /\ p.track # None => /\ SourceOf(HydrateTrack(p, a).track) = SourceOf(p.track)
                                /\ HydrateTrack(p, a).track.id = p.track.id
<1>1. CASE p.track = None \/ p.track.id # a
  BY <1>1 DEF HydrateTrack
<1>2. CASE p.track # None /\ p.track.id = a
  <2> DEFINE t == [p.track EXCEPT !.wave = a]
             queue == [i \in DOMAIN p.queue |-> IF p.queue[i].id = a THEN t ELSE p.queue[i]]
  <2>1. /\ p \in StoreType /\ p.track \in Track /\ p.queue \in Seq(Track)
        /\ DOMAIN p.queue = 1..Len(p.queue) /\ Len(p.queue) \in Nat
        /\ \A i \in DOMAIN p.queue : p.queue[i] \in Track
    BY <1>2 DEF Good, StoreType
  <2>2. t \in Track /\ Own(t) /\ t.id = p.track.id /\ SourceOf(t) = SourceOf(p.track)
    BY <1>2, <2>1 DEF Track, Own, SourceOf
  <2>3. HydrateTrack(p, a) = [p EXCEPT !.track = t, !.queue = queue]
    BY <1>2, <2>1 DEF HydrateTrack, StoreType
  <2> HIDE DEF t
  <2>4. queue \in Seq(Track) /\ DOMAIN queue = DOMAIN p.queue
    BY <2>1, <2>2, SeqDef
  <2>5. /\ HydrateTrack(p, a) \in StoreType
        /\ HydrateTrack(p, a).track = t /\ HydrateTrack(p, a).queue = queue
        /\ HydrateTrack(p, a).index = p.index
        /\ HydrateTrack(p, a).playing = p.playing
    <3> HIDE DEF queue
    <3> QED BY <2>1, <2>2, <2>3, <2>4 DEF StoreType
  <2>6. p.index \in DOMAIN p.queue /\ p.queue[p.index] = p.track
    BY <1>2 DEF Good
  <2>7. queue[p.index] = t
    BY <1>2, <2>6
  <2>8. \A i \in DOMAIN queue : Own(queue[i])
    BY <2>2 DEF Good
  <2>9. t # None
    BY <1>2, <2>1, <2>2, <2>6, NoneAssumption
  <2> QED BY <1>2, <2>2, <2>4, <2>5, <2>6, <2>7, <2>8, <2>9 DEF Good
<1> QED BY <1>1, <1>2

LEMMA AtGood ==
    ASSUME NEW p, Good(p), NEW i \in DOMAIN p.queue
    PROVE  Good(At(p, i))
<1>1. /\ p \in StoreType /\ p.queue \in Seq(Track)
      /\ i \in Nat /\ p.queue[i] \in Track /\ Own(p.queue[i])
  BY DEF Good, StoreType
<1>2. 0 \in Time
  BY PlayerAssumption DEF Time
<1>3. /\ At(p, i) \in StoreType
      /\ At(p, i).queue = p.queue /\ At(p, i).index = i /\ At(p, i).track = p.queue[i]
  BY <1>1, <1>2 DEF At, StoreType
<1> QED BY <1>1, <1>3 DEF Good

LEMMA AfterNextGood ==
    ASSUME NEW p, Good(p), NEW repeatAll \in BOOLEAN
    PROVE  Good(AfterNext(p, repeatAll))
<1>1. CASE p.queue = <<>>
  BY <1>1 DEF AfterNext
<1>2. CASE p.queue # <<>>
  <2>1. /\ p.queue \in Seq(Track) /\ DOMAIN p.queue = 1..Len(p.queue) /\ Len(p.queue) \in Nat
        /\ p.index \in 1..Len(p.queue)
    BY <1>2 DEF Good, StoreType
  <2>2. CASE p.index < Len(p.queue)
    <3>1. p.index + 1 \in DOMAIN p.queue
      BY <2>1, <2>2
    <3> QED BY <1>2, <2>2, <3>1, AtGood DEF AfterNext
  <2>3. CASE ~(p.index < Len(p.queue))
    <3>1. 1 \in DOMAIN p.queue /\ p.index \in DOMAIN p.queue
      BY <2>1
    <3> QED BY <1>2, <2>3, <3>1, AtGood DEF AfterNext
  <2> QED BY <2>2, <2>3
<1> QED BY <1>1, <1>2

LEMMA SmallChanges ==
    ASSUME PlayerInv
    PROVE  /\ Good([player EXCEPT !.playing = ~@])
           /\ Good([player EXCEPT !.error = TRUE])
           /\ Good([player EXCEPT !.playing = FALSE, !.error = TRUE])
           /\ \A t \in Time : Good([player EXCEPT !.time = t])
BY DEF PlayerInv, Good, StoreType

\* Moving, breaking or pausing the element changes nothing of what it has loaded.
LEMMA MediaChanges ==
    ASSUME PlayerInv, media # None
    PROVE  /\ Fits(Paused(media), player)
           /\ media.state = "loading" =>
                Fits([media EXCEPT !.state = "ready", !.pending = FALSE], player)
           /\ media.state \in {"loading", "ready"} =>
                Fits([media EXCEPT !.state = "failed", !.pending = FALSE], player)
           /\ Fits([media EXCEPT !.paused = TRUE, !.ended = TRUE], player)
           /\ \A t \in Time : /\ Fits([media EXCEPT !.time = t], player)
                              /\ Fits([media EXCEPT !.time = t, !.ended = FALSE], player)
<1>1. /\ media \in Element
      /\ Fits(media, player)
  BY DEF PlayerInv, Fits
<1> QED BY <1>1 DEF Fits, Element, Paused, Sourced

-----------------------------------------------------------------------------
(* Committing a store                                                      *)

LEMMA CommitInv ==
    ASSUME PlayerInv, NEW p, Good(p), NEW m, Fits(m, player), NEW pg,
           Commit(p, m, pg), page' = pg
    PROVE  Good(player') /\ Fits(media', player') /\ Present(media', player', page')
<1>1. player' = p /\ media' = Effects(p, m, pg).element
  BY DEF Commit
<1> QED BY <1>1, EffectsFit

LEMMA RedrawnStill ==
    ASSUME NEW p, NEW pg, NEW q, NEW qg, Still(canvas, q, qg), canvas # None
    PROVE  Still(Redrawn(p, pg), p, pg)
<1>1. canvas = [width |-> canvas.width, bars |-> canvas.bars, energy |-> canvas.energy,
                head |-> canvas.head]
  BY DEF Still
<1>2. CASE Live(p, pg)
  BY <1>1, <1>2 DEF Redrawn, Still
<1>3. CASE ~Live(p, pg)
  <2> DEFINE c == Redrawn(p, pg)
  <2>1. c = [canvas EXCEPT !.energy = 0, !.head = IF IsCurrent(p, pg) THEN p.time ELSE 0]
    BY <1>3 DEF Redrawn
  <2>2. /\ c = [width |-> c.width, bars |-> c.bars, energy |-> c.energy, head |-> c.head]
        /\ c.energy = 0
        /\ c.head = IF IsCurrent(p, pg) THEN p.time ELSE 0
    BY <1>1, <2>1
  <2> QED BY <2>2 DEF Still
<1> QED BY <1>2, <1>3

\* Either nothing the drawing effect depends on changed, or it ran.
LEMMA RenderedStill ==
    ASSUME PlayerInv, NEW p, player' = p, page' = page,
           canvas' = IF canvas = None \/ Depends(p, page) = Depends(player, page)
                       THEN canvas ELSE Redrawn(p, page)
    PROVE  Still(canvas', player', page')
<1>0. Still(canvas, player, page)
  BY DEF PlayerInv
<1>1. CASE canvas = None
  BY <1>1 DEF Still
<1>2. CASE canvas # None /\ Depends(p, page) = Depends(player, page)
  <2>1. IsCurrent(p, page) = IsCurrent(player, page) /\ p.playing = player.playing
    BY <1>2 DEF Depends
  <2>2. Live(p, page) <=> Live(player, page)
    BY <2>1 DEF Live
  <2> QED BY <1>0, <1>2, <2>1, <2>2 DEF Still
<1>3. CASE canvas # None /\ Depends(p, page) # Depends(player, page)
  BY <1>0, <1>3, RedrawnStill
<1> QED BY <1>1, <1>2, <1>3

LEMMA UpdateInv ==
    ASSUME PlayerInv, NEW p, Good(p), NEW m, Fits(m, player), Update(p, m)
    PROVE  PlayerInv'
<1>1. /\ Commit(p, m, page)
      /\ UNCHANGED <<page, urls, waves>>
  BY DEF Update
<1>2. Good(player') /\ Fits(media', player') /\ Present(media', player', page')
  BY <1>1, CommitInv
<1>3. Still(canvas', player', page')
  BY <1>1, RenderedStill DEF Update, Commit
<1> QED BY <1>1, <1>2, <1>3 DEF PlayerInv, AnswersType

LEMMA MountedStill ==
    ASSUME NEW p, NEW a, Mounted(p, a)
    PROVE  Still(canvas', p, a)
<1>1. PICK width, bars :
        canvas' = [width |-> width, bars |-> bars, energy |-> 0,
                   head |-> IF IsCurrent(p, a) /\ ~p.playing THEN p.time ELSE 0]
  BY DEF Mounted
<1> QED BY <1>1 DEF Still

-----------------------------------------------------------------------------
(* The steps                                                               *)

LEMMA PlayerInvInit == PlayerInit => PlayerInv
<1> SUFFICES ASSUME PlayerInit
             PROVE  PlayerInv
  OBVIOUS
<1>1. 0 \in Time /\ <<>> \in Seq(Track)
  BY PlayerAssumption DEF Time
<1>2. player \in StoreType
  BY <1>1 DEF PlayerInit, NoTrack, StoreType
<1> QED BY <1>2 DEF PlayerInit, NoTrack, PlayerInv, AnswersType, Good, Fits, Present, Still, Page

\* The steps that commit a store on the page that is there.
StoreStep ==
    \/ PlayPage
    \/ \E list \in Lists : \E i \in DOMAIN list : PlayListed(list, i)
    \/ Toggle \/ Next \/ Previous
    \/ \E seconds \in Time \cup {MediaTime - 1, MediaTime + 1} : Seek(seconds)
    \/ MediaReady \/ TimeUpdate \/ MediaEnds

\* Each of them commits a good store, with an element that still fits the old one.
LEMMA StoreStepUpdates ==
    ASSUME PlayerInv, StoreStep
    PROVE  \E p, m : Good(p) /\ Fits(m, player) /\ Update(p, m)
<1> DEFINE Updates == \E p, m : Good(p) /\ Fits(m, player) /\ Update(p, m)
<1>t. /\ page \in Page
      /\ urls \in [Audio -> Nat]
      /\ waves \in [Audio -> BOOLEAN]
      /\ player \in StoreType /\ Good(player)
      /\ Fits(media, player)
      /\ Still(canvas, player, page)
  BY DEF PlayerInv, AnswersType, Good
<1>z. 0 \in Time /\ player.time \in Time /\ MaxTime \in Nat
      /\ (media # None => media.time \in Time)
  BY <1>t, PlayerAssumption DEF Time, StoreType, Fits, Element
<1>1. CASE PlayPage
  <2>1. PICK a \in Audio : a = page
    BY <1>1 DEF PlayPage
  <2>2. PICK p : p = PlayTrack(Snapshot(a), <<Snapshot(a)>>)
    OBVIOUS
  <2>3. Good(p)
    <3> DEFINE list == <<a>>
    <3>1. list \in Seq(Audio) /\ DOMAIN list = {1} /\ list[1] = a
      OBVIOUS
    <3>2. [k \in DOMAIN list |-> Snapshot(list[k])] = <<Snapshot(a)>>
      BY <3>1
    <3> HIDE DEF list
    <3> QED BY <2>2, <3>1, <3>2, PlayTrackGood
  <2>4. PICK m : m = media
    OBVIOUS
  <2>5. Update(p, m)
    BY <1>1, <2>1, <2>2, <2>4 DEF PlayPage
  <2> QED BY <1>t, <2>3, <2>4, <2>5
<1>2. ASSUME NEW list \in Lists, NEW i \in DOMAIN list, PlayListed(list, i)
      PROVE  Updates
  <2>1. list \in Seq(Audio)
    BY PlayerAssumption
  <2>2. PICK p : p = PlayTrack(Snapshot(list[i]), [k \in DOMAIN list |-> Snapshot(list[k])])
    OBVIOUS
  <2>3. Good(p)
    BY <2>1, <2>2, PlayTrackGood
  <2>4. PICK m : m = media
    OBVIOUS
  <2>5. Update(p, m)
    BY <1>2, <2>2, <2>4 DEF PlayListed
  <2> QED BY <1>t, <2>3, <2>4, <2>5
<1>3. CASE Toggle
  <2>1. PICK p, m : p = [player EXCEPT !.playing = ~@] /\ m = media
    OBVIOUS
  <2>2. Good(p) /\ Update(p, m)
    BY <1>3, <2>1, SmallChanges DEF Toggle
  <2> QED BY <1>t, <2>1, <2>2
<1>4. CASE Next
  <2>1. PICK repeatAll \in BOOLEAN : Update(AfterNext(player, repeatAll), media)
    BY <1>4 DEF Next
  <2>2. PICK p, m : p = AfterNext(player, repeatAll) /\ m = media
    OBVIOUS
  <2>3. Good(p) /\ Update(p, m)
    BY <1>t, <2>1, <2>2, AfterNextGood
  <2> QED BY <1>t, <2>2, <2>3
<1>5. CASE Previous
  <2>1. media # None /\ player.track # None
    BY <1>5, <1>t DEF Previous, Controllable, Fits
  <2>2. CASE player.time > RestartAfter
    <3>1. PICK p, m : /\ p = [player EXCEPT !.time = 0]
                      /\ m = [media EXCEPT !.time = 0, !.ended = FALSE]
      OBVIOUS
    <3>2. Good(p) /\ Fits(m, player) /\ Update(p, m)
      BY <1>5, <1>z, <2>1, <2>2, <3>1, SmallChanges, MediaChanges DEF Previous
    <3> QED BY <3>2
  <2>3. CASE ~(player.time > RestartAfter)
    <3>1. /\ player.queue \in Seq(Track)
          /\ player.index \in DOMAIN player.queue
      BY <1>t, <2>1 DEF Good, StoreType
    <3>2. PICK n \in Nat \ {0} : n = player.index
      BY <3>1
    <3>3. Max({1, n - 1}) \in 1..n
      BY DEF Max
    <3>4. Max({1, player.index - 1}) \in DOMAIN player.queue
      BY <3>1, <3>2, <3>3
    <3>5. PICK p, m : p = At(player, Max({1, player.index - 1})) /\ m = media
      OBVIOUS
    <3>6. Good(p) /\ Update(p, m)
      BY <1>5, <1>t, <2>3, <3>4, <3>5, AtGood DEF Previous
    <3> QED BY <1>t, <3>5, <3>6
  <2> QED BY <2>2, <2>3
<1>6. ASSUME NEW seconds \in Time \cup {MediaTime - 1, MediaTime + 1}, Seek(seconds)
      PROVE  Updates
  <2>1. MediaTime \in Time
    BY <1>z DEF MediaTime
  <2>2. seconds \in Int
    BY <2>1, <1>z DEF Time
  <2>3. SeekTime(seconds) \in Time
    BY <1>z, <2>2 DEF SeekTime, Clamp, Time
  <2>4. media # None
    BY <1>6 DEF Seek
  <2>5. PICK p, m : /\ p = [player EXCEPT !.time = SeekTime(seconds)]
                    /\ m = [media EXCEPT !.time = SeekTime(seconds), !.ended = FALSE]
    OBVIOUS
  <2>6. Good(p) /\ Update(p, m)
    BY <1>6, <2>3, <2>5, SmallChanges DEF Seek
  <2>7. Fits(m, player)
    BY <2>3, <2>4, <2>5, MediaChanges
  <2> QED BY <2>6, <2>7
<1>7. CASE MediaReady
  <2>1. PICK p, m : /\ p = [player EXCEPT !.time = 0]
                    /\ m = [media EXCEPT !.state = "ready", !.pending = FALSE]
    OBVIOUS
  <2>2. Good(p) /\ Fits(m, player) /\ Update(p, m)
    BY <1>7, <1>z, <2>1, SmallChanges, MediaChanges DEF MediaReady
  <2> QED BY <2>2
<1>8. CASE TimeUpdate
  <2>1. PICK t \in Time : t = media.time
    BY <1>8, <1>z DEF TimeUpdate
  <2>2. PICK p, m : p = [player EXCEPT !.time = t] /\ m = media
    OBVIOUS
  <2>3. Good(p) /\ Update(p, m)
    BY <1>8, <2>1, <2>2, SmallChanges DEF TimeUpdate
  <2> QED BY <1>t, <2>2, <2>3
<1>9. CASE MediaEnds
  <2>1. PICK repeatAll \in BOOLEAN :
          Update(AfterNext(player, repeatAll), [media EXCEPT !.paused = TRUE, !.ended = TRUE])
    BY <1>9 DEF MediaEnds
  <2>2. PICK p, m : /\ p = AfterNext(player, repeatAll)
                    /\ m = [media EXCEPT !.paused = TRUE, !.ended = TRUE]
    OBVIOUS
  <2>3. Good(p) /\ Fits(m, player) /\ Update(p, m)
    BY <1>t, <1>9, <2>1, <2>2, AfterNextGood, MediaChanges DEF MediaEnds, Sounding
  <2> QED BY <2>3
<1> QED
  BY <1>1, <1>2, <1>3, <1>4, <1>5, <1>6, <1>7, <1>8, <1>9 DEF StoreStep

LEMMA PlayerInvNext == PlayerInv /\ [PlayerNext]_playerVars => PlayerInv'
<1> SUFFICES ASSUME PlayerInv, [PlayerNext]_playerVars
             PROVE  PlayerInv'
  OBVIOUS
<1>t. /\ page \in Page
      /\ urls \in [Audio -> Nat]
      /\ waves \in [Audio -> BOOLEAN]
      /\ player \in StoreType /\ Good(player)
      /\ Fits(media, player)
      /\ Still(canvas, player, page)
  BY DEF PlayerInv, AnswersType, Good
<1>z. 0 \in Time /\ player.time \in Time /\ MaxTime \in Nat
      /\ (media # None => media.time \in Time)
  BY <1>t, PlayerAssumption DEF Time, StoreType, Fits, Element
<1>1. ASSUME NEW pg \in Page, Visit(pg)
      PROVE  PlayerInv'
  <2>1. PICK p : p = IF pg \in Audio /\ waves[pg] THEN HydrateTrack(player, pg) ELSE player
    OBVIOUS
  <2>2. Good(p)
    BY <1>t, <2>1, HydrateGood
  <2>3. PICK m : m = media
    OBVIOUS
  <2>4. /\ Commit(p, m, pg) /\ page' = pg
        /\ (IF pg \in Audio /\ waves[pg] THEN Mounted(p, pg) ELSE canvas' = None)
        /\ UNCHANGED <<urls, waves>>
    BY <1>1, <2>1, <2>3 DEF Visit
  <2>5. Good(player') /\ Fits(media', player') /\ Present(media', player', page')
    BY <1>t, <2>2, <2>3, <2>4, CommitInv
  <2>6. Still(canvas', player', page')
    <3>1. player' = p
      BY <2>4 DEF Commit
    <3>2. CASE pg \in Audio /\ waves[pg]
      BY <2>4, <3>1, <3>2, MountedStill
    <3>3. CASE ~(pg \in Audio /\ waves[pg])
      BY <2>4, <3>3 DEF Still
    <3> QED BY <3>2, <3>3
  <2> QED BY <1>t, <2>4, <2>5, <2>6 DEF PlayerInv, AnswersType
<1>2. CASE StoreStep
  BY <1>2, StoreStepUpdates, UpdateInv
<1>3. CASE ChangeIdentity
  <2>1. PICK p, m, pg : p = NoTrack /\ m = media /\ pg = page
    OBVIOUS
  <2>2. Good(p)
    <3>1. <<>> \in Seq(Track)
      OBVIOUS
    <3> QED BY <1>z, <2>1, <3>1 DEF NoTrack, Good, StoreType
  <2>3. Fits(m, player)
    BY <1>t, <2>1
  <2>4. /\ Commit(p, m, pg) /\ page' = pg
        /\ urls' = [a \in Audio |-> 0] /\ waves' = [a \in Audio |-> FALSE]
        /\ canvas' = None
    BY <1>3, <2>1 DEF ChangeIdentity
  <2>5. Good(player') /\ Fits(media', player') /\ Present(media', player', page')
    BY <2>2, <2>3, <2>4, CommitInv
  <2> QED BY <1>t, <2>1, <2>4, <2>5 DEF PlayerInv, AnswersType, Still
<1>4. ASSUME NEW a \in Audio, PlaybackArrives(a)
      PROVE  PlayerInv'
  <2>1. /\ urls' = [urls EXCEPT ![a] = @ + 1] /\ waves' = [waves EXCEPT ![a] = FALSE]
        /\ canvas' = None
        /\ UNCHANGED <<player, media, page>>
    BY <1>4 DEF PlaybackArrives
  <2>2. urls' \in [Audio -> Nat] /\ waves' \in [Audio -> BOOLEAN]
    BY <1>t, <2>1
  <2> QED BY <1>t, <2>1, <2>2 DEF PlayerInv, AnswersType, Good, Fits, Present, Still
<1>5. ASSUME NEW a \in Audio, WaveformArrives(a)
       PROVE  PlayerInv'
  <2>1. PICK p, m, q : p = HydrateTrack(player, a) /\ m = media /\ q = player
    OBVIOUS
  <2>2. /\ Good(p)
        /\ p.playing = q.playing
        /\ p.track = None <=> q.track = None
        /\ q.track # None => p.track.id = q.track.id
    BY <1>t, <2>1, HydrateGood
  <2>3. /\ Commit(p, m, a) /\ page' = a
        /\ Mounted(q, a)
        /\ waves' = [waves EXCEPT ![a] = TRUE] /\ urls' = urls
    BY <1>5, <2>1 DEF WaveformArrives
  <2>4. Good(player') /\ Fits(media', player') /\ Present(media', player', page')
    BY <1>t, <2>1, <2>2, <2>3, CommitInv
  <2>5. Still(canvas', player', page')
    <3>1. player' = p /\ Still(canvas', q, a)
      BY <2>3, MountedStill DEF Commit
    <3>2. /\ IsCurrent(p, a) <=> IsCurrent(q, a)
          /\ Live(p, a) <=> Live(q, a)
      BY <2>2 DEF IsCurrent, Live
    <3> QED BY <2>3, <3>1, <3>2 DEF Still
  <2>6. waves' \in [Audio -> BOOLEAN]
    BY <1>t, <2>3
  <2> QED BY <1>t, <2>3, <2>4, <2>5, <2>6 DEF PlayerInv, AnswersType, Page
<1>6. ASSUME NEW width \in Widths, Resize(width)
       PROVE  PlayerInv'
  <2>1. PICK bars : canvas' = [canvas EXCEPT !.width = width, !.bars = bars,
                                             !.head = IF width = 0 THEN @ ELSE ReadProgress]
    BY <1>6 DEF Resize
  <2>2. canvas # None /\ UNCHANGED <<player, media, page, urls, waves>>
    BY <1>6 DEF Resize
  <2>3. /\ canvas = [width |-> canvas.width, bars |-> canvas.bars, energy |-> canvas.energy,
                     head |-> canvas.head]
        /\ ~Live(player, page) => /\ canvas.energy = 0
                                  /\ ~IsCurrent(player, page) => canvas.head = 0
    BY <1>t, <2>2 DEF Still
  <2>4. /\ canvas' = [width |-> width, bars |-> bars, energy |-> canvas.energy,
                      head |-> IF width = 0 THEN canvas.head ELSE ReadProgress]
    BY <2>1, <2>3
  <2>5. ~IsCurrent(player, page) => ReadProgress = 0
    BY DEF ReadProgress
  <2>6. Still(canvas', player, page)
    BY <2>3, <2>4, <2>5 DEF Still
  <2> QED BY <2>2, <2>6 DEF PlayerInv, AnswersType
<1>7. CASE Frame
  <2>1. PICK energy : canvas' = [canvas EXCEPT !.head = ReadProgress, !.energy = energy]
    BY <1>7 DEF Frame
  <2>2. canvas # None /\ Live(player, page) /\ UNCHANGED <<player, media, page, urls, waves>>
    BY <1>7 DEF Frame
  <2>3. canvas = [width |-> canvas.width, bars |-> canvas.bars, energy |-> canvas.energy,
                  head |-> canvas.head]
    BY <1>t, <2>2 DEF Still
  <2>4. canvas' = [width |-> canvas.width, bars |-> canvas.bars, energy |-> energy,
                   head |-> ReadProgress]
    BY <2>1, <2>3
  <2>5. Still(canvas', player, page)
    BY <2>2, <2>4 DEF Still
  <2> QED BY <2>2, <2>5 DEF PlayerInv, AnswersType
<1>8. CASE MediaFails
  <2>1. /\ player' = [player EXCEPT !.error = TRUE]
        /\ media' = [media EXCEPT !.state = "failed", !.pending = FALSE]
        /\ media # None /\ media.state \in {"loading", "ready"}
        /\ UNCHANGED <<page, urls, waves, canvas>>
    BY <1>8 DEF MediaFails
  <2>2. Good(player') /\ Fits(media', player)
    BY <2>1, SmallChanges, MediaChanges
  <2>3. player'.track = player.track /\ player'.playing = player.playing
    BY <1>t, <2>1 DEF StoreType
  <2>4. media' # None
    BY <1>t, <2>1, NoneAssumption DEF Fits, Element
  <2>5. Fits(media', player') /\ Present(media', player', page')
    BY <2>2, <2>3, <2>4 DEF Fits, Present
  <2>6. Still(canvas', player', page')
    BY <1>t, <2>1, <2>3 DEF Still, Live, IsCurrent
  <2> QED BY <2>1, <2>2, <2>5, <2>6 DEF PlayerInv, AnswersType
<1>9. CASE PlayBlocked
  <2>1. /\ media # None /\ media' = Paused(media)
        /\ UNCHANGED <<player, page, urls, waves, canvas>>
    BY <1>9 DEF PlayBlocked
  <2>2. Fits(media', player)
    BY <2>1, MediaChanges
  <2>3. media' # None
    BY <1>t, <2>1, ElementSteps, NoneAssumption DEF Fits
  <2> QED BY <2>1, <2>2, <2>3 DEF PlayerInv, AnswersType, Present
<1>10. ASSUME NEW src \in rejected, PlayRejected(src)
       PROVE  PlayerInv'
  <2>1. PICK p, m : p = [player EXCEPT !.playing = FALSE, !.error = TRUE] /\ m = media
    OBVIOUS
  <2>2. /\ player' = p
        /\ media' = Effects(p, m, page).element
        /\ canvas' = IF canvas = None \/ Depends(p, page) = Depends(player, page)
                       THEN canvas ELSE Redrawn(p, page)
        /\ UNCHANGED <<page, urls, waves>>
    BY <1>10, <2>1 DEF PlayRejected
  <2>3. Good(p) /\ Fits(m, player)
    BY <1>t, <2>1, SmallChanges
  <2>4. /\ Fits(Effects(p, m, page).element, p)
        /\ Present(Effects(p, m, page).element, p, page)
    BY <2>3, EffectsFit
  <2>5. Still(canvas', player', page')
    BY <2>2, RenderedStill
  <2> QED BY <2>2, <2>3, <2>4, <2>5 DEF PlayerInv, AnswersType
<1>11. CASE MediaAdvances
  <2>1. /\ media # None /\ media.time < MaxTime
        /\ media' = [media EXCEPT !.time = media.time + 1]
        /\ UNCHANGED <<player, page, urls, waves, canvas>>
    BY <1>11, <1>t DEF MediaAdvances, Sounding, Fits, Element
  <2>2. PICK t \in Time : t = media.time + 1
    BY <1>z, <2>1 DEF Time
  <2>3. Fits(media', player)
    BY <2>1, <2>2, MediaChanges
  <2>4. media' # None
    BY <1>t, <2>1, <2>2, NoneAssumption DEF Fits, Element
  <2> QED BY <2>1, <2>3, <2>4 DEF PlayerInv, AnswersType, Present
<1>12. CASE UNCHANGED playerVars
  BY <1>12 DEF PlayerInv, AnswersType, Good, Fits, Present, Still, playerVars
<1> QED
  BY <1>1, <1>2, <1>3, <1>4, <1>5, <1>6, <1>7, <1>8, <1>9, <1>10, <1>11, <1>12
  DEF PlayerNext, UserStep, Settle, StoreStep

LEMMA PlayerInvAlways == PlayerSpec => []PlayerInv
BY PlayerInvInit, PlayerInvNext, PTL DEF PlayerSpec

-----------------------------------------------------------------------------
(* The theorems                                                            *)

\* The current track is the queue's, also after a late waveform was filled in
\* (playerStore.ts:61-66), whatever was queued and however often the user moved on.
THEOREM TrackOfQueue == PlayerSpec => []QueueAgrees
<1>1. PlayerInv => QueueAgrees
  BY DEF PlayerInv, Good, QueueAgrees
<1> QED BY <1>1, PlayerInvAlways, PTL

\* No track carries the waveform of another one, whichever answer came last
\* (playerStore.ts:58-66).
THEOREM WaveformOfTrack == PlayerSpec => []WaveformIsOwn
<1>1. PlayerInv => WaveformIsOwn
  BY DEF PlayerInv, Good, Own, WaveformIsOwn
<1> QED BY <1>1, PlayerInvAlways, PTL

\* The element has loaded the current track and sounds only while the store says that it
\* plays (PersistentPlayer.tsx:36-64), after any order of effects and of what it reports.
THEOREM SoundOfTrack == PlayerSpec => []SoundIsCurrent
<1>1. PlayerInv => SoundIsCurrent
  BY DEF PlayerInv, Fits, SoundIsCurrent
<1> QED BY <1>1, PlayerInvAlways, PTL

\* A canvas whose track does not play lies still (LiveWaveform.tsx:188-194).
THEOREM CanvasAtRest == PlayerSpec => []StillUnlessPlaying
<1>1. PlayerInv => StillUnlessPlaying
  BY DEF PlayerInv, Still, StillUnlessPlaying
<1> QED BY <1>1, PlayerInvAlways, PTL

\* The effects see neither another source nor another wish to play.
LEMMA SilentEffects ==
    ASSUME PlayerInv, NEW a \in Audio, page = a
    PROVE  Effects(HydrateTrack(player, a), media, page).element = media
<1>1. PICK p : p = HydrateTrack(player, a)
  OBVIOUS
<1>2. /\ p.playing = player.playing
      /\ p.track = None <=> player.track = None
      /\ player.track # None => SourceOf(p.track) = SourceOf(player.track)
  BY <1>1, HydrateGood DEF PlayerInv
<1>3. InShell(page)
  BY PlayerAssumption DEF InShell
<1>4. Effects(p, media, page).element = media
  <2>1. CASE p.track = None
    <3>1. media = None
      BY <1>2, <2>1 DEF PlayerInv, Fits
    <3> QED BY <2>1, <3>1 DEF Effects
  <2>2. CASE p.track # None
    <3>1. media # None
      BY <1>2, <1>3, <2>2 DEF PlayerInv, Present
    <3>2. ~NewSource(p) /\ ~PlaysAgain(p)
      BY <1>2, <2>2 DEF NewSource, PlaysAgain
    <3> QED BY <1>3, <2>2, <3>1, <3>2 DEF Effects
  <2> QED BY <2>1, <2>2
<1> QED BY <1>1, <1>4

\* Only the answer with a waveform marks it as there.
LEMMA HydrationStep ==
    PlayerInv /\ [PlayerNext]_playerVars =>
        \A a \in Audio : waves'[a] /\ ~waves[a] => UNCHANGED media
<1> SUFFICES ASSUME PlayerInv, [PlayerNext]_playerVars, NEW a \in Audio, waves'[a], ~waves[a]
             PROVE  media' = media
  OBVIOUS
<1>1. waves \in [Audio -> BOOLEAN]
  BY DEF PlayerInv, AnswersType
<1>2. CASE waves' = waves
  BY <1>2
<1>3. CASE ChangeIdentity
  BY <1>3 DEF ChangeIdentity
<1>4. ASSUME NEW b \in Audio, PlaybackArrives(b)
      PROVE  FALSE
  BY <1>1, <1>4 DEF PlaybackArrives
<1>5. ASSUME NEW b \in Audio, WaveformArrives(b)
      PROVE  media' = media
  <2>1. page = b /\ media' = Effects(HydrateTrack(player, b), media, page).element
    BY <1>5 DEF WaveformArrives, Commit
  <2> QED BY <2>1, SilentEffects
<1>6. UserStep => waves' = waves \/ ChangeIdentity
  BY DEF UserStep, Visit, PlayPage, PlayListed, Toggle, Next, Previous, Seek, Update
<1>7. (Settle \/ Frame \/ MediaAdvances \/ TimeUpdate \/ MediaEnds) => waves' = waves
  BY DEF Settle, MediaReady, MediaFails, PlayBlocked, Frame, MediaAdvances, TimeUpdate,
         MediaEnds, Update
<1>8. (\E width \in Widths : Resize(width)) => waves' = waves
  BY DEF Resize
<1>9. (\E src \in rejected : PlayRejected(src)) => waves' = waves
  BY DEF PlayRejected
<1>10. (UNCHANGED playerVars) => waves' = waves
  BY DEF playerVars
<1> QED
  BY <1>2, <1>3, <1>4, <1>5, <1>6, <1>7, <1>8, <1>9, <1>10 DEF PlayerNext

\* The waveform that arrives while its track plays leaves the element as it is
\* (playerStore.ts:25): no reload, no stop, no second play().
THEOREM HydrationKeepsSound == PlayerSpec => HydrationIsSilent
<1>1. PlayerInv /\ [PlayerNext]_playerVars =>
        [\A a \in Audio : waves'[a] /\ ~waves[a] => UNCHANGED media]_playerVars
  BY HydrationStep
<1> QED BY <1>1, PlayerInvAlways, PTL DEF PlayerSpec, HydrationIsSilent

-----------------------------------------------------------------------------
(* What is drawn, and which promises are broken                            *)

\* Nothing of the energy is made up: some peak of the track is at least as loud.
Lit(energy, a) ==
    \E j \in DOMAIN Peaks[a] \cup {0} :
        energy <= (IF j = 0 THEN 0 ELSE Amplitude(Peaks[a][j]))

\* The canvas c of page pg.  A canvas that is not laid out keeps the bars it had.
Drawn(c, pg) ==
    c # None =>
        /\ pg \in Audio
        /\ c = [width |-> c.width, bars |-> c.bars, energy |-> c.energy, head |-> c.head]
        /\ c.width \in Widths
        /\ c.head \in Time
        /\ c.energy \in Nat
        /\ Lit(c.energy, pg)
        /\ c.width > 0 => Pictures(c.bars, Peaks[pg], BarCount(c.width, BarStep))

DrawnInv ==
    /\ Drawn(canvas, page)
    /\ rejected \subseteq Source

LEMMA PeaksOfAudio ==
    ASSUME NEW a \in Audio
    PROVE  /\ Peaks[a] \in Seq(Peak)
           /\ \A j \in DOMAIN Peaks[a] : Amplitude(Peaks[a][j]) \in 0..Loudest
<1>1. Peaks[a] \in Seq(Peak)
  BY PlayerAssumption
<1>2. \A j \in DOMAIN Peaks[a] : Peaks[a][j] \in Peak
  BY <1>1
<1> QED BY <1>1, <1>2, AmplitudeRange

LEMMA Dark == \A a : Lit(0, a)
BY DEF Lit

\* resize() of a canvas that is laid out.
LEMMA BarsDrawn ==
    ASSUME NEW a \in Audio, NEW width \in Widths, width > 0, NEW old,
           NEW bars \in Bars(a, width, old)
    PROVE  Pictures(bars, Peaks[a], BarCount(width, BarStep))
<1>1. width \in Nat /\ BarStep \in Nat \ {0}
  BY PlayerAssumption
<1>2. width \div BarStep \in Nat
  BY <1>1, Quotient
<1>3. BarCount(width, BarStep) \in Nat \ {0}
  BY <1>2, MaxOfTwo DEF BarCount
<1>4. PICK short \in SUBSET ShortBorders(Peaks[a], BarCount(width, BarStep)) :
        bars = Downsample(Peaks[a], BarCount(width, BarStep), short)
  BY <1>1 DEF Bars
<1> QED BY <1>3, <1>4, PeaksOfAudio, BarsArePicture

LEMMA MountedDrawn ==
    ASSUME NEW p, p \in StoreType, NEW a \in Audio, Mounted(p, a)
    PROVE  Drawn(canvas', a)
<1>1. PICK width \in Widths : \E bars \in Bars(a, width, <<>>) :
        canvas' = [width |-> width, bars |-> bars, energy |-> 0,
                   head |-> IF IsCurrent(p, a) /\ ~p.playing THEN p.time ELSE 0]
  BY DEF Mounted
<1>2. PICK bars \in Bars(a, width, <<>>) :
        canvas' = [width |-> width, bars |-> bars, energy |-> 0,
                   head |-> IF IsCurrent(p, a) /\ ~p.playing THEN p.time ELSE 0]
  BY <1>1
<1>3. (IF IsCurrent(p, a) /\ ~p.playing THEN p.time ELSE 0) \in Time
  BY PlayerAssumption DEF StoreType, Time
<1>4. width > 0 => Pictures(bars, Peaks[a], BarCount(width, BarStep))
  BY BarsDrawn
<1>5. Lit(0, a)
  BY Dark
<1> QED BY <1>2, <1>3, <1>4, <1>5 DEF Drawn

LEMMA RedrawnDrawn ==
    ASSUME Drawn(canvas, page), canvas # None, NEW p, p \in StoreType
    PROVE  Drawn(Redrawn(p, page), page)
<1>1. CASE Live(p, page)
  BY <1>1 DEF Redrawn
<1>2. CASE ~Live(p, page)
  <2>1. PICK h : h = IF IsCurrent(p, page) THEN p.time ELSE 0
    OBVIOUS
  <2>2. h \in Time
    BY <2>1, PlayerAssumption DEF StoreType, Time
  <2>3. Redrawn(p, page) = [canvas EXCEPT !.energy = 0, !.head = h]
    BY <1>2, <2>1 DEF Redrawn
  <2>4. canvas = [width |-> canvas.width, bars |-> canvas.bars, energy |-> canvas.energy,
                  head |-> canvas.head]
    BY DEF Drawn
  <2>5. Redrawn(p, page) = [width |-> canvas.width, bars |-> canvas.bars, energy |-> 0,
                            head |-> h]
    BY <2>3, <2>4
  <2> QED BY <2>2, <2>5, Dark DEF Drawn
<1> QED BY <1>1, <1>2

\* The store becomes p, and the page with its canvas stays.
LEMMA UpdateDrawn ==
    ASSUME PlayerInv, DrawnInv, NEW p, Good(p), NEW m, Fits(m, player), Update(p, m)
    PROVE  DrawnInv'
<1>1. /\ Commit(p, m, page) /\ page' = page
      /\ canvas' = IF canvas = None \/ Depends(p, page) = Depends(player, page)
                     THEN canvas ELSE Redrawn(p, page)
  BY DEF Update
<1>2. rejected' \subseteq Source
  BY <1>1, EffectsFit DEF Commit, DrawnInv
<1>3. Drawn(canvas', page')
  BY <1>1, RedrawnDrawn DEF DrawnInv, Good
<1> QED BY <1>2, <1>3 DEF DrawnInv

LEMMA CanvasDropped ==
    ASSUME DrawnInv, canvas' = None, rejected' \subseteq Source
    PROVE  DrawnInv'
BY DEF DrawnInv, Drawn

LEMMA ResizeDrawn ==
    ASSUME PlayerInv, DrawnInv, NEW width \in Widths, Resize(width)
    PROVE  DrawnInv'
<1>1. PICK bars \in Bars(page, width, canvas.bars) :
        canvas' = [canvas EXCEPT !.width = width, !.bars = bars,
                                 !.head = IF width = 0 THEN @ ELSE ReadProgress]
  BY DEF Resize
<1>2. canvas # None /\ page' = page /\ rejected' = rejected
  BY DEF Resize
<1>3. /\ page \in Audio
      /\ canvas = [width |-> canvas.width, bars |-> canvas.bars, energy |-> canvas.energy,
                   head |-> canvas.head]
      /\ canvas.head \in Time /\ canvas.energy \in Nat /\ Lit(canvas.energy, page)
  BY <1>2 DEF DrawnInv, Drawn
<1>4. ReadProgress \in Time
  BY PlayerAssumption DEF ReadProgress, MediaTime, PlayerInv, Good, StoreType, Fits, Element, Time
<1>5. PICK h \in Time : h = IF width = 0 THEN canvas.head ELSE ReadProgress
  BY <1>3, <1>4
<1>6. canvas' = [width |-> width, bars |-> bars, energy |-> canvas.energy, head |-> h]
  BY <1>1, <1>3, <1>5
<1>7. width > 0 => Pictures(bars, Peaks[page], BarCount(width, BarStep))
  BY <1>3, BarsDrawn
<1> QED BY <1>2, <1>3, <1>6, <1>7 DEF DrawnInv, Drawn

LEMMA FrameDrawn ==
    ASSUME PlayerInv, DrawnInv, Frame
    PROVE  DrawnInv'
<1>1. canvas # None /\ page' = page /\ rejected' = rejected
  BY DEF Frame
<1>2. /\ page \in Audio
      /\ canvas = [width |-> canvas.width, bars |-> canvas.bars, energy |-> canvas.energy,
                   head |-> canvas.head]
      /\ canvas.energy \in Nat /\ Lit(canvas.energy, page)
      /\ canvas.width \in Widths
      /\ canvas.width > 0 =>
           Pictures(canvas.bars, Peaks[page], BarCount(canvas.width, BarStep))
  BY <1>1 DEF DrawnInv, Drawn
<1>3. ReadProgress \in Time /\ ReadProgress \in Int
  BY PlayerAssumption DEF ReadProgress, MediaTime, PlayerInv, Good, StoreType, Fits, Element, Time
<1>4. PICK target : target = AmplitudeAt(Peaks[page], ReadProgress, MaxTime)
  OBVIOUS
<1>5. target \in Nat /\ Lit(target, page)
  <2>1. CASE Peaks[page] = <<>>
    <3>1. target = 0
      BY <1>4, <2>1 DEF AmplitudeAt
    <3> QED BY <3>1, Dark
  <2>2. CASE Peaks[page] # <<>>
    <3>1. PICK j \in DOMAIN Peaks[page] :
            target \in Nat /\ target <= Amplitude(Peaks[page][j])
      BY <1>2, <1>3, <1>4, <2>2, PeaksOfAudio, PlayerAssumption, AmplitudeAtBelowPeak
    <3>2. j # 0
      BY <1>2, PeaksOfAudio
    <3> QED BY <3>1, <3>2 DEF Lit
  <2> QED BY <2>1, <2>2
<1>6. PICK energy \in {target, Max({target, canvas.energy})} :
        canvas' = [canvas EXCEPT !.head = ReadProgress, !.energy = energy]
  BY <1>4 DEF Frame
<1>7. energy \in {target, canvas.energy}
  BY <1>2, <1>5, <1>6, MaxOfTwo
<1>8. energy \in Nat /\ Lit(energy, page)
  BY <1>2, <1>5, <1>7
<1>9. canvas' = [width |-> canvas.width, bars |-> canvas.bars, energy |-> energy,
                 head |-> ReadProgress]
  BY <1>2, <1>6
<1> QED BY <1>1, <1>2, <1>3, <1>8, <1>9 DEF DrawnInv, Drawn

LEMMA DrawnInvNext == PlayerInv /\ DrawnInv /\ [PlayerNext]_playerVars => DrawnInv'
<1> SUFFICES ASSUME PlayerInv, DrawnInv, [PlayerNext]_playerVars
             PROVE  DrawnInv'
  OBVIOUS
<1>t. /\ Good(player) /\ player \in StoreType
      /\ Fits(media, player)
      /\ Drawn(canvas, page) /\ rejected \subseteq Source
  BY DEF PlayerInv, Good, DrawnInv
<1>b. Broken(media) \subseteq Source
  BY <1>t, BrokenSource DEF Fits
<1>1. ASSUME NEW pg \in Page, Visit(pg)
      PROVE  DrawnInv'
  <2>1. PICK p : p = IF pg \in Audio /\ waves[pg] THEN HydrateTrack(player, pg) ELSE player
    OBVIOUS
  <2>2. Good(p)
    BY <1>t, <2>1, HydrateGood
  <2>3. PICK m : m = media
    OBVIOUS
  <2>4. /\ Commit(p, m, pg) /\ page' = pg
        /\ (IF pg \in Audio /\ waves[pg] THEN Mounted(p, pg) ELSE canvas' = None)
    BY <1>1, <2>1, <2>3 DEF Visit
  <2>5. rejected' \subseteq Source
    BY <1>t, <2>2, <2>3, <2>4, EffectsFit DEF Commit
  <2>6. CASE pg \in Audio /\ waves[pg]
    <3>1. Drawn(canvas', pg)
      BY <2>2, <2>4, <2>6, MountedDrawn DEF Good
    <3> QED BY <2>4, <2>5, <3>1 DEF DrawnInv
  <2>7. CASE ~(pg \in Audio /\ waves[pg])
    BY <2>4, <2>5, <2>7, CanvasDropped
  <2> QED BY <2>6, <2>7
<1>2. CASE StoreStep
  BY <1>2, StoreStepUpdates, UpdateDrawn
<1>3. CASE ChangeIdentity
  <2>1. rejected' = rejected \cup Broken(media)
    BY <1>3 DEF ChangeIdentity, Commit, Effects, NoTrack
  <2> QED BY <1>3, <1>t, <1>b, <2>1, CanvasDropped DEF ChangeIdentity
<1>4. ASSUME NEW a \in Audio, PlaybackArrives(a)
      PROVE  DrawnInv'
  BY <1>4, <1>t, CanvasDropped DEF PlaybackArrives
<1>5. ASSUME NEW a \in Audio, WaveformArrives(a)
      PROVE  DrawnInv'
  <2>1. PICK p, m, q : p = HydrateTrack(player, a) /\ m = media /\ q = player
    OBVIOUS
  <2>2. Commit(p, m, a) /\ page' = a /\ Mounted(q, a)
    BY <1>5, <2>1 DEF WaveformArrives
  <2>3. rejected' \subseteq Source
    <3>1. Good(p)
      BY <1>t, <2>1, HydrateGood
    <3> QED BY <1>t, <2>1, <2>2, <3>1, EffectsFit DEF Commit
  <2>4. Drawn(canvas', a)
    BY <1>t, <2>1, <2>2, MountedDrawn
  <2> QED BY <2>2, <2>3, <2>4 DEF DrawnInv
<1>6. ASSUME NEW width \in Widths, Resize(width)
      PROVE  DrawnInv'
  BY <1>6, ResizeDrawn
<1>7. CASE Frame
  BY <1>7, FrameDrawn
<1>8. CASE MediaFails \/ PlayBlocked \/ MediaAdvances
  <2>1. UNCHANGED <<page, canvas>> /\ rejected' \in {rejected, rejected \cup Broken(media)}
    BY <1>8 DEF MediaFails, PlayBlocked, MediaAdvances
  <2> QED BY <1>t, <1>b, <2>1 DEF DrawnInv
<1>9. ASSUME NEW src \in rejected, PlayRejected(src)
      PROVE  DrawnInv'
  <2>1. PICK p, m : p = [player EXCEPT !.playing = FALSE, !.error = TRUE] /\ m = media
    OBVIOUS
  <2>2. /\ rejected' = (rejected \ {src}) \cup Effects(p, m, page).rejects
        /\ page' = page
        /\ canvas' = IF canvas = None \/ Depends(p, page) = Depends(player, page)
                       THEN canvas ELSE Redrawn(p, page)
    BY <1>9, <2>1 DEF PlayRejected
  <2>3. Good(p) /\ Fits(m, player)
    BY <1>t, <2>1, SmallChanges
  <2>4. Effects(p, m, page).rejects \subseteq Source
    BY <2>3, EffectsFit
  <2>5. Drawn(canvas', page)
    BY <1>t, <2>2, <2>3, RedrawnDrawn DEF Good
  <2> QED BY <1>t, <2>2, <2>4, <2>5 DEF DrawnInv
<1>10. CASE UNCHANGED playerVars
  BY <1>10, <1>t DEF DrawnInv, playerVars
<1> QED
  BY <1>1, <1>2, <1>3, <1>4, <1>5, <1>6, <1>7, <1>8, <1>9, <1>10
  DEF PlayerNext, UserStep, Settle, StoreStep

LEMMA DrawnInvAlways == PlayerSpec => [](PlayerInv /\ DrawnInv)
<1>1. PlayerInit => DrawnInv
  BY DEF PlayerInit, DrawnInv, Drawn
<1> QED BY <1>1, DrawnInvNext, PlayerInvInit, PlayerInvNext, PTL DEF PlayerSpec

\* Every reachable state of player, element and canvas is well typed.
THEOREM PlayerTypeCorrect == PlayerSpec => []PlayerTypeOK
<1>1. ASSUME PlayerInv, DrawnInv
      PROVE  PlayerTypeOK
  <2>1. canvas # None => page \in Audio /\ canvas.energy \in 0..Loudest
    <3> SUFFICES ASSUME canvas # None
                 PROVE  page \in Audio /\ canvas.energy \in 0..Loudest
      OBVIOUS
    <3>1. page \in Audio /\ canvas.energy \in Nat /\ Lit(canvas.energy, page)
      BY <1>1 DEF DrawnInv, Drawn
    <3>2. PICK j \in DOMAIN Peaks[page] \cup {0} :
            canvas.energy <= (IF j = 0 THEN 0 ELSE Amplitude(Peaks[page][j]))
      BY <3>1 DEF Lit
    <3>3. Loudest \in Nat
      BY DEF Loudest
    <3>4. PICK bound \in 0..Loudest : canvas.energy <= bound
      <4>1. CASE j = 0
        BY <3>2, <3>3, <4>1
      <4>2. CASE j # 0
        BY <3>1, <3>2, <4>2, PeaksOfAudio
      <4> QED BY <4>1, <4>2
    <3>5. \A e \in Nat : e <= bound => e \in 0..Loudest
      BY <3>3
    <3> QED BY <3>1, <3>4, <3>5
  <2> QED
    BY <1>1, <2>1 DEF PlayerTypeOK, PlayerInv, AnswersType, Good, StoreType, Fits, DrawnInv, Drawn
<1> QED BY <1>1, DrawnInvAlways, PTL

\* The picture on the canvas is that of the page's own audio at the width the canvas has,
\* for any peaks, widths and roundings, and its energy is that of some peak at most
\* (LiveWaveform.tsx:141-194).
THEOREM PictureOfTrack == PlayerSpec => []PictureIsOwn
<1>1. PlayerInv /\ DrawnInv => PictureIsOwn
  BY DEF DrawnInv, Drawn, Lit, PictureIsOwn
<1> QED BY <1>1, DrawnInvAlways, PTL

=============================================================================
