------------------------------ MODULE WebPlayer -------------------------------
(***************************************************************************)
(* The player of the web client: stores/playerStore.ts, components/audio/  *)
(* PersistentPlayer.tsx, PlaybackControls.tsx and LiveWaveform.tsx, the    *)
(* track page that starts it, and the <audio> element it drives.           *)
(*                                                                         *)
(* A change of the store and the effects React runs for it are one step:   *)
(* a store of this kind renders synchronously, before the next event.      *)
(* What the element does by itself -- loading, failing, ending -- and the  *)
(* handler of a play() that was rejected are steps of their own.  Times    *)
(* count from 0; RestartAfter stands for the four seconds of previous().   *)
(***************************************************************************)
EXTENDS Waveform

CONSTANTS
    Audio,         \* the audio ids
    None,          \* null and undefined
    Peaks,         \* per audio, the peaks of its waveform
    MaxUrl,        \* bound: signed playback URLs of each audio
    Lists,         \* lists of ids a page offers as a queue
    MaxRejected,   \* bound: handlers of rejected promises a user's step may overtake
    MaxTime,       \* the length of a track
    RestartAfter,
    Widths,        \* widths a canvas may have; 0: it is not laid out
    BarStep        \* barWidth + barGap

ASSUME PlayerAssumption ==
    /\ None \notin Audio
    /\ Audio \cap {"app", "outside"} = {}
    /\ Peaks \in [Audio -> Seq(Peak)]
    /\ MaxUrl \in [Audio -> Nat]
    /\ Lists \subseteq Seq(Audio)
    /\ MaxRejected \in Nat
    /\ MaxTime \in Nat \ {0}
    /\ RestartAfter \in Nat
    /\ Widths \subseteq Nat
    /\ BarStep \in Nat \ {0}

VARIABLES
    player,      \* usePlayerStore
    media,       \* the <audio> element, while there is one
    rejected,    \* sources whose play() was rejected and the handler is still to run
    page,        \* the track page of an audio, another page with the player, or none
    urls,        \* per audio, which playback URL the query holds; 0: none
    waves,       \* per audio, whether the waveform that belongs to this URL is there
    canvas       \* the canvas of the track page

playerVars == <<player, media, rejected, page, urls, waves, canvas>>

Time == 0..MaxTime
Page == Audio \cup {"app", "outside"}
InShell(p) == p # "outside"

\* The fields of a Track the player uses.  stream 0: no URL; wave: whose peaks.
Track == [id: Audio, stream: Nat, wave: Audio \cup {None}]
Source == [id: Audio, stream: Nat \ {0}]
Element == [src: Source \cup {None}, state: {"empty", "loading", "ready", "failed"},
            paused: BOOLEAN, ended: BOOLEAN, pending: BOOLEAN, time: Time]

ASSUME NoneAssumption == None \notin Element /\ None \notin Track

Sounding(m) == m # None /\ m.state = "ready" /\ ~m.paused

-----------------------------------------------------------------------------
(* The element, as HTML defines it                                         *)

NewElement == [src |-> None, state |-> "empty", paused |-> TRUE, ended |-> FALSE,
               pending |-> FALSE, time |-> 0]

\* load() pauses an element that had a source and rejects what play() promised.
Loaded(m, src) ==
    [src |-> src, state |-> IF src = None THEN "empty" ELSE "loading",
     paused |-> m.paused \/ m.src # None, ended |-> FALSE, pending |-> FALSE, time |-> 0]

Played(m) ==
    IF m.state = "failed" THEN m
    ELSE [m EXCEPT !.paused = FALSE, !.ended = FALSE, !.pending = m.state = "loading",
                   !.time = IF m.ended THEN 0 ELSE @]

Paused(m) == [m EXCEPT !.paused = TRUE, !.pending = FALSE]

Broken(m) == IF m # None /\ m.pending THEN {m.src} ELSE {}

-----------------------------------------------------------------------------
(* The effects of PersistentPlayer and LiveWaveform                        *)

\* The dependencies of the source effect.
SourceOf(t) == [id |-> t.id, stream |-> t.stream]

\* Mutant: only another track is a new source.
NewSourceOtherId(p) == player.track = None \/ p.track.id # player.track.id

\* Mutant: a waveform that arrives makes a new source.
NewSourceOfTrack(p) == player.track = None \/ p.track # player.track

NewSource(p) == player.track = None \/ SourceOf(p.track) # SourceOf(player.track)

\* Mutant: the play effect depends on isPlaying alone.
PlaysAgainOnToggle(p) == p.playing # player.playing

\* The dependencies of the play effect (PersistentPlayer.tsx:62-64).
PlaysAgain(p) == p.playing # player.playing \/ NewSource(p)

\* The element after the store became p on page pg: it exists while there is a track,
\* the source effect comes before the play effect.
Effects(p, m, pg) ==
    IF ~InShell(pg) \/ p.track = None THEN [element |-> None, rejects |-> Broken(m)]
    ELSE LET fresh == m = None
             m0 == IF fresh THEN NewElement ELSE m
             reload == fresh \/ NewSource(p)
             src == IF p.track.stream = 0 THEN None ELSE SourceOf(p.track)
             m1 == IF reload THEN Loaded(m0, src) ELSE m0
             again == (fresh \/ PlaysAgain(p)) /\ m1.src # None
             m2 == IF ~again THEN m1 ELSE IF p.playing THEN Played(m1) ELSE Paused(m1)
         IN  [element |-> m2,
              rejects |-> (IF reload THEN Broken(m0) ELSE {})
                            \cup (IF again /\ ~p.playing THEN Broken(m1) ELSE {})
                            \cup (IF again /\ p.playing /\ m1.state = "failed"
                                    THEN {m1.src} ELSE {})]

IsCurrent(p, pg) == p.track # None /\ p.track.id = pg
Live(p, pg) == IsCurrent(p, pg) /\ p.playing

\* Mutant: the paused effect forgets which track is the current one.
RedrawnAnyTrack(p, pg) ==
    IF Live(p, pg) THEN canvas
    ELSE [canvas EXCEPT !.energy = 0, !.head = p.time]

\* The two drawing effects: while the track plays the frames draw, otherwise one
\* drawing without energy, at the store's time if the track is the current one.
Redrawn(p, pg) ==
    IF Live(p, pg) THEN canvas
    ELSE [canvas EXCEPT !.energy = 0, !.head = IF IsCurrent(p, pg) THEN p.time ELSE 0]

Depends(p, pg) == <<IsCurrent(p, pg), p.playing, p.time>>

\* resize() of a canvas that shows audio a: bars only if it is laid out.
Bars(a, width, bars) ==
    LET count == BarCount(width, BarStep)
    IN  IF width = 0 THEN {bars}
        ELSE {Downsample(Peaks[a], count, short) :
                short \in SUBSET ShortBorders(Peaks[a], count)}

\* The store becomes p.
Commit(p, m, pg) ==
    LET done == Effects(p, m, pg)
    IN  /\ player' = p
        /\ media' = done.element
        /\ rejected' = rejected \cup done.rejects

\* ... and the page with its canvas stays.
Update(p, m) ==
    /\ Commit(p, m, page)
    /\ canvas' = IF canvas = None \/ Depends(p, page) = Depends(player, page)
                   THEN canvas ELSE Redrawn(p, page)
    /\ UNCHANGED <<page, urls, waves>>

\* ... and the canvas of audio a is there for the first time.
Mounted(p, a) ==
    \E width \in Widths : \E bars \in Bars(a, width, <<>>) :
        canvas' = [width |-> width, bars |-> bars, energy |-> 0,
                   head |-> IF IsCurrent(p, a) /\ ~p.playing THEN p.time ELSE 0]

-----------------------------------------------------------------------------
(* The store                                                               *)

NoTrack == [track |-> None, queue |-> <<>>, index |-> 0, playing |-> FALSE,
            error |-> FALSE, time |-> 0]

\* toTrack, with what the queries of the page hold.
Snapshot(a) == [id |-> a, stream |-> urls[a], wave |-> IF waves[a] THEN a ELSE None]

\* Positions in the queue count from 1, 0 is the code's -1.
PlayTrack(track, queue) ==
    LET places == {i \in DOMAIN queue : queue[i].id = track.id}
    IN  [player EXCEPT !.track = track, !.queue = queue, !.playing = TRUE, !.error = FALSE,
                       !.index = IF places = {} THEN 1 ELSE Min(places)]

\* Mutant: the queue keeps the snapshot.
HydrateTrackOnly(p, a) ==
    IF p.track = None \/ p.track.id # a THEN p ELSE [p EXCEPT !.track.wave = a]

\* Mutant: whatever is playing gets the waveform.
HydrateAnyTrack(p, a) ==
    IF p.track = None THEN p
    ELSE LET t == [p.track EXCEPT !.wave = a]
         IN  [p EXCEPT !.track = t,
                       !.queue = [i \in DOMAIN @ |-> IF @[i].id = t.id THEN t ELSE @[i]]]

HydrateTrack(p, a) ==
    IF p.track = None THEN p
    ELSE IF p.track.id # a THEN p
    ELSE LET t == [p.track EXCEPT !.wave = a]
         IN  [p EXCEPT !.track = t,
                       !.queue = [i \in DOMAIN @ |-> IF @[i].id = a THEN t ELSE @[i]]]

At(p, i) == [p EXCEPT !.index = i, !.track = p.queue[i], !.time = 0, !.playing = TRUE,
                      !.error = FALSE]

\* next; repeatMode only matters at the end of the queue, where "one" is like "off".
AfterNext(p, repeatAll) ==
    IF p.queue = <<>> THEN p
    ELSE IF p.index < Len(p.queue) THEN At(p, p.index + 1)
    ELSE At(p, IF repeatAll THEN 1 ELSE p.index)

-----------------------------------------------------------------------------
PlayerInit ==
    /\ player = NoTrack
    /\ media = None
    /\ rejected = {}
    /\ page = "app"
    /\ urls = [a \in Audio |-> 0]
    /\ waves = [a \in Audio |-> FALSE]
    /\ canvas = None

(* What the user does                                                      *)

\* readProgress: the element's time rather than the store's, which follows it slowly.
MediaTime == IF media = None THEN player.time ELSE media.time
ReadProgress == IF IsCurrent(player, page) THEN MediaTime ELSE 0

\* Another page; the effect of the track page fills in a waveform that is cached.
Visit(pg) ==
    /\ pg # page
    /\ page' = pg
    /\ LET p == IF pg \in Audio /\ waves[pg] THEN HydrateTrack(player, pg) ELSE player
       IN  /\ Commit(p, media, pg)
           /\ IF pg \in Audio /\ waves[pg] THEN Mounted(p, pg) ELSE canvas' = None
    /\ UNCHANGED <<urls, waves>>

\* The Play button of the track page: a queue of one.
PlayPage ==
    /\ page \in Audio
    /\ urls[page] > 0
    /\ Update(PlayTrack(Snapshot(page), <<Snapshot(page)>>), media)

\* The Play button of a card or a row of a list.
PlayListed(list, i) ==
    /\ InShell(page)
    /\ i \in DOMAIN list
    /\ urls[list[i]] > 0
    /\ Update(PlayTrack(Snapshot(list[i]), [k \in DOMAIN list |-> Snapshot(list[k])]), media)

\* PlaybackControls; disabled for a track without a URL.
Controllable == media # None /\ player.track.stream > 0

Toggle ==
    /\ Controllable
    /\ Update([player EXCEPT !.playing = ~@], media)

Next ==
    /\ Controllable
    /\ \E repeatAll \in BOOLEAN : Update(AfterNext(player, repeatAll), media)

Previous ==
    /\ Controllable
    /\ IF player.time > RestartAfter
         THEN Update([player EXCEPT !.time = 0], [media EXCEPT !.time = 0, !.ended = FALSE])
         ELSE Update(At(player, Max({1, player.index - 1})), media)

\* Mutant: the keyboard may go past the ends.
SeekTimeUnclamped(seconds) == seconds

SeekTime(seconds) == Clamp(0, MaxTime, seconds)

\* A click on a canvas of the current track, or an arrow key: the page's, or the ones
\* the footer and the sheet show for a track that has its waveform.
Seek(seconds) ==
    /\ media # None
    /\ \/ player.track.wave # None
       \/ canvas # None /\ IsCurrent(player, page)
    /\ Update([player EXCEPT !.time = SeekTime(seconds)],
              [media EXCEPT !.time = SeekTime(seconds), !.ended = FALSE])

\* resetForIdentityChange pauses the element and drops the track, which takes the
\* element away: a play() that still waits is rejected, and its handler will find the
\* store that was reset.  The query cache is cleared too.
ChangeIdentity ==
    /\ Commit(NoTrack, media, page)
    /\ urls' = [a \in Audio |-> 0]
    /\ waves' = [a \in Audio |-> FALSE]
    /\ canvas' = None
    /\ UNCHANGED page

-----------------------------------------------------------------------------
(* Answers to the track page                                               *)

\* A playback URL, or a newer one; the waveform query has another key then.
PlaybackArrives(a) ==
    /\ page = a
    /\ urls[a] < MaxUrl[a]
    /\ urls' = [urls EXCEPT ![a] = @ + 1]
    /\ waves' = [waves EXCEPT ![a] = FALSE]
    /\ canvas' = None
    /\ UNCHANGED <<player, media, rejected, page>>

WaveformArrives(a) ==
    /\ page = a
    /\ urls[a] > 0
    /\ ~waves[a]
    /\ waves' = [waves EXCEPT ![a] = TRUE]
    /\ Commit(HydrateTrack(player, a), media, page)
    /\ Mounted(player, a)
    /\ UNCHANGED <<page, urls>>

-----------------------------------------------------------------------------
(* The canvas                                                              *)

Resize(width) ==
    /\ canvas # None
    /\ width # canvas.width
    /\ \E bars \in Bars(page, width, canvas.bars) :
         canvas' = [canvas EXCEPT !.width = width, !.bars = bars,
                                  !.head = IF width = 0 THEN @ ELSE ReadProgress]
    /\ UNCHANGED <<player, media, rejected, page, urls, waves>>

\* render(): the energy jumps up to the amplitude and sinks to it slowly.
Frame ==
    /\ canvas # None
    /\ Live(player, page)
    /\ LET target == AmplitudeAt(Peaks[page], ReadProgress, MaxTime)
       IN  \E energy \in {target, Max({target, canvas.energy})} :
             canvas' = [canvas EXCEPT !.head = ReadProgress, !.energy = energy]
    /\ UNCHANGED <<player, media, rejected, page, urls, waves>>

-----------------------------------------------------------------------------
(* What the element does                                                   *)

\* loadedmetadata, and the data after it: what play() promised is kept.
MediaReady ==
    /\ media # None
    /\ media.state = "loading"
    /\ Update([player EXCEPT !.time = 0], [media EXCEPT !.state = "ready", !.pending = FALSE])

\* error: nothing can be loaded, or no more of it.
MediaFails ==
    /\ media # None
    /\ media.state \in {"loading", "ready"}
    /\ player' = [player EXCEPT !.error = TRUE]
    /\ media' = [media EXCEPT !.state = "failed", !.pending = FALSE]
    /\ rejected' = rejected \cup Broken(media)
    /\ UNCHANGED <<page, urls, waves, canvas>>

\* The browser does not allow the sound.
PlayBlocked ==
    /\ media # None
    /\ media.pending
    /\ media' = Paused(media)
    /\ rejected' = rejected \cup Broken(media)
    /\ UNCHANGED <<player, page, urls, waves, canvas>>

\* The catch of play(): it does not ask which source was rejected.
PlayRejected(src) ==
    /\ src \in rejected
    /\ LET p == [player EXCEPT !.playing = FALSE, !.error = TRUE]
           done == Effects(p, media, page)
       IN  /\ player' = p
           /\ media' = done.element
           /\ rejected' = (rejected \ {src}) \cup done.rejects
           /\ canvas' = IF canvas = None \/ Depends(p, page) = Depends(player, page)
                          THEN canvas ELSE Redrawn(p, page)
    /\ UNCHANGED <<page, urls, waves>>

MediaAdvances ==
    /\ Sounding(media)
    /\ media.time < MaxTime
    /\ media' = [media EXCEPT !.time = @ + 1]
    /\ UNCHANGED <<player, rejected, page, urls, waves, canvas>>

TimeUpdate ==
    /\ media # None
    /\ player.time # media.time
    /\ Update([player EXCEPT !.time = media.time], media)

\* ended: the element pauses, and the player goes on to the next track.
MediaEnds ==
    /\ Sounding(media)
    /\ media.time = MaxTime
    /\ \E repeatAll \in BOOLEAN :
         Update(AfterNext(player, repeatAll), [media EXCEPT !.paused = TRUE, !.ended = TRUE])

-----------------------------------------------------------------------------
UserStep ==
    \/ \E pg \in Page : Visit(pg)
    \/ PlayPage
    \/ \E list \in Lists : \E i \in DOMAIN list : PlayListed(list, i)
    \/ Toggle \/ Next \/ Previous \/ ChangeIdentity
    \/ \E seconds \in Time \cup {MediaTime - 1, MediaTime + 1} : Seek(seconds)

Settle == MediaReady \/ MediaFails \/ PlayBlocked

PlayerNext ==
    \/ Cardinality(rejected) <= MaxRejected /\ UserStep
    \/ \E a \in Audio : PlaybackArrives(a) \/ WaveformArrives(a)
    \/ \E width \in Widths : Resize(width)
    \/ Frame \/ Settle \/ MediaAdvances \/ TimeUpdate \/ MediaEnds
    \/ \E src \in rejected : PlayRejected(src)

PlayerSpec == PlayerInit /\ [][PlayerNext]_playerVars

\* A source that loads is loaded or fails, and a rejected promise runs its handler.
PlayerFairness ==
    /\ WF_playerVars(MediaReady \/ MediaFails)
    /\ \A a \in Audio, n \in 1..Max({MaxUrl[b] : b \in Audio}) :
         WF_playerVars(PlayRejected([id |-> a, stream |-> n]))
FairPlayerSpec == PlayerSpec /\ PlayerFairness

-----------------------------------------------------------------------------
(* Properties                                                              *)

\* Every variable has its type.
PlayerTypeOK ==
    /\ player \in [track: Track \cup {None}, queue: Seq(Track), index: Nat,
                   playing: BOOLEAN, error: BOOLEAN, time: Time]
    /\ media \in Element \cup {None}
    /\ rejected \subseteq Source
    /\ page \in Page
    /\ urls \in [Audio -> Nat]
    /\ waves \in [Audio -> BOOLEAN]
    /\ canvas # None => /\ page \in Audio
                        /\ canvas.width \in Widths
                        /\ canvas.head \in Time
                        /\ canvas.energy \in 0..Loudest

\* The current track is the queue's, also after its waveform was filled in late: going
\* on and coming back loses nothing of it (playerStore.ts:61-66).
QueueAgrees ==
    player.track # None => /\ player.index \in DOMAIN player.queue
                           /\ player.queue[player.index] = player.track

\* What is loaded is the current track under the URL the player holds, and it only
\* sounds while the store says that it plays.
SoundIsCurrent ==
    media # None =>
        /\ player.track # None
        /\ media.src = (IF player.track.stream = 0 THEN None ELSE SourceOf(player.track))
        /\ ~media.paused => player.playing

\* A track only ever carries its own waveform, whichever answer came last.
WaveformIsOwn ==
    /\ player.track # None => player.track.wave \in {None, player.track.id}
    /\ \A i \in DOMAIN player.queue : player.queue[i].wave \in {None, player.queue[i].id}

\* A waveform that arrives late does not disturb the sound (playerStore.ts:25).
HydrationIsSilent ==
    [][\A a \in Audio : waves'[a] /\ ~waves[a] => UNCHANGED media]_playerVars

\* The picture is that of the page's own audio at the width it has, and nothing in it
\* is made up (LiveWaveform.tsx:45-50).
PictureIsOwn ==
    (canvas # None /\ canvas.width > 0) =>
        /\ Pictures(canvas.bars, Peaks[page], BarCount(canvas.width, BarStep))
        /\ \E j \in DOMAIN Peaks[page] \cup {0} :
             canvas.energy <= (IF j = 0 THEN 0 ELSE Amplitude(Peaks[page][j]))

\* Only the track that plays moves: the canvas of any other one lies still, and at the
\* start unless its track is the current one (LiveWaveform.tsx:9, 188-194).
StillUnlessPlaying ==
    (canvas # None /\ ~Live(player, page)) =>
        /\ canvas.energy = 0
        /\ ~IsCurrent(player, page) => canvas.head = 0

\* What is to play while it is still loading is heard in the end, or the player stops
\* saying that it plays (PersistentPlayer.tsx:62-64).
LoadingSettles ==
    (player.playing /\ media # None /\ media.state = "loading")
        ~> (Sounding(media) \/ ~player.playing \/ media = None)

\* The source of the next track is played again after it was loaded
\* (PersistentPlayer.tsx:62-64): a play() rejected for another source does not stop it.
NextIsPlayed ==
    [][\A src \in rejected :
         (src \notin rejected' /\ media # None /\ media.src # None) =>
             (player.playing /\ ~player'.playing => src = media.src)]_playerVars

=============================================================================
