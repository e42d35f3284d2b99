------------------------- MODULE BrowserFramesProofs -------------------------
(***************************************************************************)
(* The frames of a browser, proved for every set of frames: the frame        *)
(* objects, CefBrowserInfo's table and main_frame_ follow content, and the   *)
(* notifications that wait to be delivered say what the client lacks.        *)
(***************************************************************************)
EXTENDS BrowserFrames, SequenceTheorems, TLAPS

\* A frame without a renderer frame is one that was never made or has ended.
Ended == {"none", "dead", "deleted"}

SubLives == {"none", "speculative", "active", "cached", "deleted"}

-----------------------------------------------------------------------------
(* Content, and what CefBrowserInfo knows of it.                             *)

SubFramesHavePages ==
  \A s \in Subs :
    /\ rfh[s] \in SubLives
    /\ rfh[s] = "none" => parent[s] = None
    /\ rfh[s] \notin Ended =>
         parent[s] # None /\ rfh[parent[s]] \in {"active", "swapped", "cached", "leaving"}

BrowserFollowsLife ==
  /\ handler => browser = "open"
  /\ browser = "none" => \A f \in Frames : rfh[f] = "none"
  /\ browser = "open" /\ mainFrame = None => \A f \in Frames : rfh[f] = "none"
  /\ browser # "open" => mainFrame = None

MainIsCurrent ==
  browser = "open" => \A m \in Mains : rfh[m] \in Current <=> m = mainFrame

\* The table has the frames that live, with what content says of them.
EntriesFollowContent ==
  \A f \in Frames :
    /\ entry[f].known <=> browser = "open" /\ f \notin Excluded /\ rfh[f] \notin Ended
    /\ ~entry[f].known => entry[f] = Unmade
    /\ entry[f].known =>
         /\ entry[f].spec <=> rfh[f] = "speculative"
         /\ rfh[f] = "cached" => entry[f].cached
         /\ entry[f].cached => rfh[f] \in {"cached", "leaving"}

ContentInv ==
  SubFramesHavePages /\ BrowserFollowsLife /\ MainIsCurrent /\ EntriesFollowContent

-----------------------------------------------------------------------------
(* Frame objects.                                                            *)

ObjectsFit ==
  \A f \in Frames :
    /\ obj[f].host => obj[f].info
    /\ obj[f].bound => obj[f].host /\ entry[f].known /\ rfh[f] # "unborn"
    /\ obj[f].queued => obj[f].info /\ ~obj[f].bound
    /\ entry[f].known /\ obj[f].info => obj[f].host

ValidObjects ==
  /\ \A f \in Frames : obj[f].info =>
       /\ entry[f].known \/ f = mainFrame
       /\ f \in Mains => f = mainFrame \/ rfh[f] = "speculative"
  /\ \A s \in Subs : entry[s].known => obj[s].info
  /\ mainFrame # None => obj[mainFrame].info

ObjectInv == ~check /\ ObjectsFit /\ ValidObjects

-----------------------------------------------------------------------------
(* Notifications that wait to be delivered.                                  *)

\* A batch has each kind of notification once, in this order.
Rank(note) ==
  CASE note.type = "FrameCreated"     -> 1
    [] note.type = "FrameAttached"    -> 2
    [] note.type = "FrameDetached"    -> 3
    [] note.type = "FrameDestroyed"   -> 4
    [] note.type = "MainFrameChanged" -> 5

Has(notes, note) == \E i \in 1 .. Len(notes) : notes[i] = note

InOrder(notes) ==
  \A i, j \in 1 .. Len(notes) : i < j => Rank(notes[i]) < Rank(notes[j])

Waits(type, f)      == Has(queue, Note(type, f))
MainWaits(old, new) == Has(queue, MainNote(old, new))

\* The client hears of the frames.
Hears == handler \/ InCallbacks

FramesAreTold ==
  \A f \in Frames :
    /\ told[f].created \in {0, 1} /\ told[f].links \in {0, 1}
    /\ rfh[f] = "none" => told[f].created = 0 /\ told[f].links = 0
    /\ ~Waits("FrameAttached", f)
    /\ Waits("FrameCreated", f) => told[f].created = 0 /\ obj[f].info
    /\ Waits("FrameDetached", f) =>
         told[f].created = 1 /\ told[f].links = 1 /\ ~obj[f].bound
    /\ Waits("FrameDestroyed", f) => told[f].created = 1 /\ ~obj[f].info
    /\ Hears =>
         /\ told[f].links = 1 => obj[f].bound \/ Waits("FrameDetached", f)
         /\ obj[f].bound => told[f].links = 1
         /\ obj[f].info \/ entry[f].known => told[f].created = 1 \/ Waits("FrameCreated", f)
         /\ told[f].created = 1 /\ ~obj[f].info =>
              told[f].gone > 0 \/ Waits("FrameDestroyed", f)

MainIsTold ==
  /\ \A old, new \in Mains \cup {None} : MainWaits(old, new) =>
       /\ old = toldMain /\ new = mainFrame
       /\ old # None => ~obj[old].info /\ told[old].created = 1
  /\ Hears \/ toldMain # None =>
       toldMain = mainFrame \/ \E old, new \in Mains \cup {None} : MainWaits(old, new)
  /\ InCallbacks => browser # "none" /\ (browser = "open" => handler /\ mainFrame # None)
  /\ browser # "closing" /\ browser # "gone" /\ ~handler => toldMain = None

NoteInv == InOrder(queue) /\ FramesAreTold /\ MainIsTold

FramesInv == TypeOK /\ ContentInv /\ ObjectInv /\ NoteInv

-----------------------------------------------------------------------------
(* Batches of notifications.                                                 *)

LEMMA NotesAreNotes ==
  /\ \A type \in FrameNotes, f \in Frames : Note(type, f) \in Notes
  /\ \A old, new \in Mains \cup {None} : MainNote(old, new) \in Notes
  /\ \A m \in Notes : \/ m.type \in FrameNotes /\ m.frame \in Frames /\ m = Note(m.type, m.frame)
                      \/ /\ m.type = "MainFrameChanged"
                         /\ m.old \in Mains \cup {None} /\ m.new \in Mains \cup {None}
                         /\ m = MainNote(m.old, m.new)
  /\ \A m \in Notes : Rank(m) \in 1 .. 5
BY DEF Note, MainNote, Notes, FrameNotes, Rank

LEMMA NotesDiffer ==
  /\ \A type, other, f, g : Note(type, f) = Note(other, g) <=> type = other /\ f = g
  /\ \A a, b, c, d : MainNote(a, b) = MainNote(c, d) <=> a = c /\ b = d
  /\ \A type \in FrameNotes : \A f, a, b : Note(type, f) # MainNote(a, b)
<1>1. \A type, other, f, g : Note(type, f) = Note(other, g) => type = other /\ f = g
  <2>1. SUFFICES ASSUME NEW type, NEW other, NEW f, NEW g, Note(type, f) = Note(other, g)
                 PROVE  type = other /\ f = g
    OBVIOUS
  <2>2. Note(type, f).type = type /\ Note(type, f).frame = f
        /\ Note(other, g).type = other /\ Note(other, g).frame = g
    BY DEF Note
  <2> QED
    BY <2>1, <2>2
<1>2. \A a, b, c, d : MainNote(a, b) = MainNote(c, d) => a = c /\ b = d
  <2>1. SUFFICES ASSUME NEW a, NEW b, NEW c, NEW d, MainNote(a, b) = MainNote(c, d)
                 PROVE  a = c /\ b = d
    OBVIOUS
  <2>2. MainNote(a, b).old = a /\ MainNote(a, b).new = b
        /\ MainNote(c, d).old = c /\ MainNote(c, d).new = d
    BY DEF MainNote
  <2> QED
    BY <2>1, <2>2
<1>3. \A type \in FrameNotes : \A f, a, b : Note(type, f) # MainNote(a, b)
  BY DEF Note, MainNote, FrameNotes
<1> QED
  BY <1>1, <1>2, <1>3

LEMMA NoNote ==
  /\ <<>> \in Seq(Notes) /\ InOrder(<<>>)
  /\ \A m : ~Has(<<>>, m)
BY EmptySeq DEF InOrder, Has

LEMMA OneNote ==
  ASSUME NEW n \in Notes
  PROVE  /\ <<n>> \in Seq(Notes) /\ InOrder(<<n>>) /\ <<n>> # <<>>
         /\ \A m : Has(<<n>>, m) <=> m = n
<1>1. <<n>> \in Seq(Notes) /\ Len(<<n>>) = 1 /\ <<n>>[1] = n
  OBVIOUS
<1> QED
  BY <1>1 DEF InOrder, Has

\* Two parts of a batch, one behind the other.
LEMMA PartsFollow ==
  ASSUME NEW s \in Seq(Notes), NEW t \in Seq(Notes), InOrder(s), InOrder(t),
         \A m, n \in Notes : Has(s, m) /\ Has(t, n) => Rank(m) < Rank(n)
  PROVE  /\ s \o t \in Seq(Notes) /\ InOrder(s \o t)
         /\ \A m : Has(s \o t, m) <=> Has(s, m) \/ Has(t, m)
<1> DEFINE u == s \o t
<1>1. /\ u \in Seq(Notes) /\ Len(u) = Len(s) + Len(t) /\ Len(s) \in Nat /\ Len(t) \in Nat
      /\ \A i \in 1 .. Len(s) + Len(t) : u[i] = IF i <= Len(s) THEN s[i] ELSE t[i - Len(s)]
  BY ConcatProperties, LenProperties
<1> HIDE DEF u
<1>2. /\ \A i \in 1 .. Len(s) : u[i] = s[i] /\ i \in 1 .. Len(u) /\ s[i] \in Notes
      /\ \A j \in 1 .. Len(t) : u[j + Len(s)] = t[j] /\ j + Len(s) \in 1 .. Len(u) /\ t[j] \in Notes
      /\ \A i \in 1 .. Len(u) : \/ i \in 1 .. Len(s) /\ u[i] = s[i]
                                \/ i - Len(s) \in 1 .. Len(t) /\ u[i] = t[i - Len(s)]
  <2>1. ASSUME NEW i \in 1 .. Len(s)
        PROVE  u[i] = s[i] /\ i \in 1 .. Len(u) /\ s[i] \in Notes
    BY <1>1, ElementOfSeq
  <2>2. ASSUME NEW j \in 1 .. Len(t)
        PROVE  u[j + Len(s)] = t[j] /\ j + Len(s) \in 1 .. Len(u) /\ t[j] \in Notes
    <3>1. j + Len(s) \in 1 .. Len(s) + Len(t) /\ ~(j + Len(s) <= Len(s))
          /\ (j + Len(s)) - Len(s) = j
      BY <1>1
    <3>2. t[j] \in Notes
      BY ElementOfSeq
    <3> QED
      BY <1>1, <3>1, <3>2
  <2>3. ASSUME NEW i \in 1 .. Len(u)
        PROVE  \/ i \in 1 .. Len(s) /\ u[i] = s[i]
               \/ i - Len(s) \in 1 .. Len(t) /\ u[i] = t[i - Len(s)]
    BY <1>1
  <2> QED
    BY <2>1, <2>2, <2>3
<1>3. InOrder(u)
  <2>1. SUFFICES ASSUME NEW i \in 1 .. Len(u), NEW j \in 1 .. Len(u), i < j
                 PROVE  Rank(u[i]) < Rank(u[j])
    BY DEF InOrder
  <2>2. CASE j \in 1 .. Len(s)
    BY <1>1, <1>2, <2>1, <2>2 DEF InOrder
  <2>3. CASE i - Len(s) \in 1 .. Len(t)
    <3>1. j - Len(s) \in 1 .. Len(t) /\ i - Len(s) < j - Len(s)
      BY <1>1, <2>1, <2>3
    <3>2. u[i] = t[i - Len(s)] /\ u[j] = t[j - Len(s)]
      BY <1>1, <2>1, <2>3, <3>1
    <3> QED
      BY <2>3, <3>1, <3>2 DEF InOrder
  <2>4. CASE i \in 1 .. Len(s) /\ j - Len(s) \in 1 .. Len(t)
    <3>1. Has(s, s[i]) /\ Has(t, t[j - Len(s)]) /\ s[i] \in Notes /\ t[j - Len(s)] \in Notes
      BY <1>2, <2>4 DEF Has
    <3>2. u[i] = s[i] /\ u[j] = t[j - Len(s)]
      BY <1>1, <2>1, <2>4
    <3> QED
      BY <3>1, <3>2
  <2> QED
    BY <1>2, <2>2, <2>3, <2>4
<1>4. ASSUME NEW m
      PROVE  Has(u, m) <=> Has(s, m) \/ Has(t, m)
  <2>1. ASSUME Has(u, m)
        PROVE  Has(s, m) \/ Has(t, m)
    BY <1>2, <2>1 DEF Has
  <2>2. ASSUME Has(s, m) \/ Has(t, m)
        PROVE  Has(u, m)
    BY <1>2, <2>2 DEF Has
  <2> QED
    BY <2>1, <2>2
<1> QED
  BY <1>1, <1>3, <1>4 DEF u

\* The first notification is delivered, the others stay.
LEMMA HeadLeaves ==
  ASSUME NEW s \in Seq(Notes), InOrder(s), s # <<>>
  PROVE  /\ Head(s) \in Notes /\ Has(s, Head(s))
         /\ Tail(s) \in Seq(Notes) /\ InOrder(Tail(s))
         /\ \A m \in Notes : Has(s, m) => m = Head(s) \/ Rank(Head(s)) < Rank(m)
         /\ \A m \in Notes : Has(Tail(s), m) <=> Has(s, m) /\ m # Head(s)
<1>1. /\ Head(s) \in Notes /\ Tail(s) \in Seq(Notes) /\ Len(Tail(s)) = Len(s) - 1
      /\ \A i \in 1 .. Len(Tail(s)) : Tail(s)[i] = s[i + 1]
  BY HeadTailProperties
<1>2. Len(s) \in Nat \ {0} /\ Head(s) = s[1] /\ \A i \in 1 .. Len(s) : s[i] \in Notes
  BY EmptySeq, LenProperties, ElementOfSeq
<1> DEFINE t == Tail(s)
           h == Head(s)
<1> HIDE DEF t, h
<1>3. /\ t \in Seq(Notes) /\ Len(t) = Len(s) - 1 /\ h = s[1]
      /\ \A i \in 1 .. Len(t) : t[i] = s[i + 1]
  BY <1>1, <1>2 DEF t, h
<1>4. InOrder(t)
  BY <1>2, <1>3 DEF InOrder
<1>5. \A i \in 2 .. Len(s) : Rank(h) < Rank(s[i])
  BY <1>2, <1>3 DEF InOrder
<1>6. \A m \in Notes : Has(s, m) => m = h \/ Rank(h) < Rank(m)
  BY <1>2, <1>3, <1>5 DEF Has
<1>7. \A m \in Notes : Has(t, m) <=> Has(s, m) /\ m # h
  <2>1. TAKE m \in Notes
  <2>2. ASSUME Has(t, m)
        PROVE  Has(s, m) /\ m # h
    <3>1. PICK i \in 1 .. Len(t) : t[i] = m
      BY <2>2 DEF Has
    <3>2. i + 1 \in 2 .. Len(s) /\ s[i + 1] = m
      BY <1>2, <1>3, <3>1
    <3>3. Rank(h) < Rank(m) /\ Rank(h) \in 1 .. 5
      BY <1>2, <1>3, <1>5, <3>2, NotesAreNotes
    <3>4. m # h
      BY <3>3
    <3> QED
      BY <1>2, <3>2, <3>4 DEF Has
  <2>3. ASSUME Has(s, m), m # h
        PROVE  Has(t, m)
    <3>1. PICK i \in 1 .. Len(s) : s[i] = m
      BY <2>3 DEF Has
    <3>2. i # 1
      BY <1>3, <2>3, <3>1
    <3>3. i - 1 \in 1 .. Len(t) /\ t[i - 1] = m
      BY <1>2, <1>3, <3>1, <3>2
    <3> QED
      BY <3>3 DEF Has
  <2> QED
    BY <2>2, <2>3
<1>8. Has(s, h)
  BY <1>2, <1>3 DEF Has
<1> QED
  BY <1>1, <1>4, <1>6, <1>7, <1>8 DEF t, h

\* A queue is empty when nothing waits in it.
LEMMA EmptyHasNothing ==
  ASSUME NEW s \in Seq(Notes)
  PROVE  s = <<>> <=> \A m \in Notes : ~Has(s, m)
BY EmptySeq, LenProperties, ElementOfSeq DEF Has

\* What a step has to announce: the frame objects it makes, the connections and
\* the frame objects it ends, and another main frame.
IsNews(New, m) ==
  \/ \E f \in New : m = Note("FrameCreated", f)
  \/ \E f \in Frames : obj[f].bound /\ ~obj'[f].bound /\ m = Note("FrameDetached", f)
  \/ \E f \in Frames : obj[f].info /\ ~obj'[f].info /\ m = Note("FrameDestroyed", f)
  \/ mainFrame' # mainFrame /\ m = MainNote(mainFrame, mainFrame')

Announces(New) ==
  /\ queue' \in Seq(Notes) /\ InOrder(queue')
  /\ \A m \in Notes : Has(queue', m) <=> handler /\ IsNews(New, m)

LEMMA Collected ==
  ASSUME queue = <<>>, NEW notes \in Seq(Notes), InOrder(notes), Collect(notes)
  PROVE  /\ queue' \in Seq(Notes) /\ InOrder(queue')
         /\ \A m : Has(queue', m) <=> handler /\ Has(notes, m)
<1>1. queue' = IF handler THEN notes ELSE <<>>
  BY ConcatEmptySeq DEF Collect
<1> QED
  BY <1>1, NoNote

LEMMA DetachNotesAre ==
  ASSUME NEW f \in Frames, NEW h \in FrameHost, NEW isCurrentMain \in BOOLEAN
  PROVE  LET notes == DetachNotes(f, h, isCurrentMain) IN
         /\ notes \in Seq(Notes) /\ InOrder(notes)
         /\ \A m : Has(notes, m) <=>
              \/ h.bound /\ m = Note("FrameDetached", f)
              \/ ~isCurrentMain /\ h.info /\ m = Note("FrameDestroyed", f)
<1> DEFINE a == Note("FrameDetached", f)
           b == Note("FrameDestroyed", f)
           s == If(h.bound, <<a>>)
           t == If(~isCurrentMain /\ h.info, <<b>>)
<1>1. a \in Notes /\ b \in Notes /\ Rank(a) = 3 /\ Rank(b) = 4
  BY NotesAreNotes DEF FrameNotes, Rank, Note
<1> HIDE DEF a, b
<1>2. /\ s \in Seq(Notes) /\ InOrder(s)
      /\ \A m : Has(s, m) <=> h.bound /\ m = a
  BY <1>1, OneNote, NoNote DEF If
<1>3. /\ t \in Seq(Notes) /\ InOrder(t)
      /\ \A m : Has(t, m) <=> ~isCurrentMain /\ h.info /\ m = b
  BY <1>1, OneNote, NoNote DEF If
<1> HIDE DEF s, t
<1>4. \A m, n \in Notes : Has(s, m) /\ Has(t, n) => Rank(m) < Rank(n)
  BY <1>1, <1>2, <1>3
<1>5. s \o t \in Seq(Notes) /\ InOrder(s \o t)
      /\ \A m : Has(s \o t, m) <=> Has(s, m) \/ Has(t, m)
  BY <1>2, <1>3, <1>4, PartsFollow
<1>6. DetachNotes(f, h, isCurrentMain) = s \o t
  BY DEF DetachNotes, s, t, a, b
<1> QED
  BY <1>2, <1>3, <1>5, <1>6 DEF a, b

\* The parts of a batch that ends with a change of the main frame.
LEMMA MainBatch ==
  ASSUME NEW before \in Seq(Notes), InOrder(before), NEW New \in SUBSET Frames,
         \A m : Has(before, m) <=> \E g \in New : m = Note("FrameCreated", g),
         NEW ends \in Seq(Notes), InOrder(ends),
         \A m \in Notes : Has(ends, m) => Rank(m) \in {3, 4},
         NEW old \in Mains \cup {None}, NEW f \in Mains \cup {None}
  PROVE  LET notes == before \o ends \o <<MainNote(old, f)>> IN
         /\ notes \in Seq(Notes) /\ InOrder(notes)
         /\ \A m : Has(notes, m) <=> Has(before, m) \/ Has(ends, m) \/ m = MainNote(old, f)
<1> DEFINE s == before \o ends
           t == <<MainNote(old, f)>>
<1>1. /\ \A m : Has(before, m) => m \in Notes /\ Rank(m) = 1
      /\ MainNote(old, f) \in Notes /\ Rank(MainNote(old, f)) = 5
  BY NotesAreNotes DEF FrameNotes, Rank, Note, MainNote
<1>2. s \in Seq(Notes) /\ InOrder(s) /\ \A m : Has(s, m) <=> Has(before, m) \/ Has(ends, m)
  <2>1. \A m, n \in Notes : Has(before, m) /\ Has(ends, n) => Rank(m) < Rank(n)
    BY <1>1
  <2> QED
    BY <2>1, PartsFollow
<1>3. t \in Seq(Notes) /\ InOrder(t) /\ \A m : Has(t, m) <=> m = MainNote(old, f)
  BY <1>1, OneNote
<1> HIDE DEF s, t
<1>4. \A m, n \in Notes : Has(s, m) /\ Has(t, n) => Rank(m) < Rank(n)
  BY <1>1, <1>2, <1>3
<1>5. s \o t \in Seq(Notes) /\ InOrder(s \o t)
      /\ \A m : Has(s \o t, m) <=> Has(s, m) \/ Has(t, m)
  BY <1>2, <1>3, <1>4, PartsFollow
<1> QED
  BY <1>2, <1>3, <1>5 DEF s, t

LEMMA DetachedIs ==
  ASSUME NEW h \in FrameHost
  PROVE  /\ Detached(h, FALSE) \in FrameHost
         /\ ~Detached(h, FALSE).host /\ ~Detached(h, FALSE).bound
         /\ ~Detached(h, FALSE).info /\ ~Detached(h, FALSE).queued
         /\ Detached(h, TRUE) \in FrameHost
         /\ ~Detached(h, TRUE).host /\ ~Detached(h, TRUE).bound
         /\ (Detached(h, TRUE).info <=> h.info) /\ (Detached(h, TRUE).queued <=> h.queued)
BY DEF Detached, FrameHost

\* SetMainFrame announces the end of the old main frame and the change.
LEMMA SetMainAnnounces ==
  ASSUME TypeOK, queue = <<>>,
         NEW objs \in [Frames -> FrameHost], NEW f \in Mains \cup {None}, f # mainFrame,
         NEW before \in Seq(Notes), InOrder(before), NEW New \in SUBSET Frames,
         \A m : Has(before, m) <=> \E g \in New : m = Note("FrameCreated", g),
         \A g \in Frames : objs[g].bound = obj[g].bound /\ (obj[g].info => objs[g].info),
         mainFrame # None => obj[mainFrame].info,
         SetMainFrame(objs, f, before)
  PROVE  /\ Announces(New)
         /\ mainFrame' = f
         /\ obj' = IF mainFrame = None THEN objs
                   ELSE [objs EXCEPT ![mainFrame] = Detached(@, FALSE)]
<1> DEFINE old == mainFrame
           ends == IF old = None THEN <<>> ELSE DetachNotes(old, objs[old], FALSE)
<1>1. /\ mainFrame' = f /\ Collect(before \o ends \o <<MainNote(old, f)>>)
      /\ obj' = IF old = None THEN objs ELSE [objs EXCEPT ![old] = Detached(@, FALSE)]
  BY DEF SetMainFrame
<1>2. old \in Mains \cup {None} /\ (old # None => old \in Frames /\ objs[old] \in FrameHost)
  BY DEF TypeOK, Frames
<1>3. /\ ends \in Seq(Notes) /\ InOrder(ends)
      /\ \A m : Has(ends, m) <=>
           /\ old # None
           /\ \/ objs[old].bound /\ m = Note("FrameDetached", old)
              \/ objs[old].info /\ m = Note("FrameDestroyed", old)
  BY <1>2, DetachNotesAre, NoNote
<1>4. \A m \in Notes : Has(ends, m) => Rank(m) \in {3, 4}
  <2>1. Rank(Note("FrameDetached", old)) = 3 /\ Rank(Note("FrameDestroyed", old)) = 4
    BY DEF Rank, Note
  <2> HIDE DEF ends
  <2> QED
    BY <1>3, <2>1
<1> HIDE DEF ends
<1> DEFINE notes == before \o ends \o <<MainNote(old, f)>>
<1>5. /\ notes \in Seq(Notes) /\ InOrder(notes)
      /\ \A m : Has(notes, m) <=> Has(before, m) \/ Has(ends, m) \/ m = MainNote(old, f)
  BY <1>2, <1>3, <1>4, MainBatch
<1> HIDE DEF notes
<1>6. /\ queue' \in Seq(Notes) /\ InOrder(queue')
      /\ \A m : Has(queue', m) <=> handler /\ Has(notes, m)
  BY <1>1, <1>5, Collected DEF notes
<1>7. ASSUME NEW g \in Frames
      PROVE  /\ obj[g].bound /\ ~obj'[g].bound <=> g = old /\ objs[old].bound
             /\ obj[g].info /\ ~obj'[g].info <=> g = old /\ objs[old].info
  <2>1. obj[g] \in FrameHost /\ objs[g] \in FrameHost /\ None \notin Frames
    BY FramesAssumption DEF TypeOK
  <2>2. CASE g = old
    <3>1. old # None /\ obj'[g] = Detached(objs[g], FALSE)
      BY <1>1, <2>1, <2>2
    <3>2. ~Detached(objs[g], FALSE).bound /\ ~Detached(objs[g], FALSE).info
      BY <2>1, DetachedIs
    <3>4. ~obj'[g].bound /\ ~obj'[g].info
      BY <3>1, <3>2
    <3>3. objs[g].bound = obj[g].bound /\ obj[g].info /\ objs[g].info
      BY <2>2, <3>1
    <3> QED
      BY <2>2, <3>3, <3>4
  <2>3. CASE g # old
    <3>1. obj'[g] = objs[g]
      BY <1>1, <2>3
    <3> QED
      BY <2>1, <2>3, <3>1 DEF FrameHost
  <2> QED
    BY <2>2, <2>3
<1>8. ASSUME NEW m \in Notes
      PROVE  Has(notes, m) <=> IsNews(New, m)
  <2>1. Has(ends, m) <=>
           \/ \E g \in Frames : obj[g].bound /\ ~obj'[g].bound /\ m = Note("FrameDetached", g)
           \/ \E g \in Frames : obj[g].info /\ ~obj'[g].info /\ m = Note("FrameDestroyed", g)
    <3>1. old = None => ~Has(ends, m) /\ old \notin Frames
      BY <1>3, FramesAssumption
    <3> QED
      BY <1>2, <1>3, <1>7, <3>1
  <2> QED
    BY <1>1, <1>5, <2>1 DEF IsNews
<1> QED
  BY <1>1, <1>6, <1>8 DEF Announces

\* With the main frame kept, what is announced is what the caller says.
LEMMA KeepMainAnnounces ==
  ASSUME queue = <<>>, NEW objs, NEW notes \in Seq(Notes), InOrder(notes),
         KeepMainFrame(objs, notes), NEW New,
         \A m \in Notes : Has(notes, m) <=> IsNews(New, m)
  PROVE  Announces(New) /\ obj' = objs /\ mainFrame' = mainFrame
<1>1. Collect(notes) /\ obj' = objs /\ mainFrame' = mainFrame
  BY DEF KeepMainFrame
<1> QED
  BY <1>1, Collected DEF Announces

-----------------------------------------------------------------------------
(* Steps that announce what they change keep the client informed.            *)

\* A step of the UI thread that is not inside callbacks.
BatchStep(New) ==
  /\ browser = "open" /\ queue = <<>>
  /\ UNCHANGED clientVars
  /\ Announces(New)
  /\ \A f \in New : f \in Frames /\ rfh[f] = "none" /\ rfh'[f] # "none" /\ obj'[f].info
  /\ \A f \in Frames :
       /\ rfh'[f] = "none" => rfh[f] = "none"
       /\ obj'[f].bound => obj[f].bound
       /\ obj'[f].info \/ entry'[f].known => f \in New \/ entry[f].known \/ obj[f].info
  /\ mainFrame' # mainFrame /\ mainFrame # None => ~obj'[mainFrame].info
  /\ \/ handler' = handler /\ browser' = "open" /\ mainFrame' # None
     \/ ~handler' /\ browser' = "closing"

LEMMA BatchKeepsNotes ==
  ASSUME TypeOK, ObjectInv, NoteInv, TypeOK', NEW New, BatchStep(New)
  PROVE  NoteInv'
<1>1. /\ browser = "open" /\ queue = <<>> /\ told' = told /\ toldMain' = toldMain
      /\ queue' \in Seq(Notes) /\ InOrder(queue')
      /\ \A m \in Notes : Has(queue', m) <=> handler /\ IsNews(New, m)
  BY DEF BatchStep, Announces, clientVars
<1>2. Hears' => handler
  <2>1. handler' => handler
    BY DEF BatchStep, TypeOK
  <2>2. InCallbacks' => \E m \in Notes : Has(queue', m)
    BY <1>1, EmptyHasNothing DEF InCallbacks
  <2> QED
    BY <1>1, <2>1, <2>2 DEF Hears
<1>3. \A m : ~Has(queue, m)
  BY <1>1, NoNote
<1>4. \A f \in Frames :
        /\ Has(queue', Note("FrameCreated", f)) <=> handler /\ f \in New
        /\ Has(queue', Note("FrameDetached", f)) <=> handler /\ obj[f].bound /\ ~obj'[f].bound
        /\ Has(queue', Note("FrameDestroyed", f)) <=> handler /\ obj[f].info /\ ~obj'[f].info
        /\ ~Has(queue', Note("FrameAttached", f))
  <2>1. TAKE f \in Frames
  <2>2. \A type \in FrameNotes : Note(type, f) \in Notes
    BY NotesAreNotes
  <2>3. /\ IsNews(New, Note("FrameCreated", f)) <=> f \in New
        /\ IsNews(New, Note("FrameDetached", f)) <=> obj[f].bound /\ ~obj'[f].bound
        /\ IsNews(New, Note("FrameDestroyed", f)) <=> obj[f].info /\ ~obj'[f].info
        /\ ~IsNews(New, Note("FrameAttached", f))
    BY NotesDiffer DEF IsNews, FrameNotes
  <2> QED
    BY <1>1, <2>2, <2>3 DEF FrameNotes
<1>5. \A old, new \in Mains \cup {None} :
        Has(queue', MainNote(old, new)) <=>
          handler /\ mainFrame' # mainFrame /\ old = mainFrame /\ new = mainFrame'
  <2>1. TAKE old, new \in Mains \cup {None}
  <2>2. MainNote(old, new) \in Notes
    BY NotesAreNotes
  <2>3. IsNews(New, MainNote(old, new)) <=>
          mainFrame' # mainFrame /\ old = mainFrame /\ new = mainFrame'
    BY NotesDiffer DEF IsNews, FrameNotes
  <2> QED
    BY <1>1, <2>2, <2>3
<1>6. FramesAreTold'
  <2>1. SUFFICES ASSUME NEW f \in Frames
                 PROVE  /\ told[f].created \in {0, 1} /\ told[f].links \in {0, 1}
                        /\ rfh'[f] = "none" => told[f].created = 0 /\ told[f].links = 0
                        /\ f \in New => told[f].created = 0 /\ obj'[f].info
                        /\ handler /\ obj[f].bound /\ ~obj'[f].bound =>
                             told[f].created = 1 /\ told[f].links = 1
                        /\ handler /\ obj[f].info /\ ~obj'[f].info => told[f].created = 1
                        /\ Hears' =>
                             /\ told[f].links = 1 => obj[f].bound
                             /\ obj'[f].bound => told[f].links = 1
                             /\ obj'[f].info \/ entry'[f].known =>
                                  told[f].created = 1 \/ f \in New
                             /\ told[f].created = 1 /\ ~obj'[f].info =>
                                  told[f].gone > 0 \/ obj[f].info
    BY <1>1, <1>2, <1>4 DEF FramesAreTold, Waits
  <2>2. /\ told[f].created \in {0, 1} /\ told[f].links \in {0, 1}
        /\ rfh[f] = "none" => told[f].created = 0 /\ told[f].links = 0
        /\ handler =>
             /\ told[f].links = 1 => obj[f].bound
             /\ obj[f].bound => told[f].links = 1
             /\ obj[f].info \/ entry[f].known => told[f].created = 1
             /\ told[f].created = 1 /\ ~obj[f].info => told[f].gone > 0
    BY <1>3 DEF NoteInv, FramesAreTold, Hears, Waits
  <2>3. obj[f].bound => obj[f].info
    BY DEF ObjectInv, ObjectsFit
  <2>4. /\ rfh'[f] = "none" => rfh[f] = "none"
        /\ f \in New => rfh[f] = "none" /\ obj'[f].info
        /\ obj'[f].bound => obj[f].bound
        /\ obj'[f].info \/ entry'[f].known => f \in New \/ entry[f].known \/ obj[f].info
    BY DEF BatchStep
  <2> QED
    BY <1>2, <2>2, <2>3, <2>4
<1>7. MainIsTold'
  <2>1. /\ handler => toldMain = mainFrame
        /\ ~handler => toldMain = None
        /\ mainFrame \in Mains \cup {None} /\ mainFrame' \in Mains \cup {None}
    BY <1>1, <1>3 DEF NoteInv, MainIsTold, MainWaits, Hears, TypeOK
  <2>2. handler /\ mainFrame # None => told[mainFrame].created = 1
    <3>1. mainFrame # None => mainFrame \in Frames /\ obj[mainFrame].info
      BY <2>1 DEF Frames, ObjectInv, ValidObjects
    <3> QED
      BY <1>3, <3>1 DEF NoteInv, FramesAreTold, Hears, Waits
  <2>3. \A old, new \in Mains \cup {None} : MainWaits(old, new)' =>
          /\ old = toldMain' /\ new = mainFrame'
          /\ old # None => ~obj'[old].info /\ told'[old].created = 1
    BY <1>1, <1>5, <2>1, <2>2 DEF BatchStep, MainWaits
  <2>4. Hears' \/ toldMain' # None =>
          toldMain' = mainFrame' \/ \E old, new \in Mains \cup {None} : MainWaits(old, new)'
    BY <1>1, <1>2, <1>5, <2>1 DEF MainWaits
  <2>5. InCallbacks' => browser' # "none" /\ (browser' = "open" => handler' /\ mainFrame' # None)
    <3>1. InCallbacks' => handler
      BY <1>2 DEF Hears
    <3>2. \/ (handler' <=> handler) /\ browser' = "open" /\ mainFrame' # None
          \/ browser' = "closing"
      BY DEF BatchStep
    <3> QED
      BY <3>1, <3>2
  <2>6. browser' # "closing" /\ browser' # "gone" /\ ~handler' => toldMain' = None
    BY <1>1, <2>1 DEF BatchStep
  <2> QED
    BY <2>3, <2>4, <2>5, <2>6 DEF MainIsTold
<1> QED
  BY <1>1, <1>6, <1>7 DEF NoteInv

\* A step that changes nothing the client is told about.
LEMMA QuietKeepsNotes ==
  ASSUME TypeOK, NoteInv, UNCHANGED clientVars, queue' = queue, mainFrame' = mainFrame,
         browser' = browser, handler' = handler,
         \A f \in Frames : /\ rfh'[f] = "none" => rfh[f] = "none"
                           /\ obj'[f].bound = obj[f].bound /\ obj'[f].info = obj[f].info
                           /\ entry'[f].known = entry[f].known
  PROVE  NoteInv'
<1>1. told' = told /\ toldMain' = toldMain /\ (Hears' <=> Hears) /\ (InCallbacks' <=> InCallbacks)
  BY DEF clientVars, Hears, InCallbacks
<1>2. FramesAreTold'
  BY <1>1 DEF NoteInv, FramesAreTold, Waits
<1>3. MainIsTold'
  BY <1>1 DEF NoteInv, MainIsTold, MainWaits, Frames
<1> QED
  BY <1>2, <1>3 DEF NoteInv

-----------------------------------------------------------------------------
(* New frames.                                                               *)

LEMMA StateTypes ==
  ASSUME TypeOK
  PROVE  /\ Frames = Mains \cup Subs /\ Mains \cap Subs = {} /\ None \notin Frames
         /\ Excluded \subseteq Subs
         /\ \A f \in Frames : /\ rfh[f] \in Lives /\ entry[f] \in FrameInfo
                              /\ obj[f] \in FrameHost /\ told[f] \in View
         /\ rfh \in [Frames -> Lives] /\ entry \in [Frames -> FrameInfo]
         /\ obj \in [Frames -> FrameHost] /\ told \in [Frames -> View]
         /\ parent \in [Subs -> Mains \cup {None}]
         /\ mainFrame \in Mains \cup {None} /\ toldMain \in Mains \cup {None}
         /\ handler \in BOOLEAN /\ tearing \in BOOLEAN /\ check \in BOOLEAN
BY FramesAssumption DEF TypeOK, Frames

LEMMA IdleIsQuiet ==
  ASSUME Content
  PROVE  queue = <<>> /\ browser = "open" /\ ~Swapping /\ ~Restoring
BY DEF Content, Idle, InCallbacks

Fresh == [host |-> TRUE, info |-> TRUE, bound |-> FALSE, queued |-> FALSE]

\* What MaybeCreateFrame does for a host it does not know.
LEMMA NewFrameIs ==
  ASSUME FramesInv, queue = <<>>, NEW f \in Frames, NEW spec \in BOOLEAN,
         ~entry[f].known, rfh[f] = "none", f \notin Excluded, MaybeCreateFrame(f, spec),
         f \in Mains /\ ~spec => mainFrame = None,
         (f \in Mains /\ spec) \/ f \in Subs => mainFrame # None
  PROVE  /\ entry' = [entry EXCEPT ![f] = [known |-> TRUE, spec |-> spec, cached |-> FALSE]]
         /\ obj' = [obj EXCEPT ![f] = Fresh]
         /\ mainFrame' = IF f \in Mains /\ ~spec THEN f ELSE mainFrame
         /\ Announces({f})
         /\ check' = check /\ browser' = browser /\ handler' = handler
         /\ UNCHANGED <<navVars, clientVars>>
<1> DEFINE objs == [obj EXCEPT ![f] = [host |-> TRUE, info |-> TRUE, bound |-> FALSE,
                                       queued |-> FALSE]]
           note == <<Note("FrameCreated", f)>>
<1>1. /\ IF f \in Mains /\ ~spec THEN SetMainFrame(objs, f, note)
                                 ELSE KeepMainFrame(objs, note)
      /\ entry' = [entry EXCEPT ![f] = [known |-> TRUE, spec |-> spec, cached |-> FALSE]]
      /\ check' = check /\ browser' = browser /\ handler' = handler
      /\ UNCHANGED <<navVars, clientVars>>
  BY DEF MaybeCreateFrame, NewFrame
<1>2. Note("FrameCreated", f) \in Notes
  BY NotesAreNotes DEF FrameNotes
<1>3. /\ note \in Seq(Notes) /\ InOrder(note)
      /\ \A m : Has(note, m) <=> \E g \in {f} : m = Note("FrameCreated", g)
  BY <1>2, OneNote
<1>4. mainFrame # f /\ ~obj[f].info /\ ~obj[f].bound
  <2>1. mainFrame # f
    <3>1. f # None /\ mainFrame \in Mains \cup {None} /\ (f \in Subs => f \notin Mains)
      BY StateTypes DEF FramesInv
    <3>2. mainFrame # None => browser = "open"
      BY DEF FramesInv, ContentInv, BrowserFollowsLife
    <3>3. f \in Mains /\ mainFrame = f => rfh[f] \in Current
      BY <3>1, <3>2 DEF FramesInv, ContentInv, MainIsCurrent
    <3> QED
      BY <3>1, <3>3 DEF Current
  <2>2. ~obj[f].info
    BY <2>1 DEF FramesInv, ObjectInv, ValidObjects
  <2>3. ~obj[f].bound
    BY <2>2 DEF FramesInv, ObjectInv, ObjectsFit
  <2> QED
    BY <2>1, <2>2, <2>3
<1>5. /\ objs \in [Frames -> FrameHost] /\ objs[f].info /\ ~objs[f].bound
      /\ \A g \in Frames \ {f} : objs[g] = obj[g]
  BY StateTypes DEF FramesInv, FrameHost
<1>6. objs = [obj EXCEPT ![f] = Fresh]
  BY DEF Fresh
<1> HIDE DEF objs, note
<1>7. CASE f \in Mains /\ ~spec
  <2>1. \A g \in Frames : objs[g].bound = obj[g].bound /\ (obj[g].info => objs[g].info)
    <3>1. objs[f] \in FrameHost /\ obj[f] \in FrameHost
      BY <1>5, StateTypes DEF FramesInv
    <3>2. objs[f].bound = obj[f].bound
      BY <1>4, <1>5, <3>1 DEF FrameHost
    <3> QED
      BY <1>4, <1>5, <3>2
  <2>2. Announces({f}) /\ mainFrame' = f /\ obj' = objs
    BY <1>1, <1>3, <1>4, <1>5, <1>7, <2>1, SetMainAnnounces DEF FramesInv
  <2> QED
    BY <1>1, <1>6, <1>7, <2>2
<1>8. CASE ~(f \in Mains /\ ~spec)
  <2>1. obj' = objs /\ mainFrame' = mainFrame
    BY <1>1, <1>8 DEF KeepMainFrame
  <2>2. \A m \in Notes : Has(note, m) <=> IsNews({f}, m)
    <3>1. \A g \in Frames : /\ ~(obj[g].bound /\ ~obj'[g].bound)
                            /\ ~(obj[g].info /\ ~obj'[g].info)
      BY <1>4, <1>5, <2>1
    <3> QED
      BY <1>3, <2>1, <3>1 DEF IsNews
  <2>3. Announces({f})
    BY <1>1, <1>3, <1>8, <2>2, KeepMainAnnounces
  <2> QED
    BY <1>1, <1>6, <1>8, <2>1, <2>3
<1> QED
  BY <1>7, <1>8

\* The object of a new frame fits, and the client will hear of it.
LEMMA NewFrameKeeps ==
  ASSUME FramesInv, queue = <<>>, NEW f \in Frames, NEW spec \in BOOLEAN,
         rfh[f] = "none", f \notin Excluded, MaybeCreateFrame(f, spec), browser = "open",
         f \in Mains /\ ~spec => mainFrame = None,
         (f \in Mains /\ spec) \/ f \in Subs => mainFrame # None,
         NEW life \in {"unborn", "speculative", "active"}, Turn(f, life),
         spec <=> life = "speculative",
         TypeOK', ContentInv'
  PROVE  ObjectInv' /\ NoteInv'
<1>1. ~entry[f].known
  BY DEF FramesInv, ContentInv, EntriesFollowContent, Ended
<1>2. /\ entry' = [entry EXCEPT ![f] = [known |-> TRUE, spec |-> spec, cached |-> FALSE]]
      /\ obj' = [obj EXCEPT ![f] = Fresh]
      /\ mainFrame' = IF f \in Mains /\ ~spec THEN f ELSE mainFrame
      /\ Announces({f})
      /\ check' = check /\ browser' = browser /\ handler' = handler
      /\ UNCHANGED <<navVars, clientVars>>
  BY <1>1, NewFrameIs
<1>3. rfh' = [rfh EXCEPT ![f] = life]
  BY DEF Turn
<1>4. /\ obj'[f].host /\ obj'[f].info /\ ~obj'[f].bound /\ ~obj'[f].queued
      /\ entry'[f].known /\ rfh'[f] = life
      /\ \A g \in Frames \ {f} : obj'[g] = obj[g] /\ entry'[g] = entry[g] /\ rfh'[g] = rfh[g]
  BY <1>2, <1>3, StateTypes DEF FramesInv, Fresh
<1>5. ObjectInv'
  <2>1. ObjectsFit'
    BY <1>4 DEF FramesInv, ObjectInv, ObjectsFit
  <2>2. ValidObjects'
    <3>1. /\ \/ mainFrame' = mainFrame
             \/ mainFrame = None /\ mainFrame' = f
          /\ f \in Mains => mainFrame' = f \/ rfh'[f] = "speculative"
      BY <1>2, <1>4
    <3>2. mainFrame' # None => mainFrame' \in Frames /\ obj'[mainFrame'].info
      BY <1>4, <3>1, StateTypes DEF FramesInv, ObjectInv, ValidObjects
    <3>3. \A s \in Subs : s \in Frames /\ (entry'[s].known => obj'[s].info)
      BY <1>4, StateTypes DEF FramesInv, ObjectInv, ValidObjects
    <3>4. ASSUME NEW g \in Frames, obj'[g].info
          PROVE  /\ entry'[g].known \/ g = mainFrame'
                 /\ g \in Mains => g = mainFrame' \/ rfh'[g] = "speculative"
      <4>1. CASE g = f
        BY <1>4, <3>1, <4>1
      <4>2. CASE g # f
        <5>1. /\ entry[g].known \/ g = mainFrame
              /\ g \in Mains => g = mainFrame \/ rfh[g] = "speculative"
          BY <1>4, <3>4, <4>2 DEF FramesInv, ObjectInv, ValidObjects
        <5>2. g # None
          BY StateTypes DEF FramesInv
        <5> QED
          BY <1>4, <3>1, <4>2, <5>1, <5>2
      <4> QED
        BY <4>1, <4>2
    <3> QED
      BY <3>2, <3>3, <3>4 DEF ValidObjects
  <2> QED
    BY <1>2, <2>1, <2>2 DEF FramesInv, ObjectInv
<1>6. BatchStep({f})
  <2>1. \A g \in {f} : g \in Frames /\ rfh[g] = "none" /\ rfh'[g] # "none" /\ obj'[g].info
    BY <1>4
  <2>2. \A g \in Frames :
          /\ rfh'[g] = "none" => rfh[g] = "none"
          /\ obj'[g].bound => obj[g].bound
          /\ obj'[g].info \/ entry'[g].known => g \in {f} \/ entry[g].known \/ obj[g].info
    BY <1>4
  <2>3. mainFrame' = mainFrame \/ mainFrame = None
    BY <1>2
  <2>4. mainFrame' # None
    BY <1>2, StateTypes DEF FramesInv
  <2> QED
    BY <1>2, <2>1, <2>2, <2>3, <2>4 DEF BatchStep
<1>7. NoteInv'
  BY <1>6, BatchKeepsNotes DEF FramesInv
<1> QED
  BY <1>5, <1>7

-----------------------------------------------------------------------------
(* Steps that announce nothing.                                              *)

LEMMA SetBrowserKeeps ==
  ASSUME FramesInv, SetBrowser
  PROVE  FramesInv'
<1>1. /\ browser = "none" /\ browser' = "open" /\ handler' \in BOOLEAN
      /\ rfh' = rfh /\ parent' = parent /\ tearing' = tearing /\ entry' = entry
      /\ mainFrame' = mainFrame /\ check' = check /\ queue' = queue /\ obj' = obj
      /\ told' = told /\ toldMain' = toldMain
      /\ parked' = parked /\ tasks' = tasks /\ asked' = asked /\ ran' = ran
  BY DEF SetBrowser, contentVars, navVars, clientVars
<1>2. /\ mainFrame = None /\ queue = <<>> /\ toldMain = None
      /\ \A f \in Frames : rfh[f] = "none" /\ ~entry[f].known
  BY <1>1 DEF FramesInv, ContentInv, BrowserFollowsLife, EntriesFollowContent, NoteInv,
     MainIsTold, InCallbacks
<1>3. \A f \in Frames : ~obj[f].info /\ ~obj[f].bound /\ told[f].created = 0 /\ told[f].links = 0
  BY <1>2, FramesAssumption DEF FramesInv, ObjectInv, ObjectsFit, ValidObjects, NoteInv,
     FramesAreTold
<1>4. TypeOK'
  BY <1>1 DEF FramesInv, TypeOK
<1>5. ContentInv'
  <2>1. SubFramesHavePages'
    BY <1>1 DEF FramesInv, ContentInv, SubFramesHavePages
  <2>2. BrowserFollowsLife'
    BY <1>1, <1>2 DEF BrowserFollowsLife
  <2>3. MainIsCurrent'
    BY <1>1, <1>2, FramesAssumption DEF MainIsCurrent, Current, Frames
  <2>4. EntriesFollowContent'
    BY <1>1, <1>2 DEF FramesInv, ContentInv, EntriesFollowContent, Ended
  <2> QED
    BY <2>1, <2>2, <2>3, <2>4 DEF ContentInv
<1>6. ObjectInv'
  BY <1>1 DEF FramesInv, ObjectInv, ObjectsFit, ValidObjects
<1>7. NoteInv'
  <2>1. \A m : ~Has(queue, m)
    BY <1>2, NoNote
  <2>2. FramesAreTold'
    BY <1>1, <1>2, <1>3, <2>1 DEF FramesInv, NoteInv, FramesAreTold, Waits
  <2>3. MainIsTold'
    BY <1>1, <1>2, <2>1 DEF MainIsTold, MainWaits, InCallbacks
  <2> QED
    BY <1>1, <1>2, <2>2, <2>3, NoNote DEF NoteInv
<1> QED
  BY <1>4, <1>5, <1>6, <1>7 DEF FramesInv

LEMMA BrowserDestroyedKeeps ==
  ASSUME FramesInv, BrowserDestroyed
  PROVE  FramesInv'
<1>1. /\ browser = "closing" /\ browser' = "gone" /\ queue = <<>>
      /\ check' = (check \/ \E f \in Frames : entry[f].known)
      /\ rfh' = rfh /\ parent' = parent /\ tearing' = tearing /\ entry' = entry
      /\ mainFrame' = mainFrame /\ handler' = handler /\ queue' = queue /\ obj' = obj
      /\ told' = told /\ toldMain' = toldMain
      /\ parked' = parked /\ tasks' = tasks /\ asked' = asked /\ ran' = ran
  BY DEF BrowserDestroyed, Idle, InCallbacks, contentVars, navVars, clientVars
<1>2. ~handler /\ mainFrame = None /\ \A f \in Frames : ~entry[f].known
  BY <1>1 DEF FramesInv, ContentInv, BrowserFollowsLife, EntriesFollowContent
<1>3. ~check'
  BY <1>1, <1>2 DEF FramesInv, ObjectInv
<1>4. TypeOK'
  BY <1>1, <1>3 DEF FramesInv, TypeOK
<1>5. ContentInv'
  <2>1. SubFramesHavePages'
    BY <1>1 DEF FramesInv, ContentInv, SubFramesHavePages
  <2>2. BrowserFollowsLife'
    BY <1>1, <1>2 DEF BrowserFollowsLife
  <2>3. EntriesFollowContent'
    BY <1>1, <1>2 DEF FramesInv, ContentInv, EntriesFollowContent
  <2> QED
    BY <1>1, <2>1, <2>2, <2>3 DEF ContentInv, MainIsCurrent
<1>6. ObjectInv'
  BY <1>1, <1>3 DEF FramesInv, ObjectInv, ObjectsFit, ValidObjects
<1>7. NoteInv'
  <2>1. \A m : ~Has(queue, m)
    BY <1>1, NoNote
  <2>2. FramesAreTold'
    BY <1>1, <1>2, <2>1 DEF FramesInv, NoteInv, FramesAreTold, Waits, Hears, InCallbacks
  <2>3. MainIsTold'
    BY <1>1, <1>2, <2>1 DEF FramesInv, NoteInv, MainIsTold, MainWaits, InCallbacks, Hears
  <2> QED
    BY <1>1, <2>2, <2>3, NoNote DEF NoteInv
<1> QED
  BY <1>4, <1>5, <1>6, <1>7 DEF FramesInv

\* A step that leaves alone what the invariant is about.
LEMMA OutsideKeeps ==
  ASSUME FramesInv, TypeOK', UNCHANGED <<rfh, parent, infoVars, queue, obj, clientVars>>
  PROVE  FramesInv'
<1>1. /\ rfh' = rfh /\ parent' = parent /\ entry' = entry /\ browser' = browser
      /\ handler' = handler /\ mainFrame' = mainFrame /\ check' = check /\ queue' = queue
      /\ obj' = obj /\ UNCHANGED clientVars
  BY DEF infoVars
<1>2. ContentInv'
  BY <1>1 DEF FramesInv, ContentInv, SubFramesHavePages, BrowserFollowsLife, MainIsCurrent,
     EntriesFollowContent
<1>3. ObjectInv'
  BY <1>1 DEF FramesInv, ObjectInv, ObjectsFit, ValidObjects
<1>4. NoteInv'
  BY <1>1, QuietKeepsNotes DEF FramesInv
<1> QED
  BY <1>2, <1>3, <1>4 DEF FramesInv

LEMMA NavigateKeepsTypes ==
  ASSUME parked \in 0 .. MaxNav, ran \subseteq 1 .. MaxNav,
         NEW n \in 1 .. MaxNav, Navigate(n)
  PROVE  parked' \in 0 .. MaxNav /\ ran' \subseteq 1 .. MaxNav
<1>1. n \in 0 .. MaxNav
  BY FramesAssumption
<1>2. CASE InCallbacks
  BY <1>1, <1>2 DEF Navigate
<1>3. CASE ~InCallbacks
  BY <1>3 DEF Navigate
<1> QED
  BY <1>2, <1>3

LEMMA NavigationKeeps ==
  ASSUME FramesInv, CloseContents \/ LoadMainFrameURL \/ RunTask
  PROVE  FramesInv'
<1>1. UNCHANGED <<rfh, parent, infoVars, queue, obj, clientVars>>
  BY DEF CloseContents, LoadMainFrameURL, RunTask, contentVars
<1>2. TypeOK'
  <2>1. /\ rfh' = rfh /\ parent' = parent /\ entry' = entry /\ browser' = browser
        /\ handler' = handler /\ mainFrame' = mainFrame /\ check' = check /\ queue' = queue
        /\ obj' = obj /\ told' = told /\ toldMain' = toldMain
    BY <1>1 DEF infoVars, clientVars
  <2>2. CASE CloseContents
    BY <2>1, <2>2 DEF FramesInv, TypeOK, CloseContents, navVars
  <2>3. CASE LoadMainFrameURL
    <3>1. tearing' = tearing /\ tasks' = tasks /\ asked' = asked + 1 /\ Navigate(asked')
      BY <2>3 DEF LoadMainFrameURL, contentVars
    <3>2. asked' \in 1 .. MaxNav /\ asked' \in 0 .. MaxNav
      BY <2>3, <3>1, FramesAssumption DEF FramesInv, TypeOK, LoadMainFrameURL
    <3>3. parked' \in 0 .. MaxNav /\ ran' \subseteq 1 .. MaxNav
      BY <3>1, <3>2, NavigateKeepsTypes DEF FramesInv, TypeOK
    <3> QED
      BY <2>1, <3>1, <3>2, <3>3 DEF FramesInv, TypeOK
  <2>4. CASE RunTask
    <3>1. Head(tasks) \in 1 .. MaxNav /\ Tail(tasks) \in Seq(1 .. MaxNav)
      BY <2>4, HeadTailProperties DEF RunTask, FramesInv, TypeOK
    <3>2. tearing' = tearing /\ tasks' = Tail(tasks) /\ asked' = asked /\ Navigate(Head(tasks))
      BY <2>4 DEF RunTask, contentVars
    <3>3. parked' \in 0 .. MaxNav /\ ran' \subseteq 1 .. MaxNav
      BY <3>1, <3>2, NavigateKeepsTypes DEF FramesInv, TypeOK
    <3> QED
      BY <2>1, <3>1, <3>2, <3>3 DEF FramesInv, TypeOK
  <2> QED
    BY <2>2, <2>3, <2>4
<1> QED
  BY <1>1, <1>2, OutsideKeeps

LEMMA SendToRenderFrameKeeps ==
  ASSUME FramesInv, NEW f \in Frames, SendToRenderFrame(f)
  PROVE  FramesInv'
<1>1. /\ rfh' = rfh /\ parent' = parent /\ tearing' = tearing /\ entry' = entry
      /\ browser' = browser /\ handler' = handler /\ mainFrame' = mainFrame /\ check' = check
      /\ queue' = queue /\ UNCHANGED clientVars
      /\ parked' = parked /\ tasks' = tasks /\ asked' = asked /\ ran' = ran
      /\ told' = told /\ toldMain' = toldMain
      /\ obj[f].host /\ ~obj[f].bound
      /\ obj' = [obj EXCEPT ![f].queued = TRUE]
  BY DEF SendToRenderFrame, contentVars, infoVars, navVars, clientVars
<1>2. /\ obj' \in [Frames -> FrameHost]
      /\ \A g \in Frames : /\ obj'[g].host = obj[g].host /\ obj'[g].info = obj[g].info
                           /\ obj'[g].bound = obj[g].bound
                           /\ obj'[g].queued => obj[g].queued \/ g = f
  BY <1>1, StateTypes DEF FramesInv, FrameHost
<1>3. TypeOK'
  BY <1>1, <1>2 DEF FramesInv, TypeOK
<1>4. ContentInv'
  BY <1>1 DEF FramesInv, ContentInv, SubFramesHavePages, BrowserFollowsLife, MainIsCurrent,
     EntriesFollowContent
<1>5. ObjectInv'
  <2>1. ObjectsFit'
    BY <1>1, <1>2 DEF FramesInv, ObjectInv, ObjectsFit
  <2>2. ValidObjects'
    BY <1>1, <1>2, StateTypes DEF FramesInv, ObjectInv, ValidObjects
  <2> QED
    BY <1>1, <2>1, <2>2 DEF FramesInv, ObjectInv
<1>6. NoteInv'
  BY <1>1, <1>2, QuietKeepsNotes DEF FramesInv
<1> QED
  BY <1>3, <1>4, <1>5, <1>6 DEF FramesInv

\* A step that turns rfh and entry only.
LEMMA ContentKeeps ==
  ASSUME FramesInv, UNCHANGED <<tearing, browser, handler, mainFrame, queue, obj>>,
         UNCHANGED navVars, UNCHANGED clientVars, ~check', check' \in BOOLEAN,
         rfh' \in [Frames -> Lives], parent' \in [Subs -> Mains \cup {None}],
         entry' \in [Frames -> FrameInfo],
         SubFramesHavePages', EntriesFollowContent',
         \E g \in Frames : rfh[g] # "none",
         \A f \in Frames : /\ rfh'[f] = "none" => rfh[f] = "none"
                           /\ rfh'[f] = "unborn" => rfh[f] = "unborn"
                           /\ f \in Mains => (rfh'[f] \in Current <=> rfh[f] \in Current)
                           /\ rfh[f] = "speculative" => rfh'[f] = "speculative" \/ f \in Subs
                           /\ entry'[f].known = entry[f].known
  PROVE  FramesInv'
<1>1. TypeOK'
  BY DEF FramesInv, TypeOK, navVars, clientVars
<1>2. ContentInv'
  <2>1. BrowserFollowsLife'
    BY DEF FramesInv, ContentInv, BrowserFollowsLife
  <2>2. MainIsCurrent'
    BY StateTypes DEF FramesInv, ContentInv, MainIsCurrent
  <2> QED
    BY <2>1, <2>2 DEF ContentInv
<1>3. ObjectInv'
  <2>1. ObjectsFit'
    BY DEF FramesInv, ObjectInv, ObjectsFit
  <2>2. ValidObjects'
    BY StateTypes DEF FramesInv, ObjectInv, ValidObjects
  <2> QED
    BY <2>1, <2>2 DEF ObjectInv
<1>4. NoteInv'
  BY QuietKeepsNotes DEF FramesInv
<1> QED
  BY <1>1, <1>2, <1>3, <1>4 DEF FramesInv

LEMMA UnloadPageKeeps ==
  ASSUME FramesInv, NEW m \in Mains, UnloadPage(m)
  PROVE  FramesInv'
<1>1. /\ rfh[m] = "swapped" /\ rfh' = [rfh EXCEPT ![m] = "leaving"] /\ m \in Frames
      /\ parent' = parent /\ tearing' = tearing /\ entry' = entry
      /\ browser' = browser /\ handler' = handler /\ mainFrame' = mainFrame /\ check' = check
      /\ queue' = queue /\ obj' = obj /\ UNCHANGED clientVars /\ UNCHANGED navVars
  BY DEF UnloadPage, infoVars, Turn, Frames
<1>2. /\ rfh' \in [Frames -> Lives] /\ rfh'[m] = "leaving"
      /\ \A f \in Frames \ {m} : rfh'[f] = rfh[f]
  BY <1>1, StateTypes DEF FramesInv, Lives
<1>3. parent' \in [Subs -> Mains \cup {None}] /\ entry' \in [Frames -> FrameInfo]
      /\ ~check' /\ check' \in BOOLEAN
  BY <1>1, StateTypes DEF FramesInv, ObjectInv
<1>4. SubFramesHavePages'
  <2>1. \A s \in Subs : s # m /\ s \in Frames
    BY FramesAssumption DEF Frames
  <2>2. \A s \in Subs : parent[s] # None => parent[s] \in Frames
    BY StateTypes DEF FramesInv
  <2> QED
    BY <1>1, <1>2, <2>1, <2>2 DEF FramesInv, ContentInv, SubFramesHavePages
<1>5. EntriesFollowContent'
  BY <1>1, <1>2 DEF FramesInv, ContentInv, EntriesFollowContent, Ended
<1> QED
  BY <1>1, <1>2, <1>3, <1>4, <1>5, ContentKeeps DEF Current

LEMMA CachePageKeeps ==
  ASSUME FramesInv, NEW m \in Mains, CachePage(m)
  PROVE  FramesInv'
<1> DEFINE page == {m} \cup Children(m)
<1>1. /\ rfh[m] = "swapped" /\ \A s \in Children(m) : rfh[s] = "active"
      /\ rfh' = [f \in Frames |-> IF f \in page THEN "cached" ELSE rfh[f]]
      /\ entry' = [f \in Frames |-> IF f \in page /\ entry[f].known
                                    THEN [entry[f] EXCEPT !.cached = TRUE]
                                    ELSE entry[f]]
      /\ check' = (check \/ \E f \in page : entry[f].known /\ entry[f].cached)
      /\ parent' = parent /\ tearing' = tearing
      /\ browser' = browser /\ handler' = handler /\ mainFrame' = mainFrame
      /\ queue' = queue /\ obj' = obj /\ UNCHANGED clientVars /\ UNCHANGED navVars
  BY DEF CachePage, EnterCache
<1>2. /\ m \in Frames /\ page \subseteq Frames
      /\ \A f \in page : rfh[f] \in {"swapped", "active"} /\ (rfh[f] = "swapped" => f = m)
      /\ \A s \in Subs : s \in page <=> parent[s] = m /\ rfh[s] # "deleted"
  BY <1>1, FramesAssumption DEF Children, Frames
<1> HIDE DEF page
<1>3. /\ rfh' \in [Frames -> Lives]
      /\ \A f \in Frames : rfh'[f] = IF f \in page THEN "cached" ELSE rfh[f]
  BY <1>1, StateTypes DEF FramesInv, Lives
<1>4. ASSUME NEW f \in Frames
      PROVE  /\ entry'[f].known = entry[f].known /\ entry'[f].spec = entry[f].spec
             /\ entry'[f].cached = IF f \in page /\ entry[f].known THEN TRUE ELSE entry[f].cached
             /\ ~entry[f].known => entry'[f] = entry[f]
             /\ entry'[f] \in FrameInfo
  BY <1>1, StateTypes DEF FramesInv, FrameInfo
<1>5. parent' \in [Subs -> Mains \cup {None}] /\ entry' \in [Frames -> FrameInfo]
  BY <1>1, <1>4, StateTypes DEF FramesInv
<1>6. ~check' /\ check' \in BOOLEAN
  <2>1. \A f \in page : ~(entry[f].known /\ entry[f].cached)
    BY <1>2 DEF FramesInv, ContentInv, EntriesFollowContent
  <2> QED
    BY <1>1, <2>1 DEF FramesInv, ObjectInv
<1>7. SubFramesHavePages'
  <2>1. SUFFICES ASSUME NEW s \in Subs
                 PROVE  /\ rfh'[s] \in SubLives
                        /\ rfh'[s] = "none" => parent[s] = None
                        /\ rfh'[s] \notin Ended =>
                             /\ parent[s] # None
                             /\ rfh'[parent[s]] \in {"active", "swapped", "cached", "leaving"}
    BY <1>1 DEF SubFramesHavePages
  <2>2. /\ rfh[s] \in SubLives /\ s \in Frames
        /\ rfh[s] = "none" => parent[s] = None
        /\ rfh[s] \notin Ended =>
             /\ parent[s] # None
             /\ rfh[parent[s]] \in {"active", "swapped", "cached", "leaving"}
    BY DEF FramesInv, ContentInv, SubFramesHavePages, Frames
  <2>3. parent[s] # None => parent[s] \in Frames
    BY StateTypes DEF FramesInv
  <2>4. s \in page => rfh[s] = "active"
    BY <1>2, FramesAssumption
  <2> QED
    BY <1>3, <2>2, <2>3, <2>4 DEF SubLives, Ended
<1>8. EntriesFollowContent'
  <2>1. SUFFICES ASSUME NEW f \in Frames
                 PROVE  /\ entry[f].known <=>
                             browser = "open" /\ f \notin Excluded /\ rfh'[f] \notin Ended
                        /\ ~entry[f].known => entry'[f] = Unmade
                        /\ entry[f].known =>
                             /\ entry[f].spec <=> rfh'[f] = "speculative"
                             /\ rfh'[f] = "cached" => entry'[f].cached
                             /\ entry'[f].cached => rfh'[f] \in {"cached", "leaving"}
    BY <1>1, <1>4 DEF EntriesFollowContent
  <2>2. /\ entry[f].known <=> browser = "open" /\ f \notin Excluded /\ rfh[f] \notin Ended
        /\ ~entry[f].known => entry[f] = Unmade
        /\ entry[f].known =>
             /\ entry[f].spec <=> rfh[f] = "speculative"
             /\ rfh[f] = "cached" => entry[f].cached
             /\ entry[f].cached => rfh[f] \in {"cached", "leaving"}
    BY DEF FramesInv, ContentInv, EntriesFollowContent
  <2>3. CASE f \in page
    <3>1. rfh'[f] = "cached" /\ rfh[f] \in {"swapped", "active"}
      BY <1>2, <1>3, <2>3
    <3> QED
      BY <1>4, <2>2, <2>3, <3>1 DEF Ended
  <2>4. CASE f \notin page
    BY <1>3, <1>4, <2>2, <2>4
  <2> QED
    BY <2>3, <2>4
<1>9. \A f \in Frames : /\ rfh'[f] = "none" => rfh[f] = "none"
                        /\ rfh'[f] = "unborn" => rfh[f] = "unborn"
                        /\ f \in Mains => (rfh'[f] \in Current <=> rfh[f] \in Current)
                        /\ rfh[f] = "speculative" => rfh'[f] = "speculative" \/ f \in Subs
                        /\ entry'[f].known = entry[f].known
  <2>1. \A f \in page : f \in Mains => rfh[f] = "swapped"
    BY <1>1, FramesAssumption DEF page, Children
  <2> QED
    BY <1>2, <1>3, <1>4, <2>1 DEF Current
<1> QED
  BY <1>1, <1>2, <1>3, <1>5, <1>6, <1>7, <1>8, <1>9, ContentKeeps

\* MaybeCreateFrame has nothing to do for a host that is known and attached.
LEMMA ReadyIs ==
  ASSUME FramesInv, NEW f \in Frames, entry[f].known, ~entry[f].spec, obj[f].host,
         MaybeCreateFrame(f, FALSE)
  PROVE  /\ obj' = obj /\ entry' = entry /\ mainFrame' = mainFrame /\ queue' = queue
         /\ check' = check /\ browser' = browser /\ handler' = handler
         /\ UNCHANGED navVars /\ UNCHANGED clientVars
<1>1. f \notin Excluded
  BY DEF FramesInv, ContentInv, EntriesFollowContent
<1>2. /\ KeepMainFrame([obj EXCEPT ![f] = Attached(@)], <<>>)
      /\ check' = (check \/ AttachFails(obj[f]))
      /\ entry' = [entry EXCEPT ![f].spec = @ /\ ~(entry[f].spec /\ ~FALSE)]
      /\ browser' = browser /\ handler' = handler
      /\ UNCHANGED navVars /\ UNCHANGED clientVars
  BY <1>1 DEF MaybeCreateFrame, UpgradeFrame
<1>3. entry \in [Frames -> FrameInfo] /\ entry[f] \in FrameInfo
      /\ obj \in [Frames -> FrameHost] /\ obj[f] \in FrameHost
      /\ queue \in Seq(Notes) /\ check \in BOOLEAN
  BY StateTypes DEF FramesInv, TypeOK
<1>4. entry' = entry
  BY <1>2, <1>3 DEF FrameInfo
<1>5. [obj EXCEPT ![f] = Attached(@)] = obj
  BY <1>3 DEF Attached
<1>6. check' = check
  BY <1>2, <1>3 DEF AttachFails, FrameHost
<1>7. queue' = queue /\ mainFrame' = mainFrame /\ obj' = obj
  BY <1>2, <1>3, <1>5, ConcatEmptySeq DEF KeepMainFrame, Collect
<1> QED
  BY <1>2, <1>4, <1>6, <1>7

LEMMA RendererReadyKeeps ==
  ASSUME FramesInv, NEW m \in Mains, RendererReady(m)
  PROVE  FramesInv'
<1>1. /\ browser = "open" /\ rfh[m] = "unborn" /\ rfh' = [rfh EXCEPT ![m] = "active"]
      /\ m \in Frames /\ MaybeCreateFrame(m, FALSE) /\ parent' = parent /\ tearing' = tearing
  BY IdleIsQuiet DEF RendererReady, Turn, Frames
<1>2. m \notin Excluded
  BY FramesAssumption
<1>3. entry[m].known /\ ~entry[m].spec
  BY <1>1, <1>2 DEF FramesInv, ContentInv, EntriesFollowContent, Ended
<1>4. obj[m].host
  <2>1. m = mainFrame
    BY <1>1 DEF FramesInv, ContentInv, MainIsCurrent, Current
  <2>2. obj[m].info
    BY <2>1, FramesAssumption DEF FramesInv, ObjectInv, ValidObjects, Frames
  <2> QED
    BY <1>1, <1>3, <2>2 DEF FramesInv, ObjectInv, ObjectsFit
<1>5. /\ obj' = obj /\ entry' = entry /\ mainFrame' = mainFrame /\ queue' = queue
      /\ check' = check /\ browser' = browser /\ handler' = handler
      /\ UNCHANGED navVars /\ UNCHANGED clientVars
  BY <1>1, <1>3, <1>4, ReadyIs
<1>6. /\ rfh' \in [Frames -> Lives] /\ rfh'[m] = "active"
      /\ \A f \in Frames \ {m} : rfh'[f] = rfh[f]
  BY <1>1, StateTypes DEF FramesInv, Lives
<1>7. parent' \in [Subs -> Mains \cup {None}] /\ entry' \in [Frames -> FrameInfo]
      /\ ~check' /\ check' \in BOOLEAN
  BY <1>1, <1>5, StateTypes DEF FramesInv, ObjectInv
<1>8. SubFramesHavePages'
  <2>1. \A s \in Subs : s # m /\ s \in Frames
    BY FramesAssumption DEF Frames
  <2>2. \A s \in Subs : parent[s] # None => parent[s] \in Frames
    BY StateTypes DEF FramesInv
  <2> QED
    BY <1>1, <1>6, <2>1, <2>2 DEF FramesInv, ContentInv, SubFramesHavePages
<1>9. EntriesFollowContent'
  BY <1>1, <1>5, <1>6 DEF FramesInv, ContentInv, EntriesFollowContent, Ended
<1> QED
  BY <1>1, <1>5, <1>6, <1>7, <1>8, <1>9, ContentKeeps DEF Current

LEMMA RestoreSubFrameKeeps ==
  ASSUME FramesInv, NEW s \in Subs, RestoreSubFrame(s)
  PROVE  FramesInv'
<1>1. /\ rfh[s] = "cached" /\ parent[s] # None /\ rfh[parent[s]] = "active"
      /\ rfh' = [rfh EXCEPT ![s] = "active"] /\ LeaveCache(s)
      /\ parent' = parent /\ tearing' = tearing /\ s \in Frames /\ s \notin Mains
  BY FramesAssumption DEF RestoreSubFrame, Turn, Frames
<1>2. /\ browser' = browser /\ handler' = handler /\ UNCHANGED navVars /\ UNCHANGED clientVars
      /\ obj' = obj /\ mainFrame' = mainFrame /\ queue' = queue /\ ~check' /\ check' \in BOOLEAN
      /\ entry' = IF entry[s].known THEN [entry EXCEPT ![s].cached = FALSE] ELSE entry
  <2>1. /\ browser' = browser /\ handler' = handler /\ UNCHANGED navVars /\ UNCHANGED clientVars
        /\ obj \in [Frames -> FrameHost] /\ obj[s] \in FrameHost
        /\ queue \in Seq(Notes) /\ check \in BOOLEAN /\ ~check
    BY <1>1, StateTypes DEF FramesInv, TypeOK, LeaveCache, ObjectInv
  <2>2. CASE entry[s].known
    <3>1. entry[s].cached /\ obj[s].info /\ obj[s].host
      BY <1>1, <2>2 DEF FramesInv, ContentInv, EntriesFollowContent, ObjectInv, ValidObjects,
         ObjectsFit
    <3>2. /\ check' = (check \/ AttachFails(obj[s]) \/ ~entry[s].cached)
          /\ entry' = [entry EXCEPT ![s].cached = FALSE]
          /\ KeepMainFrame([obj EXCEPT ![s] = Attached(@)], <<>>)
      BY <1>1, <2>2 DEF LeaveCache
    <3>3. [obj EXCEPT ![s] = Attached(@)] = obj
      BY <2>1, <3>1 DEF Attached
    <3>4. ~check' /\ check' \in BOOLEAN
      BY <2>1, <3>1, <3>2 DEF AttachFails
    <3>5. queue' = queue /\ mainFrame' = mainFrame /\ obj' = obj
      BY <2>1, <3>2, <3>3, ConcatEmptySeq DEF KeepMainFrame, Collect
    <3> QED
      BY <2>1, <2>2, <3>2, <3>4, <3>5
  <2>3. CASE ~entry[s].known
    BY <1>1, <2>1, <2>3 DEF LeaveCache
  <2> QED
    BY <2>2, <2>3
<1>3. /\ rfh' \in [Frames -> Lives] /\ rfh'[s] = "active"
      /\ \A f \in Frames \ {s} : rfh'[f] = rfh[f]
  BY <1>1, StateTypes DEF FramesInv, Lives
<1>4. /\ \A f \in Frames \ {s} : entry'[f] = entry[f]
      /\ entry'[s].known = entry[s].known /\ entry'[s].spec = entry[s].spec
      /\ entry[s].known => ~entry'[s].cached
      /\ ~entry[s].known => entry'[s] = entry[s]
      /\ entry' \in [Frames -> FrameInfo]
  BY <1>1, <1>2, StateTypes DEF FramesInv, FrameInfo
<1>5. parent' \in [Subs -> Mains \cup {None}]
  BY <1>1, StateTypes DEF FramesInv
<1>6. SubFramesHavePages'
  <2>1. \A t \in Subs : t \in Frames /\ parent[t] # s
    BY <1>1, FramesAssumption, StateTypes DEF FramesInv, Frames
  <2>2. \A t \in Subs : parent[t] # None => parent[t] \in Frames
    BY StateTypes DEF FramesInv
  <2> QED
    BY <1>1, <1>3, <2>1, <2>2 DEF FramesInv, ContentInv, SubFramesHavePages, SubLives
<1>7. EntriesFollowContent'
  BY <1>1, <1>2, <1>3, <1>4 DEF FramesInv, ContentInv, EntriesFollowContent, Ended
<1>8. \A f \in Frames : /\ rfh'[f] = "none" => rfh[f] = "none"
                        /\ rfh'[f] = "unborn" => rfh[f] = "unborn"
                        /\ f \in Mains => (rfh'[f] \in Current <=> rfh[f] \in Current)
                        /\ rfh[f] = "speculative" => rfh'[f] = "speculative" \/ f \in Subs
                        /\ entry'[f].known = entry[f].known
  BY <1>1, <1>3, <1>4
<1> QED
  BY <1>1, <1>2, <1>3, <1>4, <1>5, <1>6, <1>7, <1>8, ContentKeeps

-----------------------------------------------------------------------------
(* The connections of frames.                                                *)

LEMMA LearnIs ==
  ASSUME NEW view \in View
  PROVE  /\ Learn(view, "FrameCreated") = [view EXCEPT !.created = @ + 1]
         /\ Learn(view, "FrameAttached") = [view EXCEPT !.links = @ + 1]
         /\ Learn(view, "FrameDetached") = [view EXCEPT !.links = @ - 1]
         /\ Learn(view, "FrameDestroyed") =
              [view EXCEPT !.gone = IF @ = 2 THEN 2 ELSE @ + 1]
BY DEF Learn

\* A frame connects or disconnects: delta says by how much its links change.
LEMMA LinkKeeps ==
  ASSUME FramesInv, queue = <<>>, NEW f \in Frames, NEW up \in BOOLEAN,
         entry[f].known, obj[f].info, rfh[f] # "unborn",
         obj[f].bound <=> ~up,
         obj' \in [Frames -> FrameHost],
         obj'[f].host = obj[f].host, obj'[f].info = obj[f].info, obj'[f].bound <=> up,
         obj'[f].queued => ~up /\ obj[f].queued,
         \A g \in Frames \ {f} : obj'[g] = obj[g],
         UNCHANGED <<contentVars, infoVars, queue, navVars>>, toldMain' = toldMain,
         told' = IF handler
                 THEN [told EXCEPT ![f].links = IF up THEN @ + 1 ELSE @ - 1] ELSE told
  PROVE  FramesInv'
<1>1. /\ rfh' = rfh /\ parent' = parent /\ tearing' = tearing /\ entry' = entry
      /\ browser' = browser /\ handler' = handler /\ mainFrame' = mainFrame /\ check' = check
      /\ queue' = queue /\ parked' = parked /\ tasks' = tasks /\ asked' = asked /\ ran' = ran
  BY DEF contentVars, infoVars, navVars
<1>2. \A m : ~Has(queue, m)
  BY NoNote
<1>3. /\ told[f].links \in {0, 1} /\ told[f] \in View
      /\ handler => (told[f].links = 1 <=> obj[f].bound) /\ told[f].created = 1
  BY <1>2, StateTypes DEF FramesInv, NoteInv, FramesAreTold, Hears, Waits
<1>4. handler => told[f].links = IF up THEN 0 ELSE 1
  BY <1>3
<1>5. /\ \A g \in Frames \ {f} : told'[g] = told[g]
      /\ told'[f].created = told[f].created /\ told'[f].gone = told[f].gone
      /\ told'[f].links \in {0, 1} /\ (handler => (told'[f].links = 1 <=> up))
      /\ ~handler => told' = told
      /\ told' \in [Frames -> View]
  <2>1. CASE handler
    <3>1. told'[f] = [told[f] EXCEPT !.links = IF up THEN 1 ELSE 0]
      BY <1>3, <1>4, <2>1, StateTypes DEF FramesInv, View
    <3>2. told'[f] \in View /\ told'[f].links = (IF up THEN 1 ELSE 0)
          /\ told'[f].created = told[f].created /\ told'[f].gone = told[f].gone
      BY <1>3, <3>1 DEF View
    <3>3. DOMAIN told' = Frames /\ told' = [g \in Frames |-> told'[g]]
          /\ \A g \in Frames \ {f} : told'[g] = told[g]
      BY <2>1, StateTypes DEF FramesInv
    <3>4. told' \in [Frames -> View]
      BY <3>2, <3>3, StateTypes DEF FramesInv
    <3>5. told'[f].links \in {0, 1} /\ (told'[f].links = 1 <=> up)
      <4>1. CASE up
        BY <3>2, <4>1
      <4>2. CASE ~up
        BY <3>2, <4>2
      <4> QED
        BY <4>1, <4>2
    <3> QED
      BY <2>1, <3>2, <3>3, <3>4, <3>5, Zenon
  <2>2. CASE ~handler
    BY <1>3, <2>2, StateTypes DEF FramesInv
  <2> QED
    BY <2>1, <2>2
<1>6. TypeOK'
  BY <1>1, <1>5 DEF FramesInv, TypeOK
<1>7. ContentInv'
  BY <1>1 DEF FramesInv, ContentInv, SubFramesHavePages, BrowserFollowsLife, MainIsCurrent,
     EntriesFollowContent
<1>8. ObjectInv'
  <2>1. ObjectsFit'
    BY <1>1 DEF FramesInv, ObjectInv, ObjectsFit
  <2>2. ValidObjects'
    BY <1>1, StateTypes DEF FramesInv, ObjectInv, ValidObjects
  <2> QED
    BY <1>1, <2>1, <2>2 DEF FramesInv, ObjectInv
<1>9. NoteInv'
  <2>1. Hears' <=> handler
    BY <1>1 DEF Hears, InCallbacks
  <2>2. FramesAreTold'
    <3>1. SUFFICES ASSUME NEW g \in Frames
          PROVE /\ told'[g].created \in {0, 1} /\ told'[g].links \in {0, 1}
                /\ rfh[g] = "none" => told'[g].created = 0 /\ told'[g].links = 0
                /\ handler =>
                     /\ told'[g].links = 1 <=> obj'[g].bound
                     /\ obj'[g].info \/ entry[g].known => told'[g].created = 1
                     /\ told'[g].created = 1 /\ ~obj'[g].info => told'[g].gone > 0
      BY <1>1, <1>2, <2>1 DEF FramesAreTold, Waits
    <3>2. /\ told[g].created \in {0, 1} /\ told[g].links \in {0, 1}
          /\ rfh[g] = "none" => told[g].created = 0 /\ told[g].links = 0
          /\ handler =>
               /\ told[g].links = 1 <=> obj[g].bound
               /\ obj[g].info \/ entry[g].known => told[g].created = 1
               /\ told[g].created = 1 /\ ~obj[g].info => told[g].gone > 0
      BY <1>2 DEF FramesInv, NoteInv, FramesAreTold, Waits, Hears
    <3>3. rfh[f] # "none"
      BY DEF FramesInv, ContentInv, EntriesFollowContent, Ended
    <3> QED
      BY <1>3, <1>5, <3>2, <3>3
  <2>3. MainIsTold'
    BY <1>1, <1>2, <2>1 DEF FramesInv, NoteInv, MainIsTold, MainWaits, Hears, InCallbacks
  <2> QED
    BY <1>1, <2>2, <2>3, NoNote DEF NoteInv
<1> QED
  BY <1>6, <1>7, <1>8, <1>9 DEF FramesInv

LEMMA FrameAttachedIs ==
  ASSUME FramesInv, NEW f \in Frames, FrameAttached(f)
  PROVE  /\ FramesInv' /\ toldMain' = toldMain
         /\ told' = IF handler THEN [told EXCEPT ![f].links = @ + 1] ELSE told
         /\ handler => told[f].created = 1
<1>1. /\ queue = <<>> /\ entry[f].known /\ obj[f].info /\ ~obj[f].bound /\ rfh[f] # "unborn"
      /\ obj' = [obj EXCEPT ![f].bound = TRUE, ![f].queued = FALSE]
      /\ UNCHANGED <<contentVars, infoVars, queue, navVars>>
      /\ Notify(Note("FrameAttached", f))
  BY DEF FrameAttached, Idle, InCallbacks, HasRenderer
<1>2. told' = (IF handler THEN [told EXCEPT ![f].links = @ + 1] ELSE told)
      /\ toldMain' = toldMain
  <2>1. CASE handler
    <3>1. Tell(Note("FrameAttached", f))
      BY <1>1, <2>1 DEF Notify
    <3>2. told' = [told EXCEPT ![f] = Learn(@, "FrameAttached")] /\ toldMain' = toldMain
      BY <3>1 DEF Tell, Note
    <3> QED
      BY <2>1, <3>2 DEF Learn
  <2>2. CASE ~handler
    BY <1>1, <2>2 DEF Notify, clientVars
  <2> QED
    BY <2>1, <2>2
<1>3. /\ obj' \in [Frames -> FrameHost] /\ obj'[f].bound /\ ~obj'[f].queued
      /\ obj'[f].host = obj[f].host /\ obj'[f].info = obj[f].info
      /\ \A g \in Frames \ {f} : obj'[g] = obj[g]
  BY <1>1, StateTypes DEF FramesInv, FrameHost
<1>4. FramesInv'
  BY <1>1, <1>2, <1>3, LinkKeeps
<1>5. handler => told[f].created = 1
  BY <1>1, NoNote DEF FramesInv, NoteInv, FramesAreTold, Hears, Waits
<1> QED
  BY <1>2, <1>4, <1>5

LEMMA OnRenderFrameDisconnectIs ==
  ASSUME FramesInv, NEW f \in Frames, OnRenderFrameDisconnect(f)
  PROVE  /\ FramesInv' /\ toldMain' = toldMain
         /\ told' = IF handler THEN [told EXCEPT ![f].links = @ - 1] ELSE told
         /\ handler => told[f].created = 1
<1>1. /\ queue = <<>> /\ obj[f].bound
      /\ IF obj[f].info /\ browser # "gone"
         THEN Notify(Note("FrameDetached", f)) ELSE UNCHANGED clientVars
      /\ obj' = [obj EXCEPT ![f].bound = FALSE]
      /\ UNCHANGED <<contentVars, infoVars, queue, navVars>>
  BY DEF OnRenderFrameDisconnect, Idle, InCallbacks
<1>2. entry[f].known /\ obj[f].info /\ rfh[f] # "unborn" /\ browser = "open"
  BY <1>1 DEF FramesInv, ObjectInv, ObjectsFit, ContentInv, EntriesFollowContent
<1>3. told' = (IF handler THEN [told EXCEPT ![f].links = @ - 1] ELSE told)
      /\ toldMain' = toldMain
  <2>1. CASE handler
    <3>1. Tell(Note("FrameDetached", f))
      BY <1>1, <1>2, <2>1 DEF Notify
    <3>2. told' = [told EXCEPT ![f] = Learn(@, "FrameDetached")] /\ toldMain' = toldMain
      BY <3>1 DEF Tell, Note
    <3> QED
      BY <2>1, <3>2 DEF Learn
  <2>2. CASE ~handler
    BY <1>1, <1>2, <2>2 DEF Notify, clientVars
  <2> QED
    BY <2>1, <2>2
<1>4. /\ obj' \in [Frames -> FrameHost] /\ ~obj'[f].bound
      /\ obj'[f].queued = obj[f].queued
      /\ obj'[f].host = obj[f].host /\ obj'[f].info = obj[f].info
      /\ \A g \in Frames \ {f} : obj'[g] = obj[g]
  BY <1>1, StateTypes DEF FramesInv, FrameHost
<1>5. FramesInv'
  BY <1>1, <1>2, <1>3, <1>4, LinkKeeps
<1>6. handler => told[f].created = 1
  BY <1>1, <1>2, NoNote DEF FramesInv, NoteInv, FramesAreTold, Hears, Waits
<1> QED
  BY <1>3, <1>5, <1>6

-----------------------------------------------------------------------------
(* The notifications are delivered.                                          *)

\* The notification that is delivered, and the ones that stay.
LEMMA DeliveredNote ==
  ASSUME FramesInv, Deliver
  PROVE  LET h == Head(queue) IN
         /\ queue # <<>> /\ Hears /\ h \in Notes /\ Has(queue, h)
         /\ queue' \in Seq(Notes) /\ InOrder(queue')
         /\ \A m \in Notes : Has(queue, m) => m = h \/ Rank(h) < Rank(m)
         /\ \A m \in Notes : Has(queue', m) <=> Has(queue, m) /\ m # h
         /\ rfh' = rfh /\ parent' = parent /\ tearing' = tearing /\ entry' = entry
         /\ browser' = browser /\ handler' = handler /\ mainFrame' = mainFrame
         /\ check' = check /\ obj' = obj /\ asked' = asked /\ ran' = ran
         /\ Tell(h)
         /\ tasks' \in Seq(1 .. MaxNav) /\ parked' \in 0 .. MaxNav
<1>1. /\ queue # <<>> /\ queue' = Tail(queue) /\ Tell(Head(queue))
      /\ IF Len(queue) = 1 THEN ReleaseNavigationLock ELSE UNCHANGED <<tasks, parked>>
      /\ UNCHANGED <<contentVars, infoVars, obj, asked, ran>>
  BY DEF Deliver, InCallbacks
<1>2. queue \in Seq(Notes) /\ InOrder(queue)
  BY DEF FramesInv, TypeOK, NoteInv
<1>3. Hears
  BY <1>1 DEF Hears, InCallbacks
<1>4. tasks' \in Seq(1 .. MaxNav) /\ parked' \in 0 .. MaxNav
  <2>1. tasks \in Seq(1 .. MaxNav) /\ parked \in 0 .. MaxNav /\ MaxNav \in Nat
    BY FramesAssumption DEF FramesInv, TypeOK
  <2>2. CASE Len(queue) = 1
    <3>1. If(parked # 0, <<parked>>) \in Seq(1 .. MaxNav)
      <4>1. CASE parked # 0
        <5>1. parked \in 1 .. MaxNav
          BY <2>1, <4>1
        <5> QED
          BY <4>1, <5>1 DEF If
      <4>2. CASE parked = 0
        BY <4>2 DEF If
      <4> QED
        BY <4>1, <4>2
    <3>2. tasks' = tasks \o If(parked # 0, <<parked>>) /\ parked' = 0
      BY <1>1, <2>2 DEF ReleaseNavigationLock
    <3> QED
      BY <2>1, <3>1, <3>2, ConcatProperties
  <2>3. CASE Len(queue) # 1
    BY <1>1, <2>1, <2>3
  <2> QED
    BY <2>2, <2>3
<1> QED
  BY <1>1, <1>2, <1>3, <1>4, HeadLeaves DEF contentVars, infoVars

\* The client hears of a frame.
LEMMA FrameNoteKeeps ==
  ASSUME FramesInv, Deliver, NEW type \in FrameNotes, NEW f \in Frames,
         Head(queue) = Note(type, f)
  PROVE  /\ FramesInv' /\ toldMain' = toldMain
         /\ \A g \in Frames \ {f} : told'[g] = told[g]
         /\ told'[f].created = 1
         /\ told'[f].gone > told[f].gone => told[f].links = 0 /\ ~obj[f].info
<1> DEFINE h == Note(type, f)
<1>1. /\ queue # <<>> /\ Hears /\ h \in Notes /\ Has(queue, h)
      /\ queue' \in Seq(Notes) /\ InOrder(queue')
      /\ \A m \in Notes : Has(queue, m) => m = h \/ Rank(h) < Rank(m)
      /\ \A m \in Notes : Has(queue', m) <=> Has(queue, m) /\ m # h
      /\ rfh' = rfh /\ parent' = parent /\ tearing' = tearing /\ entry' = entry
      /\ browser' = browser /\ handler' = handler /\ mainFrame' = mainFrame
      /\ check' = check /\ obj' = obj /\ asked' = asked /\ ran' = ran
      /\ Tell(h)
      /\ tasks' \in Seq(1 .. MaxNav) /\ parked' \in 0 .. MaxNav
  BY DeliveredNote
<1>2. told' = [told EXCEPT ![f] = Learn(@, type)] /\ toldMain' = toldMain
  <2>1. h.type = type /\ h.frame = f /\ type # "MainFrameChanged"
    BY DEF Note, FrameNotes
  <2> HIDE DEF h
  <2> QED
    BY <1>1, <2>1 DEF Tell
<1>3. /\ \A g \in Frames \ {f} : told'[g] = told[g]
      /\ told'[f] = Learn(told[f], type) /\ told[f] \in View
  BY <1>2, StateTypes DEF FramesInv
<1>4. \A g \in Frames, t \in FrameNotes :
         /\ Waits(t, g)' <=> Waits(t, g) /\ ~(t = type /\ g = f)
         /\ Waits(t, g) => (t = type /\ g = f) \/ Rank(h) < Rank(Note(t, g))
  BY <1>1, NotesAreNotes, NotesDiffer DEF Waits
<1>5. /\ type \in FrameNotes /\ type # "FrameAttached" /\ Waits(type, f)
      /\ told[f].created \in {0, 1} /\ told[f].links \in {0, 1}
  BY <1>1, <1>4 DEF FramesInv, NoteInv, FramesAreTold, Waits
<1>6. /\ type = "FrameCreated" => told[f].created = 0 /\ obj[f].info
      /\ type = "FrameDetached" => told[f].created = 1 /\ told[f].links = 1 /\ ~obj[f].bound
      /\ type = "FrameDestroyed" => told[f].created = 1 /\ ~obj[f].info
      /\ rfh[f] = "none" => told[f].created = 0 /\ told[f].links = 0
  BY <1>5 DEF FramesInv, NoteInv, FramesAreTold
<1>7. type = "FrameDestroyed" => told[f].links = 0
  <2>1. type = "FrameDestroyed" => ~Waits("FrameDetached", f)
    BY <1>4 DEF FrameNotes, Rank, Note
  <2>2. ~obj[f].info => ~obj[f].bound
    BY DEF FramesInv, ObjectInv, ObjectsFit
  <2> QED
    BY <1>1, <1>5, <1>6, <2>1, <2>2 DEF FramesInv, NoteInv, FramesAreTold
<1>8. /\ type = "FrameCreated" => told'[f] = [told[f] EXCEPT !.created = 1]
      /\ type = "FrameDetached" => told'[f] = [told[f] EXCEPT !.links = 0]
      /\ type = "FrameDestroyed" =>
           told'[f] = [told[f] EXCEPT !.gone = IF @ = 2 THEN 2 ELSE @ + 1]
  <2>1. CASE type = "FrameCreated"
    <3>1. told'[f] = [told[f] EXCEPT !.created = @ + 1] /\ told[f].created = 0
      BY <1>3, <1>6, <2>1, LearnIs
    <3>2. [told[f] EXCEPT !.created = @ + 1] = [told[f] EXCEPT !.created = 1]
      BY <1>3, <3>1 DEF View
    <3> QED
      BY <2>1, <3>1, <3>2
  <2>2. CASE type = "FrameDetached"
    <3>1. told'[f] = [told[f] EXCEPT !.links = @ - 1] /\ told[f].links = 1
      BY <1>3, <1>6, <2>2, LearnIs
    <3>2. [told[f] EXCEPT !.links = @ - 1] = [told[f] EXCEPT !.links = 0]
      BY <1>3, <3>1 DEF View
    <3> QED
      BY <2>2, <3>1, <3>2
  <2>3. CASE type = "FrameDestroyed"
    BY <1>3, <2>3, LearnIs
  <2> QED
    BY <1>5, <2>1, <2>2, <2>3
<1>9. /\ told'[f] \in View /\ told'[f].created = 1
      /\ type = "FrameCreated" => told'[f].links = told[f].links /\ told'[f].gone = told[f].gone
      /\ type = "FrameDetached" => told'[f].links = 0 /\ told'[f].gone = told[f].gone
      /\ type = "FrameDestroyed" => told'[f].links = 0 /\ told'[f].gone > 0
      /\ told[f].gone \in 0 .. 2
  BY <1>3, <1>5, <1>6, <1>7, <1>8 DEF View, FrameNotes
<1>10. told' \in [Frames -> View]
  BY <1>2, <1>3, <1>9, StateTypes DEF FramesInv
<1>11. TypeOK'
  BY <1>1, <1>2, <1>10 DEF FramesInv, TypeOK
<1>12. ContentInv'
  BY <1>1 DEF FramesInv, ContentInv, SubFramesHavePages, BrowserFollowsLife, MainIsCurrent,
     EntriesFollowContent
<1>13. ObjectInv'
  BY <1>1 DEF FramesInv, ObjectInv, ObjectsFit, ValidObjects
<1>14. NoteInv'
  <2>1. rfh[f] # "none"
    <3>1. CASE type = "FrameCreated"
      BY <1>6, <3>1, FramesAssumption DEF FramesInv, ObjectInv, ValidObjects, ContentInv,
         EntriesFollowContent, Ended, MainIsCurrent, BrowserFollowsLife, Current, TypeOK
    <3>2. CASE type # "FrameCreated"
      BY <1>5, <1>6, <3>2 DEF FrameNotes
    <3> QED
      BY <3>1, <3>2
  <2>2. FramesAreTold'
    <3>1. SUFFICES ASSUME NEW g \in Frames
                   PROVE  /\ told'[g].created \in {0, 1} /\ told'[g].links \in {0, 1}
                          /\ rfh[g] = "none" => told'[g].created = 0 /\ told'[g].links = 0
                          /\ ~Waits("FrameAttached", g)'
                          /\ Waits("FrameCreated", g)' => told'[g].created = 0 /\ obj[g].info
                          /\ Waits("FrameDetached", g)' =>
                               told'[g].created = 1 /\ told'[g].links = 1 /\ ~obj[g].bound
                          /\ Waits("FrameDestroyed", g)' => told'[g].created = 1 /\ ~obj[g].info
                          /\ told'[g].links = 1 => obj[g].bound \/ Waits("FrameDetached", g)'
                          /\ obj[g].bound => told'[g].links = 1
                          /\ obj[g].info \/ entry[g].known =>
                               told'[g].created = 1 \/ Waits("FrameCreated", g)'
                          /\ told'[g].created = 1 /\ ~obj[g].info =>
                               told'[g].gone > 0 \/ Waits("FrameDestroyed", g)'
      BY <1>1 DEF FramesAreTold
    <3>2. /\ told[g].created \in {0, 1} /\ told[g].links \in {0, 1}
          /\ rfh[g] = "none" => told[g].created = 0 /\ told[g].links = 0
          /\ ~Waits("FrameAttached", g)
          /\ Waits("FrameCreated", g) => told[g].created = 0 /\ obj[g].info
          /\ Waits("FrameDetached", g) =>
               told[g].created = 1 /\ told[g].links = 1 /\ ~obj[g].bound
          /\ Waits("FrameDestroyed", g) => told[g].created = 1 /\ ~obj[g].info
          /\ told[g].links = 1 => obj[g].bound \/ Waits("FrameDetached", g)
          /\ obj[g].bound => told[g].links = 1
          /\ obj[g].info \/ entry[g].known => told[g].created = 1 \/ Waits("FrameCreated", g)
          /\ told[g].created = 1 /\ ~obj[g].info =>
               told[g].gone > 0 \/ Waits("FrameDestroyed", g)
      BY <1>1 DEF FramesInv, NoteInv, FramesAreTold
    <3>3. \A t \in FrameNotes : Waits(t, g)' <=> Waits(t, g) /\ ~(t = type /\ g = f)
      BY <1>4
    <3>4. CASE g # f
      BY <1>3, <3>2, <3>3, <3>4 DEF FrameNotes
    <3>5. CASE g = f
      <4>1. CASE type = "FrameCreated"
        BY <1>6, <1>9, <2>1, <3>2, <3>3, <3>5, <4>1 DEF FrameNotes
      <4>2. CASE type = "FrameDetached"
        BY <1>6, <1>9, <2>1, <3>2, <3>3, <3>5, <4>2 DEF FrameNotes
      <4>3. CASE type = "FrameDestroyed"
        BY <1>6, <1>7, <1>9, <2>1, <3>2, <3>3, <3>5, <4>3 DEF FrameNotes
      <4> QED
        BY <1>5, <4>1, <4>2, <4>3 DEF FrameNotes
    <3> QED
      BY <3>4, <3>5
  <2>3. \A old, new \in Mains \cup {None} : MainWaits(old, new)' <=> MainWaits(old, new)
    BY <1>1, NotesAreNotes, NotesDiffer DEF MainWaits
  <2>4. \A old \in Mains : told[old].created = 1 => told'[old].created = 1
    BY <1>3, <1>9 DEF Frames
  <2>5. (Hears' => Hears) /\ InCallbacks
    BY <1>1 DEF Hears, InCallbacks
  <2>6. MainIsTold'
    BY <1>1, <1>2, <2>3, <2>4, <2>5 DEF FramesInv, NoteInv, MainIsTold
  <2> QED
    BY <1>1, <2>2, <2>6 DEF NoteInv
<1> QED
  BY <1>2, <1>3, <1>5, <1>6, <1>7, <1>9, <1>11, <1>12, <1>13, <1>14
     DEF FramesInv, FrameNotes

\* The client hears of another main frame.
LEMMA MainNoteKeeps ==
  ASSUME FramesInv, Deliver, NEW old \in Mains \cup {None}, NEW new \in Mains \cup {None},
         Head(queue) = MainNote(old, new)
  PROVE  /\ FramesInv' /\ told' = told /\ obj' = obj
         /\ old = toldMain /\ new = mainFrame /\ toldMain' = mainFrame
         /\ toldMain # None => told[toldMain].gone > 0 /\ ~obj[toldMain].info
         /\ mainFrame # None => told[mainFrame].created = 1 /\ obj[mainFrame].info
<1> DEFINE h == MainNote(old, new)
<1>1. /\ queue # <<>> /\ Hears /\ h \in Notes /\ Has(queue, h)
      /\ queue' \in Seq(Notes) /\ InOrder(queue')
      /\ \A m \in Notes : Has(queue, m) => m = h \/ Rank(h) < Rank(m)
      /\ \A m \in Notes : Has(queue', m) <=> Has(queue, m) /\ m # h
      /\ rfh' = rfh /\ parent' = parent /\ tearing' = tearing /\ entry' = entry
      /\ browser' = browser /\ handler' = handler /\ mainFrame' = mainFrame
      /\ check' = check /\ obj' = obj /\ asked' = asked /\ ran' = ran
      /\ Tell(h)
      /\ tasks' \in Seq(1 .. MaxNav) /\ parked' \in 0 .. MaxNav
  BY DeliveredNote
<1>2. toldMain' = new /\ told' = told
  <2>1. h.type = "MainFrameChanged" /\ h.new = new
    BY DEF MainNote
  <2> HIDE DEF h
  <2> QED
    BY <1>1, <2>1 DEF Tell
<1>3. /\ old = toldMain /\ new = mainFrame
      /\ old # None => ~obj[old].info /\ told[old].created = 1
  BY <1>1 DEF FramesInv, NoteInv, MainIsTold, MainWaits
<1>4. \A g \in Frames, t \in FrameNotes : ~Waits(t, g) /\ ~Waits(t, g)'
  <2>1. TAKE g \in Frames, t \in FrameNotes
  <2>2. Rank(h) = 5 /\ Rank(Note(t, g)) \in 1 .. 4
    BY DEF Rank, MainNote, Note, FrameNotes
  <2>3. Note(t, g) \in Notes /\ Note(t, g) # h
    BY NotesAreNotes, NotesDiffer
  <2> QED
    BY <1>1, <2>2, <2>3 DEF Waits
<1>5. \A a, b \in Mains \cup {None} : ~MainWaits(a, b)'
  <2>1. TAKE a, b \in Mains \cup {None}
  <2>2. MainNote(a, b) \in Notes
    BY NotesAreNotes
  <2>3. Has(queue, MainNote(a, b)) => MainNote(a, b) = h
    BY <1>3 DEF FramesInv, NoteInv, MainIsTold, MainWaits
  <2> QED
    BY <1>1, <2>2, <2>3 DEF MainWaits
<1>6. TypeOK'
  BY <1>1, <1>2 DEF FramesInv, TypeOK
<1>7. ContentInv'
  BY <1>1 DEF FramesInv, ContentInv, SubFramesHavePages, BrowserFollowsLife, MainIsCurrent,
     EntriesFollowContent
<1>8. ObjectInv'
  BY <1>1 DEF FramesInv, ObjectInv, ObjectsFit, ValidObjects
<1>9. NoteInv'
  <2>1. FramesAreTold'
    BY <1>1, <1>2, <1>4 DEF FramesInv, NoteInv, FramesAreTold, FrameNotes
  <2>2. (Hears' => Hears) /\ InCallbacks
    BY <1>1 DEF Hears, InCallbacks
  <2>3. browser \in {"none", "open", "closing", "gone"} /\ handler \in BOOLEAN
    BY DEF FramesInv, TypeOK
  <2>4. MainIsTold'
    BY <1>1, <1>2, <1>3, <1>5, <2>2, <2>3 DEF FramesInv, NoteInv, MainIsTold
  <2> QED
    BY <1>1, <2>1, <2>4 DEF NoteInv
<1>10. toldMain # None => told[toldMain].gone > 0 /\ ~obj[toldMain].info
  <2>1. toldMain \in Mains \cup {None}
    BY StateTypes DEF FramesInv
  <2> QED
    BY <1>1, <1>3, <1>4, <2>1 DEF FramesInv, NoteInv, FramesAreTold, Frames, FrameNotes
<1>11. mainFrame # None => told[mainFrame].created = 1 /\ obj[mainFrame].info
  <2>1. mainFrame \in Mains \cup {None}
    BY StateTypes DEF FramesInv
  <2>2. mainFrame # None => obj[mainFrame].info
    BY DEF FramesInv, ObjectInv, ValidObjects
  <2> QED
    BY <1>1, <1>4, <2>1, <2>2 DEF FramesInv, NoteInv, FramesAreTold, Frames, FrameNotes
<1> QED
  BY <1>1, <1>2, <1>3, <1>6, <1>7, <1>8, <1>9, <1>10, <1>11 DEF FramesInv

-----------------------------------------------------------------------------
(* Frames are made.                                                          *)

\* A new frame enters the table, and is the main frame if it is the first.
LEMMA NewFrameEnters ==
  ASSUME FramesInv, queue = <<>>, NEW f \in Frames, NEW spec \in BOOLEAN,
         rfh[f] = "none", f \notin Excluded, MaybeCreateFrame(f, spec), browser = "open",
         f \in Mains /\ ~spec => mainFrame = None,
         (f \in Mains /\ spec) \/ f \in Subs => mainFrame # None,
         NEW life \in {"unborn", "speculative", "active"}, Turn(f, life),
         spec <=> life = "speculative", f \in Mains => life # "active",
         parent' \in [Subs -> Mains \cup {None}], tearing' = tearing, SubFramesHavePages'
  PROVE  FramesInv'
<1>1. ~entry[f].known
  BY DEF FramesInv, ContentInv, EntriesFollowContent, Ended
<1>2. /\ entry' = [entry EXCEPT ![f] = [known |-> TRUE, spec |-> spec, cached |-> FALSE]]
      /\ obj' = [obj EXCEPT ![f] = Fresh]
      /\ mainFrame' = IF f \in Mains /\ ~spec THEN f ELSE mainFrame
      /\ Announces({f})
      /\ check' = check /\ browser' = browser /\ handler' = handler
      /\ UNCHANGED <<navVars, clientVars>>
  BY <1>1, NewFrameIs
<1>3. /\ rfh' \in [Frames -> Lives] /\ rfh'[f] = life
      /\ \A g \in Frames \ {f} : rfh'[g] = rfh[g]
  BY StateTypes DEF FramesInv, Turn, Lives
<1>4. /\ entry' \in [Frames -> FrameInfo]
      /\ entry'[f].known /\ (entry'[f].spec <=> spec) /\ ~entry'[f].cached
      /\ \A g \in Frames \ {f} : entry'[g] = entry[g]
  BY <1>2, StateTypes DEF FramesInv, FrameInfo
<1>5. TypeOK'
  <2>1. obj' \in [Frames -> FrameHost]
    BY <1>2, StateTypes DEF FramesInv, FrameHost, Fresh
  <2>2. mainFrame' \in Mains \cup {None}
    BY <1>2, StateTypes DEF FramesInv
  <2>3. queue' \in Seq(Notes)
    BY <1>2 DEF Announces
  <2>4. /\ handler' \in BOOLEAN /\ browser' = "open" /\ check' \in BOOLEAN
        /\ tearing' \in BOOLEAN /\ told' = told /\ toldMain' = toldMain
        /\ parked' = parked /\ tasks' = tasks /\ asked' = asked /\ ran' = ran
    BY <1>2, StateTypes DEF FramesInv, navVars, clientVars
  <2> QED
    BY <1>3, <1>4, <2>1, <2>2, <2>3, <2>4 DEF FramesInv, TypeOK
<1>6. BrowserFollowsLife'
  <2>1. mainFrame' # None
    BY <1>2, StateTypes DEF FramesInv
  <2> QED
    BY <1>2, <2>1 DEF FramesInv, ContentInv, BrowserFollowsLife
<1>7. MainIsCurrent'
  <2>1. SUFFICES ASSUME NEW m \in Mains
                 PROVE  rfh'[m] \in Current <=> m = mainFrame'
    BY DEF MainIsCurrent
  <2>2. /\ rfh[m] \in Current <=> m = mainFrame
        /\ m \in Frames
    BY FramesAssumption DEF FramesInv, ContentInv, MainIsCurrent, Frames
  <2>3. mainFrame = None => rfh[m] \notin Current
    BY <2>2, FramesAssumption DEF Frames
  <2>4. CASE m = f
    BY <1>2, <1>3, <2>2, <2>4 DEF Current
  <2>5. CASE m # f
    BY <1>2, <1>3, <2>2, <2>3, <2>5, FramesAssumption DEF Frames
  <2> QED
    BY <2>4, <2>5
<1>8. EntriesFollowContent'
  <2>1. \A g \in Frames \ {f} : entry'[g] = entry[g] /\ rfh'[g] = rfh[g]
    BY <1>3, <1>4
  <2>2. rfh'[f] \notin Ended /\ rfh'[f] # "cached" /\ (spec <=> rfh'[f] = "speculative")
    BY <1>3 DEF Ended
  <2> QED
    BY <1>2, <1>4, <2>1, <2>2 DEF FramesInv, ContentInv, EntriesFollowContent
<1>9. ContentInv'
  BY <1>6, <1>7, <1>8 DEF ContentInv
<1> QED
  BY <1>5, <1>9, NewFrameKeeps DEF FramesInv

\* Another main frame leaves the pages of the sub-frames alone.
LEMMA PagesStay ==
  ASSUME FramesInv, NEW m \in Mains, rfh[m] = "none", parent' = parent,
         \A g \in Frames \ {m} : rfh'[g] = rfh[g]
  PROVE  SubFramesHavePages'
<1>1. \A s \in Subs : s # m /\ s \in Frames
  BY FramesAssumption DEF Frames
<1>2. \A s \in Subs : parent[s] # None => parent[s] \in Frames
  BY StateTypes DEF FramesInv
<1> QED
  BY <1>1, <1>2 DEF FramesInv, ContentInv, SubFramesHavePages

LEMMA ObserveWebContentsKeeps ==
  ASSUME FramesInv, NEW m \in Mains, ObserveWebContents(m)
  PROVE  FramesInv'
<1>1. /\ browser = "open" /\ mainFrame = None /\ Turn(m, "unborn") /\ MaybeCreateFrame(m, FALSE)
      /\ parent' = parent /\ tearing' = tearing /\ m \in Frames /\ m \notin Subs
      /\ m \notin Excluded
  BY FramesAssumption DEF ObserveWebContents, Turn, Frames
<1>2. queue = <<>> /\ rfh[m] = "none"
  BY <1>1 DEF FramesInv, NoteInv, MainIsTold, InCallbacks, ContentInv, BrowserFollowsLife
<1>3. SubFramesHavePages'
  <2>1. \A g \in Frames \ {m} : rfh'[g] = rfh[g]
    BY <1>1, StateTypes DEF FramesInv, Turn
  <2> QED
    BY <1>1, <1>2, <2>1, PagesStay
<1>4. parent' \in [Subs -> Mains \cup {None}]
  BY <1>1, StateTypes DEF FramesInv
<1> QED
  BY <1>1, <1>2, <1>3, <1>4, NewFrameEnters

LEMMA SpeculativeCreatedKeeps ==
  ASSUME FramesInv, NEW m \in Mains, SpeculativeCreated(m)
  PROVE  FramesInv'
<1>1. /\ Content /\ rfh[m] = "none" /\ \E o \in Mains : rfh[o] \in {"active", "dead"}
      /\ Turn(m, "speculative") /\ MaybeCreateFrame(m, TRUE)
      /\ parent' = parent /\ tearing' = tearing /\ m \in Frames /\ m \notin Subs
      /\ m \notin Excluded
  BY FramesAssumption DEF SpeculativeCreated, Frames
<1>2. queue = <<>> /\ browser = "open"
  BY <1>1, IdleIsQuiet
<1>3. mainFrame # None
  BY <1>1, <1>2 DEF FramesInv, ContentInv, BrowserFollowsLife, Frames
<1>4. SubFramesHavePages'
  <2>1. \A g \in Frames \ {m} : rfh'[g] = rfh[g]
    BY <1>1, StateTypes DEF FramesInv, Turn
  <2> QED
    BY <1>1, <1>2, <2>1, PagesStay
<1>5. parent' \in [Subs -> Mains \cup {None}]
  BY <1>1, StateTypes DEF FramesInv
<1> QED
  BY <1>1, <1>2, <1>3, <1>4, <1>5, NewFrameEnters

LEMMA SubFrameCreatedKeeps ==
  ASSUME FramesInv, NEW s \in Subs, SubFrameCreated(s)
  PROVE  FramesInv'
<1>1. PICK m \in Mains, spec \in BOOLEAN :
        /\ rfh[m] = "active" /\ parent' = [parent EXCEPT ![s] = m]
        /\ Turn(s, IF spec THEN "speculative" ELSE "active")
        /\ MaybeCreateFrame(s, spec)
  BY DEF SubFrameCreated
<1> DEFINE life == IF spec THEN "speculative" ELSE "active"
<1>2. Content /\ rfh[s] = "none" /\ tearing' = tearing /\ s \in Frames /\ m \in Frames
      /\ s \notin Mains
  BY FramesAssumption DEF SubFrameCreated, Frames
<1>3. queue = <<>> /\ browser = "open"
  BY <1>2, IdleIsQuiet
<1>4. mainFrame # None
  BY <1>1, <1>2, <1>3 DEF FramesInv, ContentInv, BrowserFollowsLife
<1>5. /\ rfh' \in [Frames -> Lives] /\ rfh'[s] = life
      /\ \A g \in Frames \ {s} : rfh'[g] = rfh[g]
  BY <1>1, <1>2, StateTypes DEF FramesInv, Turn, Lives
<1>6. /\ parent' \in [Subs -> Mains \cup {None}] /\ parent'[s] = m
      /\ \A t \in Subs \ {s} : parent'[t] = parent[t]
  BY <1>1, StateTypes DEF FramesInv
<1>7. SubFramesHavePages'
  <2>1. \A t \in Subs : t \in Frames /\ (parent[t] # None => parent[t] \in Frames \ {s})
    BY <1>2, StateTypes DEF FramesInv
  <2>2. life \in SubLives /\ m # None /\ m # s /\ life # "none"
    BY <1>2, FramesAssumption DEF SubLives
  <2>3. SUFFICES ASSUME NEW t \in Subs
                 PROVE  /\ rfh'[t] \in SubLives
                        /\ rfh'[t] = "none" => parent'[t] = None
                        /\ rfh'[t] \notin Ended =>
                             /\ parent'[t] # None
                             /\ rfh'[parent'[t]] \in {"active", "swapped", "cached", "leaving"}
    BY DEF SubFramesHavePages
  <2>4. CASE t = s
    <3>1. rfh'[m] = "active"
      BY <1>1, <1>2, <1>5, <2>2
    <3> QED
      BY <1>5, <1>6, <2>2, <2>4, <3>1
  <2>5. CASE t # s
    <3>1. /\ rfh[t] \in SubLives
          /\ rfh[t] = "none" => parent[t] = None
          /\ rfh[t] \notin Ended =>
               /\ parent[t] # None
               /\ rfh[parent[t]] \in {"active", "swapped", "cached", "leaving"}
      BY DEF FramesInv, ContentInv, SubFramesHavePages
    <3> QED
      BY <1>5, <1>6, <2>1, <2>5, <3>1
  <2> QED
    BY <2>4, <2>5
<1>8. CASE s \notin Excluded
  <2>1. life \in {"unborn", "speculative", "active"} /\ (spec <=> life = "speculative")
    OBVIOUS
  <2> HIDE DEF life
  <2>2. Turn(s, life)
    BY <1>1 DEF life
  <2> QED
    BY <1>1, <1>2, <1>3, <1>4, <1>6, <1>7, <1>8, <2>1, <2>2, NewFrameEnters
<1>9. CASE s \in Excluded
  <2>1. /\ obj' = obj /\ queue' = queue /\ mainFrame' = mainFrame /\ entry' = entry
        /\ check' = check /\ browser' = browser /\ handler' = handler
        /\ UNCHANGED navVars /\ UNCHANGED clientVars
    BY <1>1, <1>9 DEF MaybeCreateFrame
  <2>2. EntriesFollowContent'
    BY <1>5, <1>9, <2>1 DEF FramesInv, ContentInv, EntriesFollowContent
  <2>3. ~check' /\ check' \in BOOLEAN /\ entry' \in [Frames -> FrameInfo]
    BY <2>1, StateTypes DEF FramesInv, ObjectInv
  <2>4. rfh[m] # "none"
    BY <1>1
  <2> QED
    BY <1>2, <1>5, <1>6, <1>7, <2>1, <2>2, <2>3, <2>4, ContentKeeps
<1> QED
  BY <1>8, <1>9

-----------------------------------------------------------------------------
(* The main frame is replaced.                                               *)

\* The lives of all frames when m becomes current.
LEMMA ReplacedIs ==
  ASSUME FramesInv, browser = "open", NEW m \in Mains, rfh[m] \notin Current,
         ~Swapping, rfh' = Replaced(m), parent' = parent
  PROVE  /\ rfh' \in [Frames -> Lives]
         /\ rfh'[m] = "active"
         /\ \A f \in Frames \ {m, mainFrame} : rfh'[f] = rfh[f]
         /\ mainFrame # None =>
              rfh'[mainFrame] = IF rfh[mainFrame] = "dead" THEN "deleted" ELSE "swapped"
         /\ SubFramesHavePages'
<1>1. \A f \in Frames : IsCurrent(f) <=> f = mainFrame
  BY StateTypes DEF FramesInv, ContentInv, MainIsCurrent, IsCurrent, Current
<1>2. m \in Frames /\ m # mainFrame
  BY DEF FramesInv, ContentInv, MainIsCurrent, Frames
<1>3. \A f \in Frames : rfh'[f] = IF f = m THEN "active"
                                  ELSE IF f = mainFrame
                                       THEN (IF rfh[f] = "dead" THEN "deleted" ELSE "swapped")
                                       ELSE rfh[f]
  BY <1>1 DEF Replaced
<1>4. rfh' \in [Frames -> Lives]
  <2>1. \A f \in Frames : rfh'[f] \in Lives
    BY <1>3, StateTypes DEF FramesInv, Lives
  <2> QED
    BY <2>1 DEF Replaced
<1>5. mainFrame # None => mainFrame \in Frames
  BY StateTypes DEF FramesInv
<1>6. SubFramesHavePages'
  <2>1. SUFFICES ASSUME NEW s \in Subs
                 PROVE  /\ rfh'[s] \in SubLives
                        /\ rfh'[s] = "none" => parent[s] = None
                        /\ rfh'[s] \notin Ended =>
                             /\ parent[s] # None
                             /\ rfh'[parent[s]] \in {"active", "swapped", "cached", "leaving"}
    BY DEF SubFramesHavePages
  <2>2. /\ rfh[s] \in SubLives
        /\ rfh[s] = "none" => parent[s] = None
        /\ rfh[s] \notin Ended =>
             /\ parent[s] # None
             /\ rfh[parent[s]] \in {"active", "swapped", "cached", "leaving"}
    BY DEF FramesInv, ContentInv, SubFramesHavePages
  <2>3. s \in Frames /\ s # m /\ s # mainFrame /\ (parent[s] # None => parent[s] \in Frames)
    BY StateTypes DEF FramesInv
  <2>4. rfh'[s] = rfh[s]
    BY <1>3, <2>3
  <2>5. ASSUME rfh[s] \notin Ended
        PROVE  rfh'[parent[s]] \in {"active", "swapped", "cached", "leaving"}
    BY <1>3, <2>2, <2>3, <2>5
  <2> QED
    BY <2>2, <2>4, <2>5
<1> QED
  BY <1>2, <1>3, <1>4, <1>5, <1>6

\* A frame the browser knows becomes current and main_frame_.
LEMMA MainTakesOver ==
  ASSUME FramesInv, Content, NEW m \in Mains, rfh[m] \in {"speculative", "cached"},
         entry[m].known, rfh' = Replaced(m),
         parent' = parent, tearing' = tearing,
         browser' = browser, handler' = handler, UNCHANGED navVars, UNCHANGED clientVars,
         ~check', check' \in BOOLEAN,
         entry' \in [Frames -> FrameInfo],
         \A f \in Frames \ {m} : entry'[f] = entry[f],
         entry'[m].known, ~entry'[m].spec, ~entry'[m].cached,
         SetMainFrame([obj EXCEPT ![m] = Attached(@)], m, <<>>)
  PROVE  FramesInv'
<1> DEFINE objs == [obj EXCEPT ![m] = Attached(@)]
<1>1. queue = <<>> /\ browser = "open" /\ ~Swapping
  BY IdleIsQuiet
<1>2. m \in Frames /\ rfh[m] \notin Current /\ rfh[m] \notin Ended
  BY DEF Frames, Current, Ended
<1>3. /\ mainFrame # None /\ mainFrame \in Mains /\ mainFrame \in Frames
      /\ rfh[mainFrame] \in Current /\ mainFrame # m
  <2>1. mainFrame # None /\ mainFrame \in Mains
    BY <1>1, <1>2, StateTypes DEF FramesInv, ContentInv, BrowserFollowsLife, Ended
  <2> QED
    BY <1>1, <1>2, <2>1 DEF FramesInv, ContentInv, MainIsCurrent, Frames
<1>4. /\ rfh' \in [Frames -> Lives] /\ rfh'[m] = "active"
      /\ \A f \in Frames \ {m, mainFrame} : rfh'[f] = rfh[f]
      /\ rfh'[mainFrame] = IF rfh[mainFrame] = "dead" THEN "deleted" ELSE "swapped"
      /\ SubFramesHavePages'
  BY <1>1, <1>2, <1>3, ReplacedIs
<1>5. objs \in [Frames -> FrameHost] /\ \A f \in Frames \ {m} : objs[f] = obj[f]
  <2>1. Attached(obj[m]) \in FrameHost
    <3>1. obj[m] \in FrameHost
      BY <1>2, StateTypes DEF FramesInv
    <3> QED
      BY <3>1 DEF Attached, FrameHost
  <2> QED
    BY <1>2, <2>1, StateTypes DEF FramesInv
<1>6. /\ objs[m].host /\ objs[m].info
      /\ objs[m].bound = obj[m].bound /\ objs[m].queued = obj[m].queued
  <2>1. obj[m] \in FrameHost /\ objs[m] = Attached(obj[m])
    BY <1>2, StateTypes DEF FramesInv
  <2> HIDE DEF objs
  <2>2. CASE obj[m].host
    BY <1>2, <2>1, <2>2 DEF Attached, FramesInv, ObjectInv, ObjectsFit
  <2>3. CASE ~obj[m].host
    BY <2>1, <2>3 DEF Attached, FrameHost
  <2> QED
    BY <2>2, <2>3
<1>7. obj[mainFrame].info
  BY <1>3 DEF FramesInv, ObjectInv, ValidObjects
<1> HIDE DEF objs
<1>8. /\ Announces({}) /\ mainFrame' = m
      /\ obj' = [objs EXCEPT ![mainFrame] = Detached(@, FALSE)]
  <2>1. SetMainFrame(objs, m, <<>>)
    BY DEF objs
  <2>2. \A g \in Frames : objs[g].bound = obj[g].bound /\ (obj[g].info => objs[g].info)
    BY <1>5, <1>6
  <2>3. {} \in SUBSET Frames
    OBVIOUS
  <2>4. \A n : Has(<<>>, n) <=> \E g \in {} : n = Note("FrameCreated", g)
    BY NoNote
  <2>5. m \in Mains \cup {None} /\ m # mainFrame
    BY <1>3
  <2>6. /\ Announces({})
        /\ mainFrame' = m
        /\ obj' = IF mainFrame = None THEN objs
                  ELSE [objs EXCEPT ![mainFrame] = Detached(@, FALSE)]
    BY <1>1, <1>5, <1>7, <2>1, <2>2, <2>3, <2>4, <2>5, NoNote, SetMainAnnounces DEF FramesInv
  <2> QED
    BY <1>3, <2>6
<1>9. /\ obj' \in [Frames -> FrameHost]
      /\ obj'[m] = objs[m] /\ \A f \in Frames \ {m, mainFrame} : obj'[f] = obj[f]
      /\ ~obj'[mainFrame].host /\ ~obj'[mainFrame].info
      /\ ~obj'[mainFrame].bound /\ ~obj'[mainFrame].queued
  <2>1. obj'[mainFrame] = Detached(objs[mainFrame], FALSE) /\ objs[mainFrame] \in FrameHost
    BY <1>3, <1>5, <1>8
  <2>2. Detached(objs[mainFrame], FALSE) \in FrameHost
        /\ ~Detached(objs[mainFrame], FALSE).host /\ ~Detached(objs[mainFrame], FALSE).info
        /\ ~Detached(objs[mainFrame], FALSE).bound /\ ~Detached(objs[mainFrame], FALSE).queued
    BY <2>1, DetachedIs
  <2>3. obj' \in [Frames -> FrameHost]
    BY <1>5, <1>8, <2>2
  <2> QED
    BY <1>2, <1>3, <1>5, <1>8, <2>1, <2>2, <2>3
<1>10. TypeOK'
  <2>1. queue' \in Seq(Notes) /\ mainFrame' \in Mains \cup {None}
    BY <1>8 DEF Announces
  <2> QED
    BY <1>4, <1>9, <2>1 DEF FramesInv, TypeOK, navVars, clientVars
<1>11. ContentInv'
  <2>1. BrowserFollowsLife'
    BY <1>1, <1>2, <1>8, FramesAssumption DEF FramesInv, ContentInv, BrowserFollowsLife
  <2>2. MainIsCurrent'
    <3>1. SUFFICES ASSUME NEW o \in Mains
                   PROVE  rfh'[o] \in Current <=> o = m
      BY <1>8 DEF MainIsCurrent
    <3>2. o \in Frames /\ (rfh[o] \in Current <=> o = mainFrame)
      BY <1>1 DEF FramesInv, ContentInv, MainIsCurrent, Frames
    <3> QED
      BY <1>3, <1>4, <3>2 DEF Current
  <2>3. EntriesFollowContent'
    <3>1. SUFFICES ASSUME NEW f \in Frames
                   PROVE  /\ entry'[f].known <=>
                               browser = "open" /\ f \notin Excluded /\ rfh'[f] \notin Ended
                          /\ ~entry'[f].known => entry'[f] = Unmade
                          /\ entry'[f].known =>
                               /\ entry'[f].spec <=> rfh'[f] = "speculative"
                               /\ rfh'[f] = "cached" => entry'[f].cached
                               /\ entry'[f].cached => rfh'[f] \in {"cached", "leaving"}
      BY DEF EntriesFollowContent
    <3>2. /\ entry[f].known <=> browser = "open" /\ f \notin Excluded /\ rfh[f] \notin Ended
          /\ ~entry[f].known => entry[f] = Unmade
          /\ entry[f].known =>
               /\ entry[f].spec <=> rfh[f] = "speculative"
               /\ rfh[f] = "cached" => entry[f].cached
               /\ entry[f].cached => rfh[f] \in {"cached", "leaving"}
      BY DEF FramesInv, ContentInv, EntriesFollowContent
    <3>3. CASE f = m
      BY <1>1, <1>2, <1>4, <3>2, <3>3 DEF Ended
    <3>4. CASE f = mainFrame
      BY <1>3, <1>4, <3>2, <3>4 DEF Ended, Current
    <3>5. CASE f \notin {m, mainFrame}
      BY <1>4, <3>2, <3>5
    <3> QED
      BY <3>3, <3>4, <3>5
  <2> QED
    BY <1>4, <2>1, <2>2, <2>3 DEF ContentInv
<1>12. ObjectInv'
  <2>1. ObjectsFit'
    <3>1. SUFFICES ASSUME NEW f \in Frames
                   PROVE  /\ obj'[f].host => obj'[f].info
                          /\ obj'[f].bound => /\ obj'[f].host /\ entry'[f].known
                                              /\ rfh'[f] # "unborn"
                          /\ obj'[f].queued => obj'[f].info /\ ~obj'[f].bound
                          /\ entry'[f].known /\ obj'[f].info => obj'[f].host
      BY DEF ObjectsFit
    <3>2. /\ obj[f].host => obj[f].info
          /\ obj[f].bound => obj[f].host /\ entry[f].known /\ rfh[f] # "unborn"
          /\ obj[f].queued => obj[f].info /\ ~obj[f].bound
          /\ entry[f].known /\ obj[f].info => obj[f].host
      BY DEF FramesInv, ObjectInv, ObjectsFit
    <3>3. CASE f = m
      BY <1>4, <1>6, <1>9, <3>2, <3>3
    <3>4. CASE f = mainFrame
      BY <1>9, <3>4
    <3>5. CASE f \notin {m, mainFrame}
      BY <1>4, <1>9, <3>2, <3>5
    <3> QED
      BY <3>3, <3>4, <3>5
  <2>2. ValidObjects'
    <3>1. ASSUME NEW f \in Frames, obj'[f].info
          PROVE  /\ entry'[f].known \/ f = m
                 /\ f \in Mains => f = m \/ rfh'[f] = "speculative"
      <4>1. CASE f = m
        BY <4>1
      <4>2. CASE f # m
        BY <1>4, <1>9, <3>1, <4>2 DEF FramesInv, ObjectInv, ValidObjects
      <4> QED
        BY <4>1, <4>2
    <3>2. \A s \in Subs : entry'[s].known => obj'[s].info
      <4>1. \A s \in Subs : s \in Frames \ {m, mainFrame}
        BY <1>3, FramesAssumption DEF Frames
      <4> QED
        BY <1>9, <4>1 DEF FramesInv, ObjectInv, ValidObjects
    <3>3. obj'[m].info
      BY <1>6, <1>9
    <3> QED
      BY <1>8, <3>1, <3>2, <3>3 DEF ValidObjects
  <2> QED
    BY <2>1, <2>2 DEF ObjectInv
<1>13. BatchStep({})
  <2>1. \A g \in Frames :
          /\ rfh'[g] = "none" => rfh[g] = "none"
          /\ obj'[g].bound => obj[g].bound
          /\ obj'[g].info \/ entry'[g].known => entry[g].known \/ obj[g].info
    <3>1. TAKE g \in Frames
    <3>2. CASE g = m
      BY <1>4, <1>6, <1>9, <3>2
    <3>3. CASE g = mainFrame
      BY <1>3, <1>4, <1>9, <3>3
    <3>4. CASE g \notin {m, mainFrame}
      BY <1>4, <1>9, <3>4
    <3> QED
      BY <3>2, <3>3, <3>4
  <2>2. mainFrame' # None
    BY <1>8, FramesAssumption DEF Frames
  <2> QED
    BY <1>1, <1>8, <1>9, <2>1, <2>2 DEF BatchStep
<1>14. NoteInv'
  BY <1>10, <1>13, BatchKeepsNotes DEF FramesInv
<1> QED
  BY <1>10, <1>11, <1>12, <1>14 DEF FramesInv

LEMMA RestorePageKeeps ==
  ASSUME FramesInv, NEW m \in Mains, RestorePage(m)
  PROVE  FramesInv'
<1>1. /\ Content /\ rfh[m] = "cached" /\ rfh' = Replaced(m) /\ LeaveCache(m)
      /\ parent' = parent /\ tearing' = tearing /\ m \in Frames /\ m \notin Excluded
  BY FramesAssumption DEF RestorePage, Frames
<1>2. entry[m].known /\ entry[m].cached /\ ~entry[m].spec
  BY <1>1, IdleIsQuiet DEF FramesInv, ContentInv, EntriesFollowContent, Ended
<1>3. /\ check' = (check \/ AttachFails(obj[m]) \/ ~entry[m].cached)
      /\ entry' = [entry EXCEPT ![m].cached = FALSE]
      /\ SetMainFrame([obj EXCEPT ![m] = Attached(@)], m, <<>>)
      /\ browser' = browser /\ handler' = handler /\ UNCHANGED navVars /\ UNCHANGED clientVars
  BY <1>1, <1>2 DEF LeaveCache
<1>4. ~check' /\ check' \in BOOLEAN
  <2>1. ~AttachFails(obj[m])
    BY <1>1 DEF FramesInv, ObjectInv, ObjectsFit, AttachFails
  <2> QED
    BY <1>2, <1>3, <2>1 DEF FramesInv, ObjectInv
<1>5. /\ entry' \in [Frames -> FrameInfo]
      /\ \A f \in Frames \ {m} : entry'[f] = entry[f]
      /\ entry'[m].known /\ ~entry'[m].spec /\ ~entry'[m].cached
  BY <1>1, <1>2, <1>3, StateTypes DEF FramesInv, FrameInfo
<1>6. rfh[m] \in {"speculative", "cached"}
  BY <1>1
<1> QED
  BY <1>1, <1>2, <1>3, <1>4, <1>5, <1>6, MainTakesOver

LEMMA RenderFrameHostChangedKeeps ==
  ASSUME FramesInv, NEW f \in Frames, RenderFrameHostChanged(f)
  PROVE  FramesInv'
<1>1. /\ Content /\ rfh[f] = "speculative" /\ MaybeCreateFrame(f, FALSE)
      /\ IF f \in Mains THEN rfh' = Replaced(f) ELSE Turn(f, "active")
      /\ parent' = parent /\ tearing' = tearing
  BY DEF RenderFrameHostChanged
<1>2. /\ browser = "open" /\ queue \in Seq(Notes) /\ entry \in [Frames -> FrameInfo]
      /\ entry[f] \in FrameInfo /\ obj \in [Frames -> FrameHost] /\ check \in BOOLEAN /\ ~check
  BY <1>1, IdleIsQuiet DEF FramesInv, TypeOK, ObjectInv
<1>3. f \notin Excluded => entry[f].known /\ entry[f].spec /\ ~entry[f].cached
  BY <1>1, <1>2 DEF FramesInv, ContentInv, EntriesFollowContent, Ended
<1>4. ASSUME f \notin Excluded
      PROVE  /\ check' = (check \/ AttachFails(obj[f])) /\ ~check' /\ check' \in BOOLEAN
             /\ IF f \in Mains THEN SetMainFrame([obj EXCEPT ![f] = Attached(@)], f, <<>>)
                               ELSE KeepMainFrame([obj EXCEPT ![f] = Attached(@)], <<>>)
             /\ entry' \in [Frames -> FrameInfo]
             /\ \A g \in Frames \ {f} : entry'[g] = entry[g]
             /\ entry'[f].known /\ ~entry'[f].spec /\ ~entry'[f].cached
             /\ browser' = browser /\ handler' = handler
             /\ UNCHANGED navVars /\ UNCHANGED clientVars
  <2>1. /\ check' = (check \/ AttachFails(obj[f]))
        /\ IF f \in Mains THEN SetMainFrame([obj EXCEPT ![f] = Attached(@)], f, <<>>)
                          ELSE KeepMainFrame([obj EXCEPT ![f] = Attached(@)], <<>>)
        /\ entry' = [entry EXCEPT ![f].spec = @ /\ ~(entry[f].spec /\ ~FALSE)]
        /\ browser' = browser /\ handler' = handler
        /\ UNCHANGED navVars /\ UNCHANGED clientVars
    BY <1>1, <1>3, <1>4 DEF MaybeCreateFrame, UpgradeFrame
  <2>2. ~check' /\ check' \in BOOLEAN
    BY <1>2, <2>1 DEF FramesInv, ObjectInv, ObjectsFit, AttachFails
  <2>3. /\ entry' \in [Frames -> FrameInfo]
        /\ \A g \in Frames \ {f} : entry'[g] = entry[g]
        /\ entry'[f].known /\ ~entry'[f].spec /\ ~entry'[f].cached
    BY <1>2, <1>3, <1>4, <2>1 DEF FrameInfo
  <2> QED
    BY <2>1, <2>2, <2>3
<1>5. CASE f \in Mains
  <2>1. f \notin Excluded /\ rfh[f] \in {"speculative", "cached"}
    BY <1>1, <1>5, FramesAssumption
  <2>2. entry[f].known /\ rfh' = Replaced(f)
    BY <1>1, <1>3, <1>5, <2>1
  <2> QED
    BY <1>1, <1>4, <1>5, <2>1, <2>2, MainTakesOver
<1>6. CASE f \notin Mains
  <2>1. f \in Subs /\ rfh' = [rfh EXCEPT ![f] = "active"]
    BY <1>1, <1>6 DEF Turn, Frames
  <2>2. /\ rfh' \in [Frames -> Lives] /\ rfh'[f] = "active"
        /\ \A g \in Frames \ {f} : rfh'[g] = rfh[g]
    BY <2>1, StateTypes DEF FramesInv, Lives
  <2>3. SubFramesHavePages'
    <3>1. \A t \in Subs : t \in Frames /\ parent[t] # f
      BY <2>1, FramesAssumption, StateTypes DEF FramesInv, Frames
    <3>2. \A t \in Subs : parent[t] # None => parent[t] \in Frames
      BY StateTypes DEF FramesInv
    <3> QED
      BY <1>1, <2>1, <2>2, <3>1, <3>2 DEF FramesInv, ContentInv, SubFramesHavePages, SubLives,
         Ended
  <2>4. /\ obj' = obj /\ mainFrame' = mainFrame /\ queue' = queue
        /\ browser' = browser /\ handler' = handler /\ UNCHANGED navVars /\ UNCHANGED clientVars
        /\ ~check' /\ check' \in BOOLEAN /\ entry' \in [Frames -> FrameInfo]
        /\ \A g \in Frames \ {f} : entry'[g] = entry[g]
        /\ entry'[f].known = entry[f].known
        /\ ~entry[f].known => entry'[f] = entry[f]
        /\ entry[f].known => ~entry'[f].spec /\ ~entry'[f].cached
    <3>1. CASE f \in Excluded
      <4>1. /\ obj' = obj /\ mainFrame' = mainFrame /\ queue' = queue /\ entry' = entry
            /\ check' = check
            /\ browser' = browser /\ handler' = handler
            /\ UNCHANGED navVars /\ UNCHANGED clientVars
        BY <1>1, <3>1 DEF MaybeCreateFrame
      <4>2. ~entry[f].known
        BY <3>1 DEF FramesInv, ContentInv, EntriesFollowContent
      <4> QED
        BY <1>2, <4>1, <4>2
    <3>2. CASE f \notin Excluded
      <4>1. obj[f].host
        BY <1>3, <2>1, <3>2 DEF FramesInv, ObjectInv, ValidObjects, ObjectsFit
      <4>2. [obj EXCEPT ![f] = Attached(@)] = obj
        BY <1>2, <4>1 DEF Attached
      <4>3. queue' = queue /\ mainFrame' = mainFrame /\ obj' = obj
        BY <1>2, <1>4, <1>6, <3>2, <4>2, ConcatEmptySeq DEF KeepMainFrame, Collect
      <4>4. entry' \in [Frames -> FrameInfo] /\ entry'[f].known = entry[f].known
        BY <1>2, <1>3, <1>4, <3>2 DEF FrameInfo
      <4> QED
        BY <1>3, <1>4, <3>2, <4>3, <4>4
    <3> QED
      BY <3>1, <3>2
  <2>5. EntriesFollowContent'
    BY <1>1, <2>2, <2>4 DEF FramesInv, ContentInv, EntriesFollowContent, Ended
  <2>6. \A g \in Frames : /\ rfh'[g] = "none" => rfh[g] = "none"
                          /\ rfh'[g] = "unborn" => rfh[g] = "unborn"
                          /\ g \in Mains => (rfh'[g] \in Current <=> rfh[g] \in Current)
                          /\ rfh[g] = "speculative" => rfh'[g] = "speculative" \/ g \in Subs
                          /\ entry'[g].known = entry[g].known
    BY <1>6, <2>1, <2>2, <2>4
  <2>7. parent' \in [Subs -> Mains \cup {None}] /\ rfh[f] # "none"
    BY <1>1, StateTypes DEF FramesInv
  <2> QED
    BY <1>1, <2>2, <2>3, <2>4, <2>5, <2>6, <2>7, ContentKeeps
<1> QED
  BY <1>5, <1>6

-----------------------------------------------------------------------------
(* Frames end.                                                               *)

\* RemoveFrame keeps only what the current main frame knows.
LEMMA RemoveFrameIs ==
  ASSUME FramesInv, queue = <<>>, browser = "open", NEW f \in Frames, rfh[f] \notin Ended,
         RemoveFrame(f)
  PROVE  /\ entry' = [entry EXCEPT ![f] = Unmade]
         /\ obj' \in [Frames -> FrameHost]
         /\ \A g \in Frames \ {f} : obj'[g] = obj[g]
         /\ ~obj'[f].host /\ ~obj'[f].bound
         /\ obj'[f].queued => obj'[f].info
         /\ obj'[f].info <=> f = mainFrame
         /\ f = mainFrame => obj[f].info
         /\ mainFrame' = mainFrame /\ Announces({})
         /\ browser' = browser /\ handler' = handler /\ check' = check
         /\ UNCHANGED navVars /\ UNCHANGED clientVars
<1> DEFINE current == IsCurrentMainFrame(f)
<1>1. /\ entry \in [Frames -> FrameInfo] /\ entry[f] \in FrameInfo
      /\ obj \in [Frames -> FrameHost] /\ obj[f] \in FrameHost /\ current \in BOOLEAN
      /\ queue \in Seq(Notes)
  BY StateTypes DEF FramesInv, TypeOK, IsCurrentMainFrame
<1>2. f = mainFrame => obj[f].info /\ f \in Mains /\ rfh[f] \in Current
  BY StateTypes DEF FramesInv, ObjectInv, ValidObjects, ContentInv, MainIsCurrent
<1>3. /\ browser' = browser /\ handler' = handler /\ check' = check
      /\ UNCHANGED navVars /\ UNCHANGED clientVars
  BY DEF RemoveFrame
<1>4. CASE entry[f].known
  <2>1. /\ entry' = [entry EXCEPT ![f] = Unmade] /\ mainFrame' = mainFrame
        /\ obj' = [obj EXCEPT ![f] = Detached(@, current)]
        /\ Collect(DetachNotes(f, obj[f], current))
    BY <1>4 DEF RemoveFrame, KeepMainFrame
  <2>2. /\ f = mainFrame => current
        /\ current /\ f # mainFrame => ~obj[f].info
        /\ obj[f].info => (current <=> f = mainFrame)
    <3>1. f = mainFrame => current
      BY <1>2, <1>4 DEF IsCurrentMainFrame, FramesInv, ContentInv, EntriesFollowContent, Current
    <3>2. current => f \in Mains /\ rfh[f] # "speculative"
      BY <1>4 DEF IsCurrentMainFrame, FramesInv, ContentInv, EntriesFollowContent
    <3>3. current /\ obj[f].info => f = mainFrame
      BY <3>2 DEF FramesInv, ObjectInv, ValidObjects
    <3> QED
      BY <3>1, <3>3
  <2>3. obj'[f] = Detached(obj[f], current) /\ \A g \in Frames \ {f} : obj'[g] = obj[g]
    BY <1>1, <2>1
  <2>4. /\ obj'[f] \in FrameHost /\ ~obj'[f].host /\ ~obj'[f].bound
        /\ obj'[f].info <=> current /\ obj[f].info
        /\ obj'[f].queued <=> current /\ obj[f].queued
    <3> HIDE DEF current
    <3>1. CASE current
      <4>1. current = TRUE
        BY <1>1, <3>1
      <4>2. obj'[f] = Detached(obj[f], TRUE)
        BY <2>3, <4>1
      <4>3. /\ Detached(obj[f], TRUE) \in FrameHost
            /\ ~Detached(obj[f], TRUE).host /\ ~Detached(obj[f], TRUE).bound
            /\ (Detached(obj[f], TRUE).info <=> obj[f].info)
            /\ (Detached(obj[f], TRUE).queued <=> obj[f].queued)
        BY <1>1, DetachedIs
      <4> QED
        BY <3>1, <4>2, <4>3
    <3>2. CASE ~current
      <4>1. current = FALSE
        BY <1>1, <3>2
      <4>2. obj'[f] = Detached(obj[f], FALSE)
        BY <2>3, <4>1
      <4>3. /\ Detached(obj[f], FALSE) \in FrameHost
            /\ ~Detached(obj[f], FALSE).host /\ ~Detached(obj[f], FALSE).bound
            /\ ~Detached(obj[f], FALSE).info /\ ~Detached(obj[f], FALSE).queued
        BY <1>1, DetachedIs
      <4> QED
        BY <3>2, <4>2, <4>3
    <3> QED
      BY <3>1, <3>2
  <2>5. obj'[f].info <=> f = mainFrame
    BY <1>2, <2>2, <2>4
  <2>6. obj'[f].queued => obj'[f].info
    BY <2>4 DEF FramesInv, ObjectInv, ObjectsFit
  <2>7. obj' \in [Frames -> FrameHost]
    BY <1>1, <2>1, <2>3, <2>4
  <2>8. Announces({})
    <3> DEFINE notes == DetachNotes(f, obj[f], current)
    <3>1. /\ notes \in Seq(Notes) /\ InOrder(notes)
          /\ \A m : Has(notes, m) <=>
               \/ obj[f].bound /\ m = Note("FrameDetached", f)
               \/ ~current /\ obj[f].info /\ m = Note("FrameDestroyed", f)
      BY <1>1, DetachNotesAre
    <3> HIDE DEF notes
    <3>2. /\ queue' \in Seq(Notes) /\ InOrder(queue')
          /\ \A m : Has(queue', m) <=> handler /\ Has(notes, m)
      BY <2>1, <3>1, Collected DEF notes
    <3>3. \A g \in Frames :
            /\ obj[g].bound /\ ~obj'[g].bound <=> g = f /\ obj[f].bound
            /\ obj[g].info /\ ~obj'[g].info <=> g = f /\ obj[f].info /\ ~current
      BY <2>2, <2>3, <2>4
    <3> HIDE DEF current
    <3>4. \A m \in Notes : Has(notes, m) <=> IsNews({}, m)
      BY <2>1, <3>1, <3>3 DEF IsNews
    <3> QED
      BY <3>2, <3>4 DEF Announces
  <2> QED
    BY <1>2, <1>3, <2>1, <2>3, <2>4, <2>5, <2>6, <2>7, <2>8
<1>5. CASE ~entry[f].known
  <2>1. obj' = obj /\ queue' = queue /\ mainFrame' = mainFrame /\ entry' = entry
    BY <1>5 DEF RemoveFrame
  <2>2. f \in Excluded /\ f \in Subs /\ f # mainFrame
    BY <1>5, StateTypes DEF FramesInv, ContentInv, EntriesFollowContent
  <2>3. ~obj[f].info /\ ~obj[f].host /\ ~obj[f].bound /\ ~obj[f].queued
    BY <1>5, <2>2 DEF FramesInv, ObjectInv, ObjectsFit, ValidObjects
  <2>4. entry[f] = Unmade
    BY <1>5 DEF FramesInv, ContentInv, EntriesFollowContent
  <2>5. entry' = [entry EXCEPT ![f] = Unmade]
    BY <1>1, <2>1, <2>4
  <2>6. Announces({})
    BY <2>1, NoNote DEF Announces, IsNews
  <2> QED
    BY <1>1, <1>2, <1>3, <2>1, <2>2, <2>3, <2>5, <2>6
<1> QED
  BY <1>4, <1>5

LEMMA RenderFrameDeletedKeeps ==
  ASSUME FramesInv, NEW f \in Frames, RenderFrameDeleted(f)
  PROVE  FramesInv'
<1>1. /\ Idle /\ browser = "open" /\ rfh[f] \in {"speculative", "active", "leaving", "cached"}
      /\ f \in Mains => Children(f) = {}
      /\ rfh' = [g \in Frames |->
           CASE g = f -> IF IsCurrent(f) THEN "dead" ELSE "deleted"
             [] f \in Subs /\ rfh[f] = "cached" /\ g = parent[f] -> "leaving"
             [] OTHER -> rfh[g]]
      /\ RemoveFrame(f)
      /\ parent' = parent /\ tearing' = tearing
  BY DEF RenderFrameDeleted
<1>2. queue = <<>> /\ rfh[f] \notin Ended
  BY <1>1 DEF Idle, InCallbacks, Ended
<1>3. /\ entry' = [entry EXCEPT ![f] = Unmade]
      /\ obj' \in [Frames -> FrameHost]
      /\ \A g \in Frames \ {f} : obj'[g] = obj[g]
      /\ ~obj'[f].host /\ ~obj'[f].bound
      /\ obj'[f].queued => obj'[f].info
      /\ obj'[f].info <=> f = mainFrame
      /\ f = mainFrame => obj[f].info
      /\ mainFrame' = mainFrame /\ Announces({})
      /\ browser' = browser /\ handler' = handler /\ check' = check
      /\ UNCHANGED navVars /\ UNCHANGED clientVars
  BY <1>1, <1>2, RemoveFrameIs
<1>4. mainFrame # None /\ mainFrame \in Mains /\ rfh[mainFrame] \in Current
      /\ (IsCurrent(f) <=> f = mainFrame)
  <2>1. mainFrame # None
    BY <1>1, <1>2 DEF FramesInv, ContentInv, BrowserFollowsLife, Ended
  <2>2. mainFrame \in Mains
    BY <2>1, StateTypes DEF FramesInv
  <2> QED
    BY <1>1, <2>1, <2>2 DEF FramesInv, ContentInv, MainIsCurrent, IsCurrent, Current
<1> DEFINE p == parent[f]
           cachedSub == f \in Subs /\ rfh[f] = "cached"
<1>5. cachedSub => p \in Mains /\ p \in Frames /\ p # f /\ rfh[p] \in {"cached", "leaving"}
  <2>1. SUFFICES ASSUME cachedSub
                 PROVE  p \in Mains /\ p \in Frames /\ p # f /\ rfh[p] \in {"cached", "leaving"}
    OBVIOUS
  <2>2. p # None /\ rfh[p] \in {"active", "swapped", "cached", "leaving"}
    BY <1>2, <2>1 DEF FramesInv, ContentInv, SubFramesHavePages
  <2>3. p \in Mains
    BY <2>1, <2>2, StateTypes DEF FramesInv
  <2>4. rfh[p] # "swapped" /\ rfh[p] # "active"
    BY <1>1, <2>1, <2>2, <2>3 DEF Idle, Swapping, Restoring
  <2> QED
    BY <2>1, <2>2, <2>3, <2>4, StateTypes DEF FramesInv
<1>6. \A g \in Frames :
        rfh'[g] = IF g = f THEN (IF f = mainFrame THEN "dead" ELSE "deleted")
                  ELSE IF cachedSub /\ g = p THEN "leaving" ELSE rfh[g]
  BY <1>1, <1>4, <1>5
<1> HIDE DEF p, cachedSub
<1>7. rfh' \in [Frames -> Lives]
  <2>1. \A g \in Frames : rfh'[g] \in Lives
    BY <1>6, StateTypes DEF FramesInv, Lives
  <2> QED
    BY <1>1, <2>1
<1>8. /\ entry' \in [Frames -> FrameInfo] /\ entry'[f] = Unmade
      /\ \A g \in Frames \ {f} : entry'[g] = entry[g]
  BY <1>3, StateTypes DEF FramesInv, FrameInfo, Unmade
<1>9. TypeOK'
  <2>1. queue' \in Seq(Notes)
    BY <1>3 DEF Announces
  <2> QED
    BY <1>1, <1>3, <1>7, <1>8, <2>1 DEF FramesInv, TypeOK, navVars, clientVars
<1>10. ContentInv'
  <2>1. SubFramesHavePages'
    <3>1. SUFFICES ASSUME NEW s \in Subs
                   PROVE  /\ rfh'[s] \in SubLives
                          /\ rfh'[s] = "none" => parent[s] = None
                          /\ rfh'[s] \notin Ended =>
                               /\ parent[s] # None
                               /\ rfh'[parent[s]] \in {"active", "swapped", "cached", "leaving"}
      BY <1>1 DEF SubFramesHavePages
    <3>2. /\ rfh[s] \in SubLives
          /\ rfh[s] = "none" => parent[s] = None
          /\ rfh[s] \notin Ended =>
               /\ parent[s] # None
               /\ rfh[parent[s]] \in {"active", "swapped", "cached", "leaving"}
      BY DEF FramesInv, ContentInv, SubFramesHavePages
    <3>3. s \in Frames /\ s \notin Mains /\ (parent[s] # None => parent[s] \in Mains \cap Frames)
      BY StateTypes DEF FramesInv
    <3>4. CASE s = f
      BY <1>4, <1>6, <3>3, <3>4 DEF SubLives, Ended
    <3>5. CASE s # f
      <4>1. rfh'[s] = rfh[s]
        BY <1>5, <1>6, <3>3, <3>5
      <4>2. ASSUME rfh[s] \notin Ended
            PROVE  rfh'[parent[s]] \in {"active", "swapped", "cached", "leaving"}
        <5>1. parent[s] # f
          <6>1. rfh[s] # "deleted"
            BY <4>2 DEF Ended
          <6> QED
            BY <1>1, <3>2, <3>3, <4>2, <6>1 DEF Children
        <5> QED
          BY <1>6, <3>2, <3>3, <4>2, <5>1
      <4> QED
        BY <3>2, <4>1, <4>2
    <3> QED
      BY <3>4, <3>5
  <2>2. BrowserFollowsLife'
    BY <1>1, <1>3, <1>4 DEF FramesInv, ContentInv, BrowserFollowsLife
  <2>3. MainIsCurrent'
    <3>1. SUFFICES ASSUME NEW m \in Mains
                   PROVE  rfh'[m] \in Current <=> m = mainFrame
      BY <1>3 DEF MainIsCurrent
    <3>2. m \in Frames /\ (rfh[m] \in Current <=> m = mainFrame)
      BY <1>1 DEF FramesInv, ContentInv, MainIsCurrent, Frames
    <3> QED
      BY <1>5, <1>6, <3>2 DEF Current
  <2>4. EntriesFollowContent'
    <3>1. SUFFICES ASSUME NEW g \in Frames
                   PROVE  /\ entry'[g].known <=>
                               browser = "open" /\ g \notin Excluded /\ rfh'[g] \notin Ended
                          /\ ~entry'[g].known => entry'[g] = Unmade
                          /\ entry'[g].known =>
                               /\ entry'[g].spec <=> rfh'[g] = "speculative"
                               /\ rfh'[g] = "cached" => entry'[g].cached
                               /\ entry'[g].cached => rfh'[g] \in {"cached", "leaving"}
      BY <1>3 DEF EntriesFollowContent
    <3>2. /\ entry[g].known <=> browser = "open" /\ g \notin Excluded /\ rfh[g] \notin Ended
          /\ ~entry[g].known => entry[g] = Unmade
          /\ entry[g].known =>
               /\ entry[g].spec <=> rfh[g] = "speculative"
               /\ rfh[g] = "cached" => entry[g].cached
               /\ entry[g].cached => rfh[g] \in {"cached", "leaving"}
      BY DEF FramesInv, ContentInv, EntriesFollowContent
    <3>3. CASE g = f
      BY <1>6, <1>8, <3>3 DEF Ended, Unmade
    <3>4. CASE g # f /\ cachedSub /\ g = p
      BY <1>5, <1>6, <1>8, <3>2, <3>4 DEF Ended
    <3>5. CASE g # f /\ ~(cachedSub /\ g = p)
      BY <1>6, <1>8, <3>2, <3>5
    <3> QED
      BY <3>3, <3>4, <3>5
  <2> QED
    BY <2>1, <2>2, <2>3, <2>4 DEF ContentInv
<1>11. ~entry'[f].known
  BY <1>8 DEF Unmade
<1>12. ObjectInv'
  <2>1. ObjectsFit'
    <3>1. SUFFICES ASSUME NEW g \in Frames
                   PROVE  /\ obj'[g].host => obj'[g].info
                          /\ obj'[g].bound => /\ obj'[g].host /\ entry'[g].known
                                              /\ rfh'[g] # "unborn"
                          /\ obj'[g].queued => obj'[g].info /\ ~obj'[g].bound
                          /\ entry'[g].known /\ obj'[g].info => obj'[g].host
      BY DEF ObjectsFit
    <3>2. /\ obj[g].host => obj[g].info
          /\ obj[g].bound => obj[g].host /\ entry[g].known /\ rfh[g] # "unborn"
          /\ obj[g].queued => obj[g].info /\ ~obj[g].bound
          /\ entry[g].known /\ obj[g].info => obj[g].host
      BY DEF FramesInv, ObjectInv, ObjectsFit
    <3>3. CASE g = f
      BY <1>3, <1>11, <3>3
    <3>4. CASE g # f
      BY <1>3, <1>6, <1>8, <3>2, <3>4
    <3> QED
      BY <3>3, <3>4
  <2>2. ValidObjects'
    <3>1. ASSUME NEW g \in Frames, obj'[g].info
          PROVE  /\ entry'[g].known \/ g = mainFrame
                 /\ g \in Mains => g = mainFrame \/ rfh'[g] = "speculative"
      <4>1. CASE g = f
        BY <1>3, <3>1, <4>1
      <4>2. CASE g # f
        <5>1. /\ entry[g].known \/ g = mainFrame
              /\ g \in Mains => g = mainFrame \/ rfh[g] = "speculative"
          BY <1>3, <3>1, <4>2 DEF FramesInv, ObjectInv, ValidObjects
        <5> QED
          BY <1>5, <1>6, <1>8, <4>2, <5>1
      <4> QED
        BY <4>1, <4>2
    <3>2. \A s \in Subs : entry'[s].known => obj'[s].info
      BY <1>3, <1>8, <1>11, StateTypes DEF FramesInv, ObjectInv, ValidObjects
    <3>3. obj'[mainFrame].info
      BY <1>3, <1>4, StateTypes DEF FramesInv, ObjectInv, ValidObjects
    <3> QED
      BY <1>3, <3>1, <3>2, <3>3 DEF ValidObjects
  <2> QED
    BY <1>3, <2>1, <2>2 DEF FramesInv, ObjectInv
<1>13. BatchStep({})
  <2>1. \A g \in Frames :
          /\ rfh'[g] = "none" => rfh[g] = "none"
          /\ obj'[g].bound => obj[g].bound
          /\ obj'[g].info \/ entry'[g].known => entry[g].known \/ obj[g].info
    <3>1. TAKE g \in Frames
    <3>2. CASE g = f
      BY <1>3, <1>6, <1>11, <3>2
    <3>3. CASE g # f
      BY <1>3, <1>6, <1>8, <3>3
    <3> QED
      BY <3>2, <3>3
  <2> QED
    BY <1>1, <1>2, <1>3, <1>4, <2>1 DEF BatchStep
<1>14. NoteInv'
  BY <1>9, <1>13, BatchKeepsNotes DEF FramesInv
<1> QED
  BY <1>9, <1>10, <1>12, <1>14 DEF FramesInv

\* RemoveAllFrames, when content has no frame with a renderer left.
LEMMA RemoveAllFramesIs ==
  ASSUME FramesInv, queue = <<>>, browser = "open",
         \A f \in Frames : rfh[f] \in {"none", "unborn", "dead", "deleted"},
         RemoveAllFrames
  PROVE  /\ ~check' /\ check' \in BOOLEAN /\ mainFrame' = None /\ Announces({})
         /\ entry' = [f \in Frames |-> Unmade]
         /\ obj' \in [Frames -> FrameHost]
         /\ \A f \in Frames : /\ ~obj[f].bound /\ ~obj'[f].bound
                              /\ ~obj'[f].host /\ ~obj'[f].info /\ ~obj'[f].queued
<1> DEFINE known == {f \in Frames : entry[f].known}
           objs  == [f \in Frames |-> IF f \in known
                       THEN Detached(obj[f], IsCurrentMainFrame(f)) ELSE obj[f]]
<1>1. /\ check' = (check \/ \E f \in known :
                     DetachNotes(f, obj[f], IsCurrentMainFrame(f)) # <<>>)
      /\ entry' = [f \in Frames |-> Unmade]
      /\ SetMainFrame(objs, None, <<>>)
  BY DEF RemoveAllFrames
<1>2. \A f \in known : /\ f = mainFrame /\ f \in Mains /\ rfh[f] = "unborn"
                       /\ IsCurrentMainFrame(f) = TRUE
  <2>1. TAKE f \in known
  <2>2. rfh[f] = "unborn" /\ f \in Frames
    BY DEF FramesInv, ContentInv, EntriesFollowContent, Ended
  <2>3. f \in Mains
    BY <2>2 DEF FramesInv, ContentInv, SubFramesHavePages, SubLives, Frames
  <2>4. f = mainFrame
    BY <2>2, <2>3 DEF FramesInv, ContentInv, MainIsCurrent, Current
  <2>5. ~entry[f].spec /\ ~entry[f].cached
    BY <2>2 DEF FramesInv, ContentInv, EntriesFollowContent
  <2> QED
    BY <2>2, <2>3, <2>4, <2>5 DEF IsCurrentMainFrame
<1>3. \A f \in Frames : /\ obj[f] \in FrameHost /\ ~obj[f].bound
                        /\ obj[f].info => f = mainFrame
                        /\ obj[f].host => obj[f].info
                        /\ obj[f].queued => obj[f].info
  <2>1. TAKE f \in Frames
  <2>2. ~obj[f].bound
    BY <1>2 DEF FramesInv, ObjectInv, ObjectsFit
  <2>3. obj[f].info => f = mainFrame
    BY <1>2 DEF FramesInv, ObjectInv, ValidObjects
  <2> QED
    BY <2>2, <2>3, StateTypes DEF FramesInv, ObjectInv, ObjectsFit
<1>4. \A f \in known : DetachNotes(f, obj[f], IsCurrentMainFrame(f)) = <<>>
  <2>1. TAKE f \in known
  <2>2. IsCurrentMainFrame(f) = TRUE /\ ~obj[f].bound
    BY <1>2, <1>3
  <2>3. DetachNotes(f, obj[f], TRUE) = <<>>
    BY <2>2, ConcatEmptySeq DEF DetachNotes, If
  <2> QED
    BY <2>2, <2>3
<1>5. ~check' /\ check' \in BOOLEAN
  BY <1>1, <1>4 DEF FramesInv, ObjectInv
<1>6. \A f \in Frames : /\ objs[f] \in FrameHost /\ ~objs[f].bound
                        /\ obj[f].info <=> objs[f].info
                        /\ f # mainFrame => objs[f] = obj[f]
  <2>1. TAKE f \in Frames
  <2>2. CASE f \in known
    <3>1. objs[f] = Detached(obj[f], TRUE) /\ f = mainFrame /\ obj[f] \in FrameHost
      BY <1>2, <1>3, <2>2
    <3>2. /\ Detached(obj[f], TRUE) \in FrameHost /\ ~Detached(obj[f], TRUE).bound
          /\ Detached(obj[f], TRUE).info <=> obj[f].info
      BY <3>1, DetachedIs
    <3> HIDE DEF objs, known
    <3> QED
      BY <3>1, <3>2
  <2>3. CASE f \notin known
    BY <1>3, <2>3
  <2> QED
    BY <2>2, <2>3
<1>7. objs \in [Frames -> FrameHost]
  BY <1>6
<1> HIDE DEF known, objs
<1>8. /\ mainFrame' = None /\ Announces({})
      /\ obj' = IF mainFrame = None THEN objs
                ELSE [objs EXCEPT ![mainFrame] = Detached(@, FALSE)]
  <2>1. CASE mainFrame # None
    <3>1. \A g \in Frames : objs[g].bound = obj[g].bound /\ (obj[g].info => objs[g].info)
      BY <1>3, <1>6 DEF FrameHost
    <3>2. {} \in SUBSET Frames /\ \A n : Has(<<>>, n) <=> \E g \in {} : n = Note("FrameCreated", g)
      BY NoNote
    <3>3. obj[mainFrame].info
      BY <2>1 DEF FramesInv, ObjectInv, ValidObjects
    <3> QED
      BY <1>1, <1>7, <2>1, <3>1, <3>2, <3>3, NoNote, SetMainAnnounces DEF FramesInv
  <2>2. CASE mainFrame = None
    <3>1. obj' = objs /\ mainFrame' = None /\ Collect(<<>>)
      BY <1>1, <2>2 DEF SetMainFrame
    <3>2. queue' = <<>>
      BY <3>1, ConcatEmptySeq DEF Collect
    <3>3. \A m \in Notes : ~IsNews({}, m)
      BY <1>3, <1>6, <2>2, <3>1 DEF IsNews
    <3> QED
      BY <2>2, <3>1, <3>2, <3>3, NoNote DEF Announces
  <2> QED
    BY <2>1, <2>2
<1>9. /\ obj' \in [Frames -> FrameHost]
      /\ \A f \in Frames : ~obj'[f].host /\ ~obj'[f].info /\ ~obj'[f].bound /\ ~obj'[f].queued
  <2>1. CASE mainFrame = None
    <3>1. \A f \in Frames : f # mainFrame
      BY <2>1, FramesAssumption
    <3> QED
      BY <1>3, <1>6, <1>7, <1>8, <2>1, <3>1
  <2>2. CASE mainFrame # None
    <3>1. mainFrame \in Frames
      BY <2>2, StateTypes DEF FramesInv
    <3>2. obj'[mainFrame] = Detached(objs[mainFrame], FALSE) /\ objs[mainFrame] \in FrameHost
          /\ \A f \in Frames \ {mainFrame} : obj'[f] = objs[f]
      BY <1>7, <1>8, <2>2, <3>1
    <3>3. /\ Detached(objs[mainFrame], FALSE) \in FrameHost
          /\ ~Detached(objs[mainFrame], FALSE).host /\ ~Detached(objs[mainFrame], FALSE).info
          /\ ~Detached(objs[mainFrame], FALSE).bound /\ ~Detached(objs[mainFrame], FALSE).queued
      BY <3>2, DetachedIs
    <3>4. obj' \in [Frames -> FrameHost]
      BY <1>7, <1>8, <2>2, <3>3
    <3> QED
      BY <1>3, <1>6, <3>2, <3>3, <3>4
  <2> QED
    BY <2>1, <2>2
<1> QED
  BY <1>1, <1>3, <1>5, <1>8, <1>9

LEMMA DestroyWebContentsKeeps ==
  ASSUME FramesInv, DestroyWebContents
  PROVE  FramesInv'
<1>1. /\ queue = <<>> /\ browser = "open" /\ browser' = "closing" /\ ~handler'
      /\ handler' \in BOOLEAN /\ RemoveAllFrames
      /\ \A f \in Frames : rfh[f] \in {"none", "unborn", "dead", "deleted"}
      /\ rfh' = rfh /\ parent' = parent /\ tearing' = tearing
      /\ UNCHANGED navVars /\ UNCHANGED clientVars
  BY DEF DestroyWebContents, Idle, InCallbacks, contentVars
<1>2. /\ ~check' /\ check' \in BOOLEAN /\ mainFrame' = None /\ Announces({})
      /\ entry' = [f \in Frames |-> Unmade]
      /\ obj' \in [Frames -> FrameHost]
      /\ \A f \in Frames : /\ ~obj[f].bound /\ ~obj'[f].bound
                           /\ ~obj'[f].host /\ ~obj'[f].info /\ ~obj'[f].queued
  BY <1>1, RemoveAllFramesIs
<1>3. entry' \in [Frames -> FrameInfo] /\ \A f \in Frames : entry'[f] = Unmade /\ ~entry'[f].known
  BY <1>2 DEF FrameInfo, Unmade
<1>4. TypeOK'
  BY <1>1, <1>2, <1>3 DEF FramesInv, TypeOK, Announces, navVars, clientVars
<1>5. ContentInv'
  <2>1. SubFramesHavePages'
    BY <1>1 DEF FramesInv, ContentInv, SubFramesHavePages
  <2>2. BrowserFollowsLife' /\ MainIsCurrent'
    BY <1>1, <1>2 DEF BrowserFollowsLife, MainIsCurrent
  <2>3. EntriesFollowContent'
    BY <1>1, <1>3 DEF EntriesFollowContent
  <2> QED
    BY <2>1, <2>2, <2>3 DEF ContentInv
<1>6. ObjectInv'
  <2>1. \A s \in Subs : s \in Frames
    BY DEF Frames
  <2> QED
    BY <1>2, <1>3, <2>1 DEF ObjectInv, ObjectsFit, ValidObjects
<1>7. BatchStep({})
  <2>1. mainFrame # None => mainFrame \in Frames
    BY StateTypes DEF FramesInv
  <2> QED
    BY <1>1, <1>2, <1>3, <2>1 DEF BatchStep
<1>8. NoteInv'
  BY <1>4, <1>7, BatchKeepsNotes DEF FramesInv
<1> QED
  BY <1>4, <1>5, <1>6, <1>8 DEF FramesInv

-----------------------------------------------------------------------------
(* The theorems.                                                             *)

LEMMA InitFrames ==
  ASSUME Init
  PROVE  FramesInv
<1>1. TypeOK
  <2>1. <<>> \in Seq(Notes) /\ <<>> \in Seq(1 .. MaxNav) /\ 0 \in 0 .. MaxNav
    BY FramesAssumption
  <2>2. /\ rfh \in [Frames -> Lives] /\ parent \in [Subs -> Mains \cup {None}]
        /\ entry \in [Frames -> FrameInfo] /\ obj \in [Frames -> FrameHost]
        /\ told \in [Frames -> View]
    BY DEF Init, Lives, FrameInfo, FrameHost, View, Unmade
  <2> QED
    BY <2>1, <2>2 DEF Init, TypeOK
<1>2. ContentInv
  <2>1. SubFramesHavePages
    BY DEF Init, SubFramesHavePages, SubLives, Ended, Frames
  <2>2. BrowserFollowsLife /\ MainIsCurrent /\ EntriesFollowContent
    BY DEF Init, BrowserFollowsLife, MainIsCurrent, EntriesFollowContent, Unmade
  <2> QED
    BY <2>1, <2>2 DEF ContentInv
<1>3. ObjectInv
  BY DEF Init, ObjectInv, ObjectsFit, ValidObjects, Frames, Unmade
<1>4. NoteInv
  <2>1. queue = <<>> /\ \A m : ~Has(queue, m)
    BY NoNote DEF Init
  <2>2. FramesAreTold
    BY <2>1 DEF Init, FramesAreTold, Waits, Hears, InCallbacks
  <2>3. MainIsTold
    BY <2>1 DEF Init, MainIsTold, MainWaits, InCallbacks
  <2> QED
    BY <2>1, <2>2, <2>3, NoNote DEF NoteInv
<1> QED
  BY <1>1, <1>2, <1>3, <1>4 DEF FramesInv

\* A delivery keeps the invariant, and tells the client of a frame or of another
\* main frame in the order it may rely on.
LEMMA DeliverIs ==
  ASSUME FramesInv, Deliver
  PROVE  /\ FramesInv'
         /\ \A f \in Frames : told'[f] # told[f] =>
              /\ told'[f].created = 1
              /\ told'[f].gone > told[f].gone => told[f].links = 0 /\ ~obj'[f].info
         /\ toldMain' # toldMain =>
              /\ toldMain # None => told[toldMain].gone > 0 /\ ~obj[toldMain].info
              /\ toldMain' # None => told[toldMain'].created = 1 /\ obj[toldMain'].info
<1>1. obj' = obj
  BY DEF Deliver
<1>2. CASE \E type \in FrameNotes, f \in Frames : Head(queue) = Note(type, f)
  <2>1. PICK type \in FrameNotes, f \in Frames : Head(queue) = Note(type, f)
    BY <1>2
  <2>2. /\ FramesInv' /\ toldMain' = toldMain
        /\ \A g \in Frames \ {f} : told'[g] = told[g]
        /\ told'[f].created = 1
        /\ told'[f].gone > told[f].gone => told[f].links = 0 /\ ~obj[f].info
    BY <2>1, FrameNoteKeeps
  <2> QED
    BY <1>1, <2>2
<1>3. CASE \E old, new \in Mains \cup {None} : Head(queue) = MainNote(old, new)
  <2>1. PICK old, new \in Mains \cup {None} : Head(queue) = MainNote(old, new)
    BY <1>3
  <2> QED
    BY <2>1, MainNoteKeeps
<1>4. Head(queue) \in Notes
  BY DeliveredNote
<1> QED
  BY <1>2, <1>3, <1>4, NotesAreNotes

LEMMA ContentNextKeeps ==
  ASSUME FramesInv, ContentNext
  PROVE  FramesInv'
<1>1. ASSUME NEW m \in Mains,
             \/ ObserveWebContents(m) \/ RendererReady(m) \/ SpeculativeCreated(m)
             \/ CachePage(m) \/ UnloadPage(m) \/ RestorePage(m)
      PROVE  FramesInv'
  BY <1>1, ObserveWebContentsKeeps, RendererReadyKeeps, SpeculativeCreatedKeeps,
     CachePageKeeps, UnloadPageKeeps, RestorePageKeeps
<1>2. ASSUME NEW s \in Subs, SubFrameCreated(s) \/ RestoreSubFrame(s)
      PROVE  FramesInv'
  BY <1>2, SubFrameCreatedKeeps, RestoreSubFrameKeeps
<1>3. ASSUME NEW f \in Frames, RenderFrameHostChanged(f) \/ RenderFrameDeleted(f)
      PROVE  FramesInv'
  BY <1>3, RenderFrameHostChangedKeeps, RenderFrameDeletedKeeps
<1>4. CASE CloseContents
  BY <1>4, NavigationKeeps
<1> QED
  BY <1>1, <1>2, <1>3, <1>4 DEF ContentNext

\* Every step but a delivery, a connection or its end leaves the client as it is.
LEMMA OtherStepsTellNothing ==
  ASSUME ContentNext \/ BrowserNext \/ ClientNext \/ RunTask
  PROVE  told' = told /\ toldMain' = toldMain
<1>1. CASE ContentNext
  BY <1>1 DEF ContentNext, ObserveWebContents, RendererReady, SpeculativeCreated, CachePage,
     UnloadPage, RestorePage, SubFrameCreated, RestoreSubFrame, RenderFrameHostChanged,
     RenderFrameDeleted, CloseContents, MaybeCreateFrame, EnterCache, LeaveCache, RemoveFrame,
     clientVars
<1>2. CASE BrowserNext
  BY <1>2 DEF BrowserNext, SetBrowser, DestroyWebContents, BrowserDestroyed, clientVars
<1>3. CASE ClientNext
  BY <1>3 DEF ClientNext, SendToRenderFrame, LoadMainFrameURL, clientVars
<1>4. CASE RunTask
  BY <1>4 DEF RunTask, clientVars
<1> QED
  BY <1>1, <1>2, <1>3, <1>4

LEMMA NextKeepsFrames ==
  ASSUME FramesInv, [Next]_vars
  PROVE  FramesInv'
<1>1. CASE ContentNext
  BY <1>1, ContentNextKeeps
<1>2. CASE BrowserNext
  BY <1>2, SetBrowserKeeps, DestroyWebContentsKeeps, BrowserDestroyedKeeps DEF BrowserNext
<1>3. CASE ClientNext
  BY <1>3, SendToRenderFrameKeeps, NavigationKeeps DEF ClientNext
<1>4. CASE Deliver
  BY <1>4, DeliverIs
<1>5. CASE RunTask
  BY <1>5, NavigationKeeps
<1>6. CASE \E f \in Frames : FrameAttached(f) \/ OnRenderFrameDisconnect(f)
  BY <1>6, FrameAttachedIs, OnRenderFrameDisconnectIs
<1>7. CASE UNCHANGED vars
  <2>1. UNCHANGED <<rfh, parent, infoVars, queue, obj, clientVars>> /\ TypeOK'
    BY <1>7 DEF vars, contentVars, infoVars, navVars, clientVars, FramesInv, TypeOK
  <2> QED
    BY <2>1, OutsideKeeps
<1> QED
  BY <1>1, <1>2, <1>3, <1>4, <1>5, <1>6, <1>7 DEF Next

\* The inductive invariant: the browser's table of frames, its main frame, the
\* frame objects and the notifications that wait follow content.
THEOREM FramesInvariant == Spec => []FramesInv
<1>1. Init => FramesInv
  BY InitFrames
<1>2. FramesInv /\ [Next]_vars => FramesInv'
  BY NextKeepsFrames
<1> QED
  BY <1>1, <1>2, PTL DEF Spec

\* Frame objects, the browser's table of them, their remotes and what the client
\* was told of them agree in every state, and no CHECK of CefBrowserInfo or
\* MaybeAttach fails, for every set of frames.
THEOREM FramesAreCorrect == Spec => []FramesCorrect
<1>1. FramesInv => FramesCorrect
  <2>1. SUFFICES ASSUME FramesInv
                 PROVE  FramesCorrect
    OBVIOUS
  <2>2. TypeOK /\ AssertionsHold
    BY <2>1 DEF FramesInv, ObjectInv, AssertionsHold
  <2>3. ~InCallbacks => \A m : ~Has(queue, m)
    BY NoNote DEF InCallbacks
  <2>4. LinksAlternate
    <3>1. \A f \in Frames : told[f].links \in {0, 1}
      BY <2>1 DEF FramesInv, NoteInv, FramesAreTold
    <3>2. ~InCallbacks /\ handler =>
            \A f \in Frames : told[f].links = 1 <=> obj[f].bound
      BY <2>1, <2>3 DEF FramesInv, NoteInv, FramesAreTold, Waits, Hears
    <3>3. \A f \in Frames : obj[f].bound \in BOOLEAN
      BY <2>1, StateTypes DEF FramesInv, FrameHost
    <3> QED
      BY <3>1, <3>2, <3>3 DEF LinksAlternate
  <2>5. CommandsWaitForAttach
    BY <2>1 DEF FramesInv, ObjectInv, ObjectsFit, CommandsWaitForAttach
  <2>6. ValidFramesAreTracked
    BY <2>1 DEF FramesInv, ObjectInv, ValidObjects, ValidFramesAreTracked
  <2>7. InvalidFramesAreTold
    BY <2>1, <2>3 DEF FramesInv, NoteInv, FramesAreTold, Waits, Hears, InvalidFramesAreTold
  <2> QED
    BY <2>2, <2>4, <2>5, <2>6, <2>7 DEF FramesCorrect
<1> QED
  BY <1>1, FramesInvariant, PTL

\* GetMainFrame returns a frame that can be used from the first frame to the end
\* of the browser, it is the one content shows, and the changes of it that the
\* client is told link up, for every set of frames.
THEOREM MainFrameIsCorrect == Spec => []MainFrameCorrect
<1>1. FramesInv => MainFrameCorrect
  <2>1. SUFFICES ASSUME FramesInv
                 PROVE  MainFrameCorrect
    OBVIOUS
  <2>2. MainFrameIsUsable
    <3>1. browser = "open" /\ (\E m \in Mains : rfh[m] # "none") => mainFrame # None
      BY <2>1 DEF FramesInv, ContentInv, BrowserFollowsLife, Frames
    <3> QED
      BY <2>1, <3>1 DEF FramesInv, ObjectInv, ValidObjects, MainFrameIsUsable
  <2>3. MainFrameFollowsContent
    BY <2>1, StateTypes DEF FramesInv, ContentInv, MainIsCurrent, IsCurrent,
       MainFrameFollowsContent
  <2>4. MainFrameIsTold
    <3> DEFINE news == {i \in DOMAIN queue : queue[i].type = "MainFrameChanged"}
    <3>1. SUFFICES ASSUME handler \/ InCallbacks \/ toldMain # None
                   PROVE  IF news = {} THEN toldMain = mainFrame
                          ELSE \E i \in news : /\ news = {i}
                                               /\ queue[i].old = toldMain
                                               /\ queue[i].new = mainFrame
      BY DEF MainFrameIsTold
    <3>2. queue \in Seq(Notes) /\ InOrder(queue) /\ DOMAIN queue = 1 .. Len(queue)
          /\ Len(queue) \in Nat
      BY <2>1, LenProperties DEF FramesInv, TypeOK, NoteInv
    <3>3. \A i \in DOMAIN queue : queue[i] \in Notes
      BY <3>2, ElementOfSeq
    <3>4. ASSUME NEW i \in news
          PROVE  /\ queue[i].old = toldMain /\ queue[i].new = mainFrame
                 /\ news = {i}
      <4>1. /\ i \in 1 .. Len(queue) /\ queue[i] \in Notes
            /\ queue[i].type = "MainFrameChanged" /\ Rank(queue[i]) = 5
        BY <3>2, <3>3 DEF Rank
      <4>2. /\ queue[i].old \in Mains \cup {None} /\ queue[i].new \in Mains \cup {None}
            /\ queue[i] = MainNote(queue[i].old, queue[i].new)
        BY <4>1, NotesAreNotes DEF FrameNotes
      <4>3. MainWaits(queue[i].old, queue[i].new)
        BY <4>1, <4>2 DEF MainWaits, Has
      <4>4. queue[i].old = toldMain /\ queue[i].new = mainFrame
        BY <2>1, <4>2, <4>3 DEF FramesInv, NoteInv, MainIsTold
      <4>5. \A j \in news : Rank(queue[j]) = 5 /\ j \in 1 .. Len(queue)
        BY <3>2 DEF Rank
      <4>6. \A j \in news : j = i
        BY <3>2, <4>1, <4>5 DEF InOrder
      <4> QED
        BY <4>4, <4>6
    <3>5. CASE news = {}
      <4>1. \A old, new \in Mains \cup {None} : ~MainWaits(old, new)
        <5>1. \A old, new : MainNote(old, new).type = "MainFrameChanged"
          BY DEF MainNote
        <5> QED
          BY <3>2, <3>5, <5>1 DEF MainWaits, Has
      <4> QED
        BY <2>1, <3>1, <3>5, <4>1 DEF FramesInv, NoteInv, MainIsTold, Hears
    <3>6. CASE news # {}
      BY <3>4, <3>6
    <3> QED
      BY <3>5, <3>6
  <2> QED
    BY <2>2, <2>3, <2>4 DEF MainFrameCorrect
<1> QED
  BY <1>1, FramesInvariant, PTL

\* What the client may rely on in its callbacks: OnFrameCreated comes first and
\* once, OnFrameDestroyed after OnFrameDetached, and OnMainFrameChanged after the
\* end of the old main frame and the creation of the new one.
THEOREM CallbacksComeInOrder == Spec => CallbacksInOrder
<1> DEFINE Ordered ==
             /\ \A f \in Frames : told'[f] # told[f] =>
                  /\ told'[f].created = 1
                  /\ told'[f].gone > told[f].gone => told[f].links = 0 /\ ~obj'[f].info
             /\ toldMain' # toldMain =>
                  /\ toldMain # None => told[toldMain].gone > 0 /\ ~obj[toldMain].info
                  /\ toldMain' # None => told[toldMain'].created = 1 /\ obj[toldMain'].info
<1>1. ASSUME FramesInv, [Next]_vars
      PROVE  [Ordered]_vars
  <2>1. CASE ContentNext \/ BrowserNext \/ ClientNext \/ RunTask
    BY <2>1, OtherStepsTellNothing
  <2>2. CASE Deliver
    BY <1>1, <2>2, DeliverIs
  <2>3. CASE \E f \in Frames : FrameAttached(f) \/ OnRenderFrameDisconnect(f)
    <3>1. PICK f \in Frames : FrameAttached(f) \/ OnRenderFrameDisconnect(f)
      BY <2>3
    <3>2. /\ toldMain' = toldMain /\ (handler => told[f].created = 1)
          /\ \/ told' = told
             \/ handler /\ told' = [told EXCEPT ![f].links = @ + 1]
             \/ handler /\ told' = [told EXCEPT ![f].links = @ - 1]
      BY <1>1, <3>1, FrameAttachedIs, OnRenderFrameDisconnectIs
    <3>3. told \in [Frames -> View] /\ told[f] \in View
      BY <1>1, StateTypes DEF FramesInv
    <3>4. /\ \A g \in Frames \ {f} : told'[g] = told[g]
          /\ told'[f] # told[f] => told'[f].created = 1 /\ told'[f].gone = told[f].gone
      BY <3>2, <3>3 DEF View
    <3>5. told[f].gone \in Nat
      BY <3>3 DEF View
    <3> QED
      BY <3>2, <3>4, <3>5
  <2>4. CASE UNCHANGED vars
    BY <2>4
  <2> QED
    BY <1>1, <2>1, <2>2, <2>3, <2>4 DEF Next
<1>2. CallbacksInOrder <=> [][Ordered]_vars
  BY PTL DEF CallbacksInOrder
<1> QED
  BY <1>1, <1>2, FramesInvariant, PTL DEF Spec
=============================================================================
