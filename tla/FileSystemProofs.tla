-------------------------- MODULE FileSystemProofs --------------------------
(***************************************************************************)
(* The properties of FileSystem, for any number of handles, drives and       *)
(* files.  The routines of file.asm are functions from state to state, so    *)
(* the lemmas come first: what each of them does to a sound state.           *)
(***************************************************************************)
EXTENDS FileSystem, Induction

State == [handle : [Handle -> BOOLEAN], L15Device : Devices \cup {0},
          lfn : [LFN -> Devices \cup {0}],
          chan : [Handle -> Devices \cup {0}],
          latch : [Devices -> {"ok", "error"}],
          disk : [Devices -> SUBSET Files]]

\* TablesAgree and CacheCoherent, of any state.
Agree(t) == \A h \in Handle : /\ t.handle[h] <=> t.lfn[h] # 0
                              /\ t.chan[h] # 0 => t.chan[h] = t.lfn[h]
Sound(t) == t \in State /\ Agree(t) /\ t.L15Device = t.lfn[CMD]

-----------------------------------------------------------------------------
(* The command channel *)

LEMMA Handles == /\ Handle \subseteq Nat /\ CMD \notin Handle /\ NONE \notin Handle
                 /\ LFN = Handle \cup {CMD} /\ 0 \notin Devices
    BY FileSystemAssumption DEF Handle, CMD, NONE, LFN

\* Closing a data file closes its channel and nothing else.
LEMMA CloseData ==
    ASSUME NEW t \in State, NEW h \in Handle
    PROVE  KernalCLOSE(t, h) = [t EXCEPT !.lfn = [t.lfn EXCEPT ![h] = 0],
                                         !.chan = [t.chan EXCEPT ![h] = 0]]
<1>1. t.chan = [g \in Handle |-> t.chan[g]] /\ t.chan \in [Handle -> Devices \cup {0}]
    BY DEF State
<1>2. [g \in Handle |-> IF g = h \/ (h = CMD /\ t.chan[g] = t.lfn[CMD])
                        THEN 0 ELSE t.chan[g]] = [t.chan EXCEPT ![h] = 0]
    BY <1>1, Handles
<1>. QED
    BY <1>2 DEF KernalCLOSE, State

\* The channels of a drive whose command channel was closed.
Cut(chan, d) == [h \in Handle |-> IF chan[h] = d THEN 0 ELSE chan[h]]

\* What using the command channel of drive d leaves of the data channels.
AfterL15(t, d) == IF t.L15Device \in {0, d} THEN t.chan ELSE Cut(t.chan, t.L15Device)

LEMMA CloseCommand ==
    ASSUME NEW t \in State
    PROVE  KernalCLOSE(t, CMD) = [t EXCEPT !.lfn = [t.lfn EXCEPT ![CMD] = 0],
                                           !.chan = Cut(t.chan, t.lfn[CMD])]
<1>1. [h \in Handle |-> IF h = CMD \/ (CMD = CMD /\ t.chan[h] = t.lfn[CMD])
                        THEN 0 ELSE t.chan[h]] = Cut(t.chan, t.lfn[CMD])
    BY Handles DEF Cut
<1>. QED
    BY <1>1 DEF KernalCLOSE, State

LEMMA ReadError ==
    ASSUME NEW t \in State, t.L15Device = t.lfn[CMD], NEW d \in Devices
    PROVE  readErrorChannel(t, d) =
              [t EXCEPT !.L15Device = d, !.lfn = [t.lfn EXCEPT ![CMD] = d],
                        !.chan = AfterL15(t, d),
                        !.latch = [t.latch EXCEPT ![d] = "ok"]]
<1>1. t \in State /\ t.L15Device = t.lfn[CMD]
    OBVIOUS
<1>2. CASE t.L15Device = d
    <2>1. t.lfn = [t.lfn EXCEPT ![CMD] = d]
        BY <1>1, <1>2, Handles DEF State
    <2>. QED
        BY <1>1, <1>2, <2>1 DEF readErrorChannel, ensureL15Open, AfterL15, State
<1>3. CASE t.L15Device = 0
    <2>1. d # 0
        BY Handles
    <2>. QED
        BY <1>1, <1>3, <2>1, Handles DEF readErrorChannel, ensureL15Open, AfterL15, State
<1>4. CASE t.L15Device \notin {0, d}
    <2>1. KernalCLOSE(t, CMD) = [t EXCEPT !.lfn = [t.lfn EXCEPT ![CMD] = 0],
                                          !.chan = Cut(t.chan, t.lfn[CMD])]
        BY <1>1, CloseCommand
    <2>. DEFINE c == KernalCLOSE(t, CMD)
    <2>2. ensureL15Open(t, d) = [c EXCEPT !.lfn = [c.lfn EXCEPT ![CMD] = d], !.L15Device = d]
        BY <1>4 DEF ensureL15Open
    <2>3. c.lfn = [t.lfn EXCEPT ![CMD] = 0] /\ c.latch = t.latch
        BY <1>1, <2>1 DEF State
    <2>4. [c.lfn EXCEPT ![CMD] = d] = [t.lfn EXCEPT ![CMD] = d]
        BY <2>3
    <2>5. AfterL15(t, d) = Cut(t.chan, t.lfn[CMD])
        BY <1>1, <1>4 DEF AfterL15
    <2>6. ensureL15Open(t, d) =
              [t EXCEPT !.L15Device = d, !.lfn = [t.lfn EXCEPT ![CMD] = d],
                        !.chan = AfterL15(t, d)]
        BY <1>1, <2>1, <2>2, <2>4, <2>5 DEF State
    <2>. QED
        BY <1>1, <2>6 DEF readErrorChannel, State
<1>. QED
    BY <1>2, <1>3, <1>4

\* What reading drive d's error channel makes of t.
Drained(t, u, d) ==
    /\ Sound(u)
    /\ u.handle = t.handle /\ u.disk = t.disk
    /\ u.L15Device = d /\ u.chan = AfterL15(t, d)
    /\ u.lfn = [t.lfn EXCEPT ![CMD] = d]
    /\ u.latch = [t.latch EXCEPT ![d] = "ok"]
    /\ AfterL15(u, d) = u.chan

\* Reading the error channel keeps the tables sound, and its device is cached.
LEMMA ReadErrorSound ==
    ASSUME NEW t, Sound(t), NEW d \in Devices
    PROVE  Drained(t, readErrorChannel(t, d), d)
<1>. DEFINE u == readErrorChannel(t, d)
<1>1. u = [t EXCEPT !.L15Device = d, !.lfn = [t.lfn EXCEPT ![CMD] = d],
                    !.chan = AfterL15(t, d),
                    !.latch = [t.latch EXCEPT ![d] = "ok"]]
    BY ReadError DEF Sound
<1>. HIDE DEF u
<1>2. AfterL15(t, d) \in [Handle -> Devices \cup {0}]
    BY DEF AfterL15, Cut, Sound, State
<1>3. t \in State
    BY DEF Sound
<1>4. /\ u.handle = t.handle /\ u.disk = t.disk
      /\ u.L15Device = d /\ u.chan = AfterL15(t, d)
      /\ u.lfn = [t.lfn EXCEPT ![CMD] = d]
      /\ u.latch = [t.latch EXCEPT ![d] = "ok"]
    BY <1>1, <1>3 DEF State
<1>5. u \in State
    <2>1. /\ [t.lfn EXCEPT ![CMD] = d] \in [LFN -> Devices \cup {0}]
          /\ [t.latch EXCEPT ![d] = "ok"] \in [Devices -> {"ok", "error"}]
        BY <1>3 DEF State
    <2>. QED
        BY <1>1, <1>2, <1>3, <2>1 DEF State
<1>6. u.lfn[CMD] = d
    BY <1>3, <1>4, Handles DEF State
<1>7. Agree(u)
    <2>. SUFFICES ASSUME NEW h \in Handle
                  PROVE  /\ u.handle[h] <=> u.lfn[h] # 0
                         /\ u.chan[h] # 0 => u.chan[h] = u.lfn[h]
        BY DEF Agree
    <2>1. u.lfn[h] = t.lfn[h]
        BY <1>3, <1>4, Handles DEF State
    <2>2. u.chan[h] \in {0, t.chan[h]}
        BY <1>4 DEF AfterL15, Cut
    <2>. QED
        BY <2>1, <2>2, <1>4 DEF Sound, Agree
<1>. QED
    BY <1>4, <1>5, <1>6, <1>7 DEF Drained, Sound, AfterL15, u

-----------------------------------------------------------------------------
(* Preflight, release and close *)

\* What the preflight makes of it.
Checked(t, u, d) ==
    /\ Sound(u)
    /\ u.handle = t.handle /\ u.disk = t.disk
    /\ u.chan = IF d \in present THEN AfterL15(t, d) ELSE t.chan
    /\ d \in present => u.latch[d] = "ok" /\ u.L15Device = d
    /\ d \notin present => u = t

LEMMA CheckReady ==
    ASSUME NEW t, Sound(t), NEW d \in Devices
    PROVE  Checked(t, checkDeviceReady(t, d), d)
<1>. DEFINE u == checkDeviceReady(t, d)
<1>. HIDE DEF u
<1>1. CASE d \in present
    <2>1. u = readErrorChannel(t, d)
        BY <1>1 DEF checkDeviceReady, u
    <2>2. t.latch \in [Devices -> {"ok", "error"}]
        BY DEF Sound, State
    <2>3. /\ Sound(u)
          /\ u.handle = t.handle /\ u.disk = t.disk
          /\ u.L15Device = d /\ u.chan = AfterL15(t, d)
          /\ u.latch = [t.latch EXCEPT ![d] = "ok"]
        BY <2>1, ReadErrorSound DEF Drained
    <2>. QED
        BY <1>1, <2>2, <2>3 DEF Checked, u
<1>2. CASE d \notin present
    BY <1>2 DEF Checked, checkDeviceReady, u
<1>. QED
    BY <1>1, <1>2 DEF Checked, u

\* What releasing the command channel makes of it.
Released(t, u) ==
    /\ Sound(u)
    /\ u.handle = t.handle /\ u.disk = t.disk /\ u.latch = t.latch
    /\ u.L15Device = 0

LEMMA Release ==
    ASSUME NEW t, Sound(t)
    PROVE  Released(t, ahReleaseL15(t))
<1>. DEFINE u == ahReleaseL15(t)
<1>1. t \in State /\ t.L15Device = t.lfn[CMD]
    BY DEF Sound
<1>2. u = [t EXCEPT !.lfn = [t.lfn EXCEPT ![CMD] = 0],
                    !.chan = Cut(t.chan, t.lfn[CMD]), !.L15Device = 0]
    BY <1>1, CloseCommand DEF ahReleaseL15, State
<1>. HIDE DEF u
<1>3. Cut(t.chan, t.lfn[CMD]) \in [Handle -> Devices \cup {0}]
    BY <1>1 DEF Cut, State
<1>4. u \in State
    <2>1. [t.lfn EXCEPT ![CMD] = 0] \in [LFN -> Devices \cup {0}]
        BY <1>1 DEF State
    <2>. QED
        BY <1>1, <1>2, <1>3, <2>1 DEF State
<1>5. /\ u.handle = t.handle /\ u.disk = t.disk /\ u.latch = t.latch
      /\ u.L15Device = 0 /\ u.lfn = [t.lfn EXCEPT ![CMD] = 0]
      /\ u.chan = Cut(t.chan, t.lfn[CMD])
    BY <1>1, <1>2 DEF State
<1>6. u.lfn[CMD] = 0
    BY <1>1, <1>5, Handles DEF State
<1>7. Agree(u)
    <2>. SUFFICES ASSUME NEW h \in Handle
                  PROVE  /\ u.handle[h] <=> u.lfn[h] # 0
                         /\ u.chan[h] # 0 => u.chan[h] = u.lfn[h]
        BY DEF Agree
    <2>1. u.lfn[h] = t.lfn[h]
        BY <1>1, <1>5, Handles DEF State
    <2>2. u.chan[h] \in {0, t.chan[h]}
        BY <1>5 DEF Cut
    <2>. QED
        BY <2>1, <2>2, <1>5 DEF Sound, Agree
<1>. QED
    BY <1>4, <1>5, <1>6, <1>7 DEF Released, Sound, u

\* What closing handle h makes of it.
Closed(t, u, h) ==
    /\ Sound(u)
    /\ u.handle = [t.handle EXCEPT ![h] = FALSE]
    /\ u.disk = t.disk /\ u.latch = t.latch /\ u.L15Device = t.L15Device
    /\ u.chan = [t.chan EXCEPT ![h] = 0]

LEMMA Closing ==
    ASSUME NEW t, Sound(t), NEW h \in Handle
    PROVE  Closed(t, fileClose(t, h), h)
<1>. DEFINE u == fileClose(t, h)
<1>1. t \in State /\ t.L15Device = t.lfn[CMD]
    BY DEF Sound
<1>. HIDE DEF u
<1>2. CASE t.handle[h]
    <2>1. u = [t EXCEPT !.lfn = [t.lfn EXCEPT ![h] = 0],
                        !.chan = [t.chan EXCEPT ![h] = 0],
                        !.handle = [t.handle EXCEPT ![h] = FALSE]]
        <3>1. u = [KernalCLOSE(t, h) EXCEPT !.handle = [KernalCLOSE(t, h).handle EXCEPT ![h] = FALSE]]
            BY <1>2 DEF fileClose, u
        <3>2. KernalCLOSE(t, h).handle = t.handle
            BY <1>1 DEF KernalCLOSE, State
        <3>. QED
            BY <1>1, <3>1, <3>2, CloseData
    <2>2. /\ u.handle = [t.handle EXCEPT ![h] = FALSE] /\ u.disk = t.disk
          /\ u.latch = t.latch /\ u.L15Device = t.L15Device
          /\ u.lfn = [t.lfn EXCEPT ![h] = 0]
          /\ u.chan = [t.chan EXCEPT ![h] = 0]
        BY <1>1, <2>1 DEF State
    <2>3. u \in State
        <3>1. /\ [t.lfn EXCEPT ![h] = 0] \in [LFN -> Devices \cup {0}]
              /\ [t.chan EXCEPT ![h] = 0] \in [Handle -> Devices \cup {0}]
              /\ [t.handle EXCEPT ![h] = FALSE] \in [Handle -> BOOLEAN]
            BY <1>1 DEF State
        <3>. QED
            BY <1>1, <2>1, <3>1 DEF State
    <2>4. u.lfn[CMD] = t.lfn[CMD]
        BY <1>1, <2>2, Handles DEF State
    <2>5. Agree(u)
        BY <1>1, <2>2, Handles DEF Sound, Agree, State
    <2>. QED
        BY <1>1, <2>2, <2>3, <2>4, <2>5 DEF Closed, Sound, u
<1>3. CASE ~t.handle[h]
    <2>1. u = t
        BY <1>3 DEF fileClose, u
    <2>2. t.chan[h] = 0
        BY <1>3 DEF Sound, Agree
    <2>3. t.handle = [t.handle EXCEPT ![h] = FALSE] /\ t.chan = [t.chan EXCEPT ![h] = 0]
        BY <1>1, <1>3, <2>2 DEF State
    <2>. QED
        BY <2>1, <2>3 DEF Closed, u
<1>. QED
    BY <1>2, <1>3 DEF Closed, u

-----------------------------------------------------------------------------
(* fileOpen *)

\* fileOpen marks a handle that was free.
LEMMA LowestFree ==
    ASSUME NEW t, FreeHandles(t) # {}
    PROVE  Min(FreeHandles(t)) \in FreeHandles(t)
<1>1. FreeHandles(t) \in SUBSET Nat
    BY Handles DEF FreeHandles
<1>2. PICK h \in FreeHandles(t) : \A g \in FreeHandles(t) : h <= g
    BY <1>1, LeastNumber
<1>. QED
    BY <1>2 DEF Min

\* Whether the drive opens the channel.
CanOpen(t, f, d, write) == IF write THEN f \notin t.disk[d] ELSE f \in t.disk[d]

\* What the OPEN of handle h's logical file makes of t.
Opened(t, u, h, f, d, write) ==
    LET ok == CanOpen(t, f, d, write)
    IN  /\ u \in State
        /\ u.handle = t.handle /\ u.L15Device = t.L15Device
        /\ u.lfn = [t.lfn EXCEPT ![h] = d]
        /\ u.chan = [t.chan EXCEPT ![h] = IF ok THEN d ELSE 0]
        /\ u.latch = [t.latch EXCEPT ![d] = IF ok THEN "ok" ELSE "error"]
        /\ u.disk = [t.disk EXCEPT ![d] = IF ok THEN @ \cup {f} ELSE @]

LEMMA DriveOpens ==
    ASSUME NEW t \in State, NEW h \in Handle, NEW f \in Files, NEW d \in Devices,
           NEW write
    PROVE  Opened(t, DriveOPEN(t, h, f, d, write), h, f, d, write)
<1>. DEFINE u == DriveOPEN(t, h, f, d, write)
            ok == CanOpen(t, f, d, write)
<1>1. u = [t EXCEPT !.lfn = [t.lfn EXCEPT ![h] = d],
                    !.chan = [t.chan EXCEPT ![h] = IF ok THEN d ELSE 0],
                    !.latch = [t.latch EXCEPT ![d] = IF ok THEN "ok" ELSE "error"],
                    !.disk = [t.disk EXCEPT ![d] = IF ok THEN t.disk[d] \cup {f}
                                                         ELSE t.disk[d]]]
    BY DEF DriveOPEN, CanOpen, State
<1>. HIDE DEF u, ok
<1>2. /\ [t.lfn EXCEPT ![h] = d] \in [LFN -> Devices \cup {0}]
      /\ [t.chan EXCEPT ![h] = IF ok THEN d ELSE 0] \in [Handle -> Devices \cup {0}]
      /\ [t.latch EXCEPT ![d] = IF ok THEN "ok" ELSE "error"]
            \in [Devices -> {"ok", "error"}]
    BY DEF State
<1>3. [t.disk EXCEPT ![d] = IF ok THEN t.disk[d] \cup {f} ELSE t.disk[d]]
            \in [Devices -> SUBSET Files]
    BY DEF State
<1>4. u \in State
    BY <1>1, <1>2, <1>3 DEF State
<1>5. /\ u.handle = t.handle /\ u.L15Device = t.L15Device
      /\ u.lfn = [t.lfn EXCEPT ![h] = d]
      /\ u.chan = [t.chan EXCEPT ![h] = IF ok THEN d ELSE 0]
      /\ u.latch = [t.latch EXCEPT ![d] = IF ok THEN "ok" ELSE "error"]
      /\ u.disk = [t.disk EXCEPT ![d] = IF ok THEN t.disk[d] \cup {f} ELSE t.disk[d]]
    BY <1>1 DEF State
<1>. QED
    BY <1>4, <1>5 DEF Opened, u, ok

\* What is left when the handle is marked as well: the tables agree again.
Marked(t, u, h, f, d, write) ==
    /\ Sound(u)
    /\ u.handle = [t.handle EXCEPT ![h] = TRUE]
    /\ u.L15Device = t.L15Device
    /\ u.chan = [t.chan EXCEPT ![h] = IF CanOpen(t, f, d, write) THEN d ELSE 0]
    /\ u.disk = [t.disk EXCEPT ![d] =
                     IF CanOpen(t, f, d, write) THEN @ \cup {f} ELSE @]

\* The handle marked: the tables agree again.
LEMMA Marks ==
    ASSUME NEW t, Sound(t), NEW h \in FreeHandles(t), NEW f \in Files,
           NEW d \in Devices, NEW write
    PROVE  Marked(t, [DriveOPEN(t, h, f, d, write) EXCEPT !.handle[h] = TRUE], h, f, d, write)
<1>. DEFINE o == DriveOPEN(t, h, f, d, write)
            u == [o EXCEPT !.handle[h] = TRUE]
<1>1. t \in State /\ t.L15Device = t.lfn[CMD] /\ h \in Handle
    BY DEF Sound, FreeHandles
<1>2. Opened(t, o, h, f, d, write)
    BY <1>1, DriveOpens
<1>. HIDE DEF o
<1>3. /\ u.handle = [t.handle EXCEPT ![h] = TRUE]
      /\ u.L15Device = o.L15Device /\ u.lfn = o.lfn /\ u.chan = o.chan /\ u.disk = o.disk
    BY <1>2 DEF Opened, State
<1>4. u \in State
    <2>1. [t.handle EXCEPT ![h] = TRUE] \in [Handle -> BOOLEAN]
        BY <1>1 DEF State
    <2>2. u = [o EXCEPT !.handle = [t.handle EXCEPT ![h] = TRUE]]
        BY <1>2, <1>1 DEF Opened, State
    <2>. QED
        BY <1>2, <2>1, <2>2 DEF Opened, State
<1>. HIDE DEF u
<1>5. u.lfn[CMD] = u.L15Device
    BY <1>1, <1>2, <1>3, Handles DEF Opened, State
<1>6. Agree(u)
    <2>. SUFFICES ASSUME NEW g \in Handle
                  PROVE  /\ u.handle[g] <=> u.lfn[g] # 0
                         /\ u.chan[g] # 0 => u.chan[g] = u.lfn[g]
        BY DEF Agree
    <2>1. CASE g = h
        BY <1>1, <1>2, <1>3, <2>1, Handles DEF Opened, State
    <2>2. CASE g # h
        <3>1. /\ u.handle[g] = t.handle[g] /\ u.lfn[g] = t.lfn[g]
              /\ u.chan[g] = t.chan[g]
            BY <1>1, <1>2, <1>3, <2>2, Handles DEF Opened, State
        <3>. QED
            BY <3>1 DEF Sound, Agree
    <2>. QED
        BY <2>1, <2>2
<1>. QED
    BY <1>2, <1>3, <1>4, <1>5, <1>6 DEF Marked, Opened, Sound, u, o

\* A call about drive d leaves every data channel alive, unless it had to take
\* LFN 15 from the drive the channel is on.
Kept(t, u, d) ==
    /\ u.L15Device \in {t.L15Device, d}
    /\ \A h \in Handle : t.chan[h] # 0 =>
          u.chan[h] = t.chan[h] \/ (u.L15Device = d /\ t.chan[h] # d)

LEMMA KeptThrough ==
    ASSUME NEW t, NEW u, NEW v, NEW d, Kept(t, u, d), Kept(u, v, d)
    PROVE  Kept(t, v, d)
    BY DEF Kept

LEMMA KeptByL15 ==
    ASSUME NEW t, Sound(t), NEW u, NEW d \in Devices,
           u.L15Device = d, u.chan = AfterL15(t, d)
    PROVE  Kept(t, u, d)
    BY Handles DEF Kept, AfterL15, Cut, Sound, State

\* A file not found: nothing of the attempt is left but the command channel.
Undone(t, u, d) ==
    /\ Sound(u) /\ u.handle = t.handle /\ u.disk = t.disk
    /\ u.L15Device = d /\ u.chan = AfterL15(t, d) /\ u.latch[d] = "ok"

LEMMA Undoes ==
    ASSUME NEW t, Sound(t), NEW h \in FreeHandles(t), NEW f \in Files,
           NEW d \in Devices, f \notin t.disk[d]
    PROVE  Undone(t, KernalCLOSE(readErrorChannel(DriveOPEN(t, h, f, d, FALSE), d), h), d)
<1>. DEFINE o == DriveOPEN(t, h, f, d, FALSE)
            r == readErrorChannel(o, d)
            u == KernalCLOSE(r, h)
<1>1. /\ t \in State /\ t.L15Device = t.lfn[CMD] /\ h \in Handle
      /\ t.chan[h] = 0 /\ t.lfn[h] = 0
    BY DEF Sound, FreeHandles, Agree
<1>2. Opened(t, o, h, f, d, FALSE)
    BY <1>1, DriveOpens
<1>. HIDE DEF o
<1>3. /\ o \in State
      /\ o.handle = t.handle /\ o.L15Device = t.L15Device
      /\ o.lfn = [t.lfn EXCEPT ![h] = d]
      /\ o.chan = t.chan
      /\ o.disk = t.disk
    <2>1. ~CanOpen(t, f, d, FALSE)
        BY DEF CanOpen
    <2>2. t.chan = [t.chan EXCEPT ![h] = 0] /\ t.disk = [t.disk EXCEPT ![d] = @]
        BY <1>1 DEF State
    <2>. QED
        BY <1>2, <2>1, <2>2 DEF Opened
<1>4. o.L15Device = o.lfn[CMD]
    BY <1>1, <1>3, Handles DEF State
<1>5. AfterL15(o, d) = AfterL15(t, d)
    BY <1>3 DEF AfterL15
<1>6. r = [o EXCEPT !.L15Device = d, !.lfn = [o.lfn EXCEPT ![CMD] = d],
                    !.chan = AfterL15(t, d),
                    !.latch = [o.latch EXCEPT ![d] = "ok"]]
    BY <1>3, <1>4, <1>5, ReadError
<1>. HIDE DEF r
<1>7. AfterL15(t, d) \in [Handle -> Devices \cup {0}] /\ AfterL15(t, d)[h] = 0
    BY <1>1 DEF AfterL15, Cut, State
<1>8. /\ r.handle = t.handle /\ r.disk = t.disk /\ r.L15Device = d
      /\ r.lfn = [o.lfn EXCEPT ![CMD] = d] /\ r.chan = AfterL15(t, d)
      /\ r.latch = [o.latch EXCEPT ![d] = "ok"]
    BY <1>3, <1>6 DEF State
<1>9. r \in State
    <2>1. /\ [o.lfn EXCEPT ![CMD] = d] \in [LFN -> Devices \cup {0}]
          /\ [o.latch EXCEPT ![d] = "ok"] \in [Devices -> {"ok", "error"}]
        BY <1>3 DEF State
    <2>. QED
        BY <1>3, <1>6, <1>7, <2>1 DEF State
<1>10. u = [r EXCEPT !.lfn = [r.lfn EXCEPT ![h] = 0], !.chan = [r.chan EXCEPT ![h] = 0]]
    BY <1>1, <1>9, CloseData
<1>. HIDE DEF u
<1>11. [r.chan EXCEPT ![h] = 0] = AfterL15(t, d)
    BY <1>7, <1>8
<1>12. /\ u.handle = t.handle /\ u.disk = t.disk /\ u.L15Device = d
       /\ u.lfn = [r.lfn EXCEPT ![h] = 0] /\ u.chan = AfterL15(t, d)
       /\ u.latch = r.latch
    BY <1>8, <1>9, <1>10, <1>11 DEF State
<1>13. u \in State
    <2>1. [r.lfn EXCEPT ![h] = 0] \in [LFN -> Devices \cup {0}]
        BY <1>9 DEF State
    <2>. QED
        BY <1>7, <1>9, <1>10, <1>11, <2>1 DEF State
<1>14. u.lfn[CMD] = d /\ u.latch[d] = "ok"
    BY <1>1, <1>3, <1>8, <1>9, <1>12, Handles DEF State
<1>15. Agree(u)
    <2>. SUFFICES ASSUME NEW g \in Handle
                  PROVE  /\ u.handle[g] <=> u.lfn[g] # 0
                         /\ u.chan[g] # 0 => u.chan[g] = u.lfn[g]
        BY DEF Agree
    <2>1. u.lfn[g] = t.lfn[g]
        BY <1>1, <1>3, <1>8, <1>9, <1>12, Handles DEF State
    <2>2. u.chan[g] \in {0, t.chan[g]}
        BY <1>12 DEF AfterL15, Cut
    <2>. QED
        BY <2>1, <2>2, <1>12 DEF Sound, Agree
<1>. QED
    BY <1>12, <1>13, <1>14, <1>15 DEF Undone, Sound, u, r, o

\* What fileOpen returns, whichever way it ends.
Opens(t, r, f, d, write) ==
    /\ Sound(r.state) /\ Kept(t, r.state, d)
    /\ r.handle = NONE => r.state.handle = t.handle /\ r.state.disk = t.disk
    /\ r.handle # NONE =>
          /\ r.handle \in FreeHandles(t) /\ d \in present
          /\ r.state.handle = [t.handle EXCEPT ![r.handle] = TRUE]
          /\ r.state.disk = IF write THEN [t.disk EXCEPT ![d] = @ \cup {f}] ELSE t.disk

\* Without the checks LFN 15 is used only when the device is missing.
OpensQuietly(t, r, f, d, write) ==
    /\ Opens(t, r, f, d, write)
    /\ r.handle # NONE => r.state.chan =
          [t.chan EXCEPT ![r.handle] = IF CanOpen(t, f, d, write) THEN d ELSE 0]

LEMMA OpensUnchecked ==
    ASSUME NEW t, Sound(t), NEW f \in Files, NEW d \in Devices,
           NEW write, NEW skip, write \/ skip
    PROVE  OpensQuietly(t, OpenAfterChecks(t, f, d, write, skip), f, d, write)
<1>. DEFINE r == OpenAfterChecks(t, f, d, write, skip)
            h == Min(FreeHandles(t))
            m == [DriveOPEN(t, h, f, d, write) EXCEPT !.handle[h] = TRUE]
<1>. SUFFICES /\ Opens(t, r, f, d, write)
              /\ r.handle # NONE => r.state.chan =
                     [t.chan EXCEPT ![r.handle] = IF CanOpen(t, f, d, write) THEN d ELSE 0]
    BY DEF OpensQuietly
<1>1. CASE FreeHandles(t) = {}
    <2>1. r = Result(t, NONE)
        BY <1>1 DEF OpenAfterChecks
    <2>. HIDE DEF r
    <2>. QED
        BY <2>1 DEF Opens, Kept, Result
<1>2. CASE FreeHandles(t) # {} /\ d \notin present
    <2>1. r = Result(readErrorChannel(t, d), NONE)
        BY <1>2 DEF OpenAfterChecks
    <2>. HIDE DEF r
    <2>2. Drained(t, readErrorChannel(t, d), d)
        BY ReadErrorSound
    <2>3. Kept(t, readErrorChannel(t, d), d)
        BY <2>2, KeptByL15 DEF Drained
    <2>. QED
        BY <2>1, <2>2, <2>3 DEF Opens, Result, Drained
<1>3. CASE FreeHandles(t) # {} /\ d \in present
    <2>1. r = Result(m, h)
        BY <1>3 DEF OpenAfterChecks
    <2>2. h \in FreeHandles(t) /\ h # NONE
        BY <1>3, LowestFree, Handles DEF FreeHandles
    <2>a. Marked(t, m, h, f, d, write)
        BY <2>2, Marks
    <2>. HIDE DEF r, h
    <2>3. /\ Sound(m) /\ m.handle = [t.handle EXCEPT ![h] = TRUE]
          /\ m.L15Device = t.L15Device
          /\ m.chan = [t.chan EXCEPT ![h] = IF CanOpen(t, f, d, write) THEN d ELSE 0]
          /\ m.disk = [t.disk EXCEPT ![d] =
                           IF CanOpen(t, f, d, write) THEN @ \cup {f} ELSE @]
        BY <2>a DEF Marked
    <2>. HIDE DEF m
    <2>4. m.disk = IF write THEN [t.disk EXCEPT ![d] = @ \cup {f}] ELSE t.disk
        <3>1. t.disk \in [Devices -> SUBSET Files]
            BY DEF Sound, State
        <3>2. CASE f \in t.disk[d]
            <4>1. t.disk[d] \cup {f} = t.disk[d] /\ [t.disk EXCEPT ![d] = @] = t.disk
                BY <3>1, <3>2
            <4>. QED
                BY <2>3, <3>2, <4>1 DEF CanOpen
        <3>3. CASE f \notin t.disk[d]
            <4>1. [t.disk EXCEPT ![d] = @] = t.disk
                BY <3>1
            <4>. QED
                BY <2>3, <3>3, <4>1 DEF CanOpen
        <3>. QED
            BY <3>2, <3>3
    <2>5. Kept(t, m, d)
        <3>1. t.chan[h] = 0 /\ h \in Handle
            BY <2>2 DEF FreeHandles, Sound, Agree
        <3>. QED
            BY <2>3, <3>1 DEF Kept, Sound, State
    <2>. QED
        BY <1>3, <2>1, <2>2, <2>3, <2>4, <2>5 DEF Opens, Result
<1>. QED
    BY <1>1, <1>2, <1>3

\* A file opened to be read, with the checks, is there; and the drive's result
\* has been read.
LEMMA OpensChecked ==
    ASSUME NEW t, Sound(t), NEW f \in Files, NEW d \in Devices
    PROVE  LET r == OpenAfterChecks(t, f, d, FALSE, FALSE)
           IN  /\ Opens(t, r, f, d, FALSE)
               /\ r.handle # NONE => f \in t.disk[d]
               /\ t.latch[d] = "ok" => r.state.latch[d] = "ok"
<1>. DEFINE r == OpenAfterChecks(t, f, d, FALSE, FALSE)
            h == Min(FreeHandles(t))
            o == DriveOPEN(t, h, f, d, FALSE)
            m == [o EXCEPT !.handle[h] = TRUE]
            e == readErrorChannel(m, d)
<1>. SUFFICES /\ Opens(t, r, f, d, FALSE)
              /\ r.handle # NONE => f \in t.disk[d]
              /\ t.latch[d] = "ok" => r.state.latch[d] = "ok"
    OBVIOUS
<1>0. t.latch \in [Devices -> {"ok", "error"}]
    BY DEF Sound, State
<1>1. CASE FreeHandles(t) = {}
    <2>1. r = Result(t, NONE)
        BY <1>1 DEF OpenAfterChecks
    <2>. HIDE DEF r
    <2>. QED
        BY <2>1 DEF Opens, Kept, Result
<1>2. CASE FreeHandles(t) # {} /\ d \notin present
    <2>1. r = Result(readErrorChannel(t, d), NONE)
        BY <1>2 DEF OpenAfterChecks
    <2>. HIDE DEF r
    <2>2. Drained(t, readErrorChannel(t, d), d)
        BY ReadErrorSound
    <2>3. Kept(t, readErrorChannel(t, d), d)
        BY <2>2, KeptByL15 DEF Drained
    <2>4. readErrorChannel(t, d).latch[d] = "ok"
        BY <1>0, <2>2 DEF Drained
    <2>. QED
        BY <2>1, <2>2, <2>3, <2>4 DEF Opens, Result, Drained
<1>3. CASE FreeHandles(t) # {} /\ d \in present
    <2>1. h \in FreeHandles(t) /\ h \in Handle /\ h # NONE
        BY <1>3, LowestFree, Handles DEF FreeHandles
    <2>2. o.latch[d] = IF f \in t.disk[d] THEN "ok" ELSE "error"
        <3>1. Opened(t, o, h, f, d, FALSE)
            BY <2>1, DriveOpens DEF Sound
        <3>. HIDE DEF o
        <3>. QED
            BY <1>0, <3>1 DEF Opened, CanOpen
    <2>3. CASE f \in t.disk[d]
        <3>1. r = Result(e, h)
            BY <1>3, <2>2, <2>3 DEF OpenAfterChecks
        <3>a. Marked(t, m, h, f, d, FALSE)
            BY <2>1, Marks
        <3>. HIDE DEF r, h
        <3>2. /\ Sound(m) /\ m.handle = [t.handle EXCEPT ![h] = TRUE]
              /\ m.L15Device = t.L15Device
              /\ m.chan = [t.chan EXCEPT ![h] = IF CanOpen(t, f, d, FALSE) THEN d ELSE 0]
              /\ m.disk = [t.disk EXCEPT ![d] =
                               IF CanOpen(t, f, d, FALSE) THEN @ \cup {f} ELSE @]
            BY <3>a DEF Marked
        <3>. HIDE DEF m
        <3>3. m.disk = t.disk
            BY <2>3, <3>2 DEF CanOpen, Sound, State
        <3>b. Drained(m, e, d)
            BY <3>2, ReadErrorSound
        <3>. HIDE DEF e
        <3>4. /\ Sound(e) /\ e.handle = m.handle /\ e.disk = m.disk
              /\ e.L15Device = d /\ e.chan = AfterL15(m, d)
              /\ e.latch = [m.latch EXCEPT ![d] = "ok"]
            BY <3>b DEF Drained
        <3>5. e.latch[d] = "ok"
            BY <3>2, <3>4 DEF Sound, State
        <3>6. Kept(t, m, d)
            <4>1. t.chan[h] = 0
                BY <2>1 DEF FreeHandles, Sound, Agree
            <4>. QED
                BY <2>1, <3>2, <4>1 DEF Kept, Sound, State
        <3>7. Kept(t, e, d)
            BY <3>2, <3>4, <3>6, KeptByL15, KeptThrough
        <3>. QED
            BY <1>3, <2>1, <2>3, <3>1, <3>2, <3>3, <3>4, <3>5, <3>7 DEF Opens, Result
    <2>4. CASE f \notin t.disk[d]
        <3>. DEFINE u == KernalCLOSE(readErrorChannel(o, d), h)
        <3>1. r = Result(u, NONE)
            BY <1>3, <2>2, <2>4 DEF OpenAfterChecks
        <3>2. Undone(t, u, d)
            BY <2>1, <2>4, Undoes
        <3>. HIDE DEF r, u
        <3>3. Kept(t, u, d)
            BY <3>2, KeptByL15 DEF Undone
        <3>. QED
            BY <3>1, <3>2, <3>3 DEF Opens, Result, Undone
    <2>. QED
        BY <2>3, <2>4
<1>. QED
    BY <1>1, <1>2, <1>3

\* What the preflight leaves, as a step of a call about the drive.
LEMMA Preflight ==
    ASSUME NEW t, Sound(t), NEW d \in Devices
    PROVE  /\ Checked(t, checkDeviceReady(t, d), d)
           /\ Kept(t, checkDeviceReady(t, d), d)
<1>. DEFINE u == checkDeviceReady(t, d)
<1>1. Checked(t, u, d)
    BY CheckReady
<1>. HIDE DEF u
<1>2. CASE d \in present
    <2>1. u.L15Device = d /\ u.chan = AfterL15(t, d)
        BY <1>1, <1>2 DEF Checked
    <2>2. Kept(t, u, d)
        BY <2>1, KeptByL15
    <2>. QED
        BY <1>1, <2>2 DEF u
<1>3. CASE d \notin present
    <2>1. Kept(t, u, d)
        BY <1>1, <1>3 DEF Checked, Kept
    <2>. QED
        BY <1>1, <2>1 DEF u
<1>. QED
    BY <1>2, <1>3

\* The preflight and the open that follows it, as one call.
LEMMA OpensAfter ==
    ASSUME NEW t, NEW u, NEW f \in Files, NEW d \in Devices, NEW write, NEW r,
           Checked(t, u, d), Kept(t, u, d), Opens(u, r, f, d, write)
    PROVE  Opens(t, r, f, d, write)
<1>1. Kept(t, r.state, d)
    BY KeptThrough DEF Opens
<1>2. u.handle = t.handle /\ u.disk = t.disk /\ FreeHandles(u) = FreeHandles(t)
    BY DEF Checked, FreeHandles
<1>. QED
    BY <1>1, <1>2 DEF Opens

LEMMA NotReady ==
    ASSUME NEW t, NEW u, NEW f, NEW d, NEW write, Checked(t, u, d), Kept(t, u, d)
    PROVE  Opens(t, Result(u, NONE), f, d, write)
    BY DEF Opens, Checked, Result

\* fileOpen to write.
LEMMA FileOpensToWrite ==
    ASSUME NEW t, Sound(t), NEW f \in Files, NEW d \in Devices
    PROVE  Opens(t, fileOpen(t, f, d, TRUE, FALSE), f, d, TRUE)
<1>. DEFINE u == checkDeviceReady(t, d)
            r == OpenAfterChecks(u, f, d, TRUE, FALSE)
<1>1. Checked(t, u, d) /\ Kept(t, u, d)
    BY Preflight
<1>2. CASE IsReady(t, d)
    <2>1. fileOpen(t, f, d, TRUE, FALSE) = r
        BY <1>2 DEF fileOpen
    <2>2. Sound(u)
        BY <1>1 DEF Checked
    <2>3. Opens(u, r, f, d, TRUE)
        BY <2>2, OpensUnchecked DEF OpensQuietly
    <2>. HIDE DEF u, r
    <2>. QED
        BY <1>1, <2>1, <2>3, OpensAfter
<1>3. CASE ~IsReady(t, d)
    <2>1. fileOpen(t, f, d, TRUE, FALSE) = Result(u, NONE)
        BY <1>3 DEF fileOpen
    <2>. HIDE DEF u
    <2>. QED
        BY <1>1, <2>1, NotReady
<1>. QED
    BY <1>2, <1>3

\* fileOpen to read: a handle is returned only for a file that is there, and
\* the drive's result has been read, whatever it was.
LEMMA FileOpensToRead ==
    ASSUME NEW t, Sound(t), NEW f \in Files, NEW d \in Devices
    PROVE  LET r == fileOpen(t, f, d, FALSE, FALSE)
           IN  /\ Opens(t, r, f, d, FALSE)
               /\ r.handle # NONE => f \in t.disk[d]
               /\ d \in present => r.state.latch[d] = "ok"
<1>. DEFINE r == fileOpen(t, f, d, FALSE, FALSE)
            u == checkDeviceReady(t, d)
            c == OpenAfterChecks(u, f, d, FALSE, FALSE)
<1>1. Checked(t, u, d) /\ Kept(t, u, d)
    BY Preflight
<1>. SUFFICES /\ Opens(t, r, f, d, FALSE)
              /\ r.handle # NONE => f \in t.disk[d]
              /\ d \in present => r.state.latch[d] = "ok"
    OBVIOUS
<1>2. CASE IsReady(t, d)
    <2>1. r = c
        BY <1>2 DEF fileOpen
    <2>2. Sound(u)
        BY <1>1 DEF Checked
    <2>3. /\ Opens(u, c, f, d, FALSE)
          /\ c.handle # NONE => f \in u.disk[d]
          /\ u.latch[d] = "ok" => c.state.latch[d] = "ok"
        BY <2>2, OpensChecked
    <2>. HIDE DEF u, c, r
    <2>4. Opens(t, c, f, d, FALSE)
        BY <1>1, <2>3, OpensAfter
    <2>. QED
        BY <1>1, <2>1, <2>3, <2>4 DEF Checked
<1>3. CASE ~IsReady(t, d)
    <2>1. r = Result(u, NONE)
        BY <1>3 DEF fileOpen
    <2>. HIDE DEF u, r
    <2>2. Opens(t, r, f, d, FALSE)
        BY <1>1, <2>1, NotReady
    <2>. QED
        BY <1>1, <2>1, <2>2 DEF Checked, Result
<1>. QED
    BY <1>2, <1>3

-----------------------------------------------------------------------------
(* fileDelete, fileRename and a command by name *)

\* What a command to drive d leaves: the files on it may have changed.
Commanded(t, u, d) ==
    /\ Sound(u) /\ Kept(t, u, d) /\ u.handle = t.handle
    /\ \A e \in Devices \ {d} : u.disk[e] = t.disk[e]
    /\ d \in present => u.latch[d] = "ok"

\* A state of which only the files of one drive change.
LEMMA DiskChanges ==
    ASSUME NEW t, NEW c, NEW u, NEW d \in Devices, Checked(t, c, d), Kept(t, c, d),
           NEW files \in SUBSET Files,
           u = [c EXCEPT !.disk = [c.disk EXCEPT ![d] = files]]
    PROVE  Commanded(t, u, d)
<1>1. c \in State /\ Sound(c)
    BY DEF Checked, Sound
<1>2. [c.disk EXCEPT ![d] = files] \in [Devices -> SUBSET Files]
    BY <1>1 DEF State
<1>3. u \in State
    BY <1>1, <1>2 DEF State
<1>4. /\ u.handle = c.handle /\ u.L15Device = c.L15Device /\ u.lfn = c.lfn
      /\ u.chan = c.chan /\ u.latch = c.latch
      /\ u.disk = [c.disk EXCEPT ![d] = files]
    BY <1>1 DEF State
<1>5. Sound(u)
    BY <1>1, <1>3, <1>4 DEF Sound, Agree
<1>6. Kept(t, u, d)
    BY <1>4 DEF Kept
<1>7. \A e \in Devices \ {d} : u.disk[e] = t.disk[e]
    BY <1>1, <1>4 DEF Checked, State
<1>. QED
    BY <1>4, <1>5, <1>6, <1>7 DEF Commanded, Checked

LEMMA Deletes ==
    ASSUME NEW t, Sound(t), NEW f, NEW d \in Devices
    PROVE  /\ Commanded(t, fileDelete(t, f, d), d)
           /\ fileDelete(t, f, d).disk[d] \in {t.disk[d], t.disk[d] \ {f}}
<1>. DEFINE c == checkDeviceReady(t, d)
            files == IF IsReady(t, d) THEN t.disk[d] \ {f} ELSE t.disk[d]
            u == fileDelete(t, f, d)
<1>1. Checked(t, c, d) /\ Kept(t, c, d)
    BY Preflight
<1>2. c.disk = t.disk /\ c \in State
    BY <1>1 DEF Checked, Sound
<1>3. u = [c EXCEPT !.disk = [c.disk EXCEPT ![d] = files]]
    BY <1>2 DEF fileDelete, State
<1>4. files \in SUBSET Files
    BY DEF Sound, State
<1>5. files \in {t.disk[d], t.disk[d] \ {f}}
    OBVIOUS
<1>. HIDE DEF c, u, files
<1>6. Commanded(t, u, d)
    BY <1>1, <1>3, <1>4, DiskChanges
<1>7. u.disk[d] = files
    BY <1>2, <1>3 DEF State
<1>. QED
    BY <1>5, <1>6, <1>7 DEF u

LEMMA Renames ==
    ASSUME NEW t, Sound(t), NEW old \in Files, NEW new \in Files, NEW d \in Devices
    PROVE  Commanded(t, fileRename(t, old, new, d), d)
<1>. DEFINE c == checkDeviceReady(t, d)
            files == IF IsReady(t, d) /\ old \in t.disk[d] /\ new \notin t.disk[d]
                     THEN (t.disk[d] \ {old}) \cup {new} ELSE t.disk[d]
            u == fileRename(t, old, new, d)
<1>1. Checked(t, c, d) /\ Kept(t, c, d)
    BY Preflight
<1>2. c.disk = t.disk /\ c \in State
    BY <1>1 DEF Checked, Sound
<1>3. u = [c EXCEPT !.disk = [c.disk EXCEPT ![d] = files]]
    BY <1>2 DEF fileRename, State
<1>4. files \in SUBSET Files
    BY DEF Sound, State
<1>. HIDE DEF c, u, files
<1>5. Commanded(t, u, d)
    BY <1>1, <1>3, <1>4, DiskChanges
<1>. QED
    BY <1>5 DEF u

-----------------------------------------------------------------------------
(* The inductive invariant *)

CopyRecord == [step : {"validate", "dest", "source", "transfer"},
               sf : Files, sd : Devices, df : Files, dd : Devices,
               src : Handle \cup {NONE}, dst : Handle \cup {NONE}, cut : BOOLEAN,
               before : [handle : [Handle -> BOOLEAN], disk : [Devices -> SUBSET Files]]]

\* The disks with the destination file on its drive.
Written == [copy.before.disk EXCEPT ![copy.dd] = @ \cup {copy.df}]

\* What holds before each of COPY's steps, about the tables at its start.
BeforeDest ==
    copy.step \in {"validate", "dest"} =>
        s.handle = copy.before.handle /\ s.disk = copy.before.disk

SourceFound == copy.step \in {"dest", "source", "transfer"} => copy.sf \in s.disk[copy.sd]

DestOpen ==
    copy.step = "source" =>
        /\ copy.dst \in Handle /\ ~copy.before.handle[copy.dst]
        /\ s.handle = [copy.before.handle EXCEPT ![copy.dst] = TRUE]
        /\ s.disk = Written
        /\ ~copy.cut /\ copy.df \notin copy.before.disk[copy.dd] => Alive(copy.dst)

BothOpen ==
    copy.step = "transfer" =>
        /\ copy.dst \in Handle /\ ~copy.before.handle[copy.dst]
        /\ copy.src \in Handle /\ ~copy.before.handle[copy.src]
        /\ copy.src # copy.dst
        /\ s.handle = [copy.before.handle EXCEPT ![copy.dst] = TRUE, ![copy.src] = TRUE]
        /\ s.disk = Written
        /\ ~copy.cut /\ copy.df \notin copy.before.disk[copy.dd] =>
              Alive(copy.src) /\ Alive(copy.dst)

Progress == BeforeDest /\ SourceFound /\ DestOpen /\ BothOpen

IInv ==
    /\ Sound(s) /\ present \subseteq Devices
    /\ copy = Idle \/ copy \in CopyRecord
    /\ Progress

LEMMA AtRest == ASSUME IInv, Resting PROVE copy = Idle
    BY DEF IInv, Resting, Idle, CopyRecord

\* Between commands only the tables need be sound.
LEMMA BackAtRest ==
    ASSUME copy' = Idle, Sound(s'), present' \subseteq Devices
    PROVE  IInv'
<1>1. copy'.step = "idle"
    BY DEF Idle
<1>. QED
    BY <1>1 DEF IInv, Progress, BeforeDest, SourceFound, DestOpen, BothOpen

\* What a drive has latched does not concern the tables.
LEMMA LatchChanges ==
    ASSUME NEW t, Sound(t), NEW d \in Devices, NEW l \in {"ok", "error"}, NEW u,
           u = [t EXCEPT !.latch[d] = l]
    PROVE  /\ Sound(u)
           /\ u.handle = t.handle /\ u.disk = t.disk /\ u.chan = t.chan
           /\ u.L15Device = t.L15Device
<1>1. t \in State /\ [t.latch EXCEPT ![d] = l] \in [Devices -> {"ok", "error"}]
    BY DEF Sound, State
<1>2. u \in State
    BY <1>1 DEF State
<1>3. /\ u.handle = t.handle /\ u.disk = t.disk /\ u.chan = t.chan
      /\ u.L15Device = t.L15Device /\ u.lfn = t.lfn
    BY <1>1 DEF State
<1>. QED
    BY <1>2, <1>3 DEF Sound, Agree

-----------------------------------------------------------------------------
(* Calls of programs *)

LEMMA OpenStep ==
    ASSUME IInv, NEW f \in Files, NEW d \in Devices, NEW write \in BOOLEAN, Open(f, d, write)
    PROVE  IInv' /\ Kept(s, s', d)
<1>1. Sound(s) /\ present' \subseteq Devices /\ copy' = Idle
    BY AtRest DEF IInv, Open
<1>2. Sound(s') /\ Kept(s, s', d)
    <2>1. CASE write = TRUE
        <3>1. s' = fileOpen(s, f, d, TRUE, FALSE).state
            BY <2>1 DEF Open
        <3>. QED
            BY <1>1, <3>1, FileOpensToWrite DEF Opens
    <2>2. CASE write = FALSE
        <3>1. s' = fileOpen(s, f, d, FALSE, FALSE).state
            BY <2>2 DEF Open
        <3>. QED
            BY <1>1, <3>1, FileOpensToRead DEF Opens
    <2>. QED
        BY <2>1, <2>2
<1>. QED
    BY <1>1, <1>2, BackAtRest

LEMMA CloseStep ==
    ASSUME IInv, NEW h \in Handle, Close(h)
    PROVE  IInv' /\ Closed(s, s', h)
<1>1. Sound(s) /\ present' \subseteq Devices /\ copy' = Idle /\ s' = fileClose(s, h)
    BY AtRest DEF IInv, Close
<1>2. Closed(s, s', h)
    BY <1>1, Closing
<1>. QED
    BY <1>1, <1>2, BackAtRest DEF Closed

LEMMA DeleteStep ==
    ASSUME IInv, NEW f \in Files, NEW d \in Devices, Delete(f, d)
    PROVE  IInv' /\ Commanded(s, s', d)
<1>1. Sound(s) /\ present' \subseteq Devices /\ copy' = Idle /\ s' = fileDelete(s, f, d)
    BY AtRest DEF IInv, Delete
<1>2. Commanded(s, s', d)
    BY <1>1, Deletes
<1>. QED
    BY <1>1, <1>2, BackAtRest DEF Commanded

LEMMA RenameStep ==
    ASSUME IInv, NEW old \in Files, NEW new \in Files, NEW d \in Devices, Rename(old, new, d)
    PROVE  IInv' /\ Commanded(s, s', d)
<1>1. /\ Sound(s) /\ present' \subseteq Devices /\ copy' = Idle
      /\ s' = fileRename(s, old, new, d)
    BY AtRest DEF IInv, Rename
<1>2. Commanded(s, s', d)
    BY <1>1, Renames
<1>. QED
    BY <1>1, <1>2, BackAtRest DEF Commanded

LEMMA ReleaseStep ==
    ASSUME IInv, ReleaseL15
    PROVE  IInv'
<1>1. Sound(s) /\ present' \subseteq Devices /\ copy' = Idle /\ s' = ahReleaseL15(s)
    BY AtRest DEF IInv, ReleaseL15
<1>2. Released(s, s')
    BY <1>1, Release
<1>. QED
    BY <1>1, <1>2, BackAtRest DEF Released

LEMMA RunByNameStep ==
    ASSUME IInv, NEW f \in Files, NEW d \in Devices, RunByName(f, d)
    PROVE  IInv' /\ Kept(s, s', d)
<1>. DEFINE c == checkDeviceReady(s, d)
            l == IF f \in s.disk[d] THEN "ok" ELSE "error"
<1>1. Sound(s) /\ present' \subseteq Devices /\ copy' = Idle
    BY AtRest DEF IInv, RunByName
<1>2. s' = c \/ s' = [c EXCEPT !.latch[d] = l]
    BY DEF RunByName
<1>3. Checked(s, c, d) /\ Kept(s, c, d)
    BY <1>1, Preflight
<1>4. l \in {"ok", "error"} /\ Sound(c)
    BY <1>3 DEF Checked
<1>. HIDE DEF c, l
<1>5. Sound(s') /\ s'.chan = c.chan /\ s'.L15Device = c.L15Device
    BY <1>2, <1>4, LatchChanges
<1>. QED
    BY <1>1, <1>3, <1>5, BackAtRest DEF Kept

-----------------------------------------------------------------------------
(* Drives switched off and on *)

LEMMA SwitchOffStep ==
    ASSUME IInv, NEW d \in Devices, SwitchOff(d)
    PROVE  IInv' /\ s'.chan = Cut(s.chan, d) /\ present' = present \ {d}
<1>. DEFINE t == [s EXCEPT !.chan = Cut(s.chan, d)]
<1>1. s \in State /\ Sound(s)
    BY DEF IInv, Sound
<1>2. s' = [t EXCEPT !.latch[d] = "ok"]
    BY <1>1 DEF SwitchOff, Cut, State
<1>3. Cut(s.chan, d) \in [Handle -> Devices \cup {0}]
    BY <1>1 DEF Cut, State
<1>4. t \in State
    BY <1>1, <1>3 DEF State
<1>5. /\ t.handle = s.handle /\ t.disk = s.disk /\ t.chan = Cut(s.chan, d)
      /\ t.L15Device = s.L15Device /\ t.lfn = s.lfn
    BY <1>1 DEF State
<1>. HIDE DEF t
<1>6. Sound(t)
    <2>1. \A h \in Handle : t.chan[h] \in {0, s.chan[h]}
        BY <1>5 DEF Cut
    <2>. QED
        BY <1>1, <1>4, <1>5, <2>1 DEF Sound, Agree
<1>7. Sound(s') /\ s'.handle = s.handle /\ s'.disk = s.disk /\ s'.chan = Cut(s.chan, d)
    BY <1>2, <1>5, <1>6, LatchChanges
<1>8. present' = present \ {d} /\ present' \subseteq Devices
    BY DEF SwitchOff, IInv
<1>9. CASE Resting
    <2>1. copy' = Idle
        BY <1>9 DEF SwitchOff
    <2>. QED
        BY <1>7, <1>8, <2>1, BackAtRest
<1>10. CASE ~Resting
    <2>1. copy \in CopyRecord /\ copy' = [copy EXCEPT !.cut = TRUE]
        BY <1>10 DEF IInv, Resting, Idle, SwitchOff
    <2>2. /\ copy' \in CopyRecord /\ copy'.cut
          /\ copy'.step = copy.step /\ copy'.before = copy.before
          /\ copy'.sf = copy.sf /\ copy'.sd = copy.sd
          /\ copy'.df = copy.df /\ copy'.dd = copy.dd
          /\ copy'.src = copy.src /\ copy'.dst = copy.dst
        BY <2>1 DEF CopyRecord
    <2>3. Progress'
        BY <1>7, <2>2 DEF IInv, Progress, BeforeDest, SourceFound, DestOpen, BothOpen, Written
    <2>. QED
        BY <1>7, <1>8, <2>2, <2>3 DEF IInv
<1>. QED
    BY <1>7, <1>8, <1>9, <1>10

LEMMA SwitchOnStep ==
    ASSUME IInv, NEW d \in Devices, SwitchOn(d)
    PROVE  IInv'
    BY DEF IInv, SwitchOn, Progress, BeforeDest, SourceFound, DestOpen, BothOpen,
           Written, Alive

LEMMA Stutter ==
    ASSUME IInv, UNCHANGED vars
    PROVE  IInv'
    BY DEF IInv, vars, Progress, BeforeDest, SourceFound, DestOpen, BothOpen,
           Written, Alive

-----------------------------------------------------------------------------
(* COPY *)

\* What COPY leaves when it ends: the handles of its start, and every file but
\* the destination as it was.
CleanEnd ==
    /\ s'.handle = copy.before.handle
    /\ \A d \in Devices : \A f \in Files \ {copy.df} :
          f \in s'.disk[d] <=> f \in copy.before.disk[d]
    /\ \A d \in Devices \ {copy.dd} : s'.disk[d] = copy.before.disk[d]

LEMMA Busy ==
    ASSUME IInv, ~Resting
    PROVE  copy \in CopyRecord /\ Sound(s)
    BY DEF IInv, Resting, Idle

\* A step that goes on changes the fields it says and no other.
LEMMA Going ==
    ASSUME copy \in CopyRecord, NEW st \in {"validate", "dest", "source", "transfer"}, Goto(st)
    PROVE  /\ copy' \in CopyRecord /\ copy'.step = st
           /\ copy'.before = copy.before /\ copy'.cut = copy.cut
           /\ copy'.sf = copy.sf /\ copy'.sd = copy.sd
           /\ copy'.df = copy.df /\ copy'.dd = copy.dd
           /\ copy'.src = copy.src /\ copy'.dst = copy.dst
    BY DEF CopyRecord, Goto

LEMMA CopyStartStep ==
    ASSUME IInv, NEW sf \in Files, NEW df \in Files, NEW sd \in Devices, NEW dd \in Devices,
           CopyStart(sf, sd, df, dd)
    PROVE  IInv' /\ s'.chan = s.chan
<1>1. Sound(s) /\ s \in State /\ present' \subseteq Devices
    BY DEF IInv, CopyStart, Sound
<1>2. s' = s \/ s' = [s EXCEPT !.latch[sd] = "ok"]
    BY DEF CopyStart
<1>3. Sound(s') /\ s'.chan = s.chan /\ s'.handle = s.handle /\ s'.disk = s.disk
    BY <1>1, <1>2, LatchChanges
<1>4. copy' = [step |-> "validate", sf |-> sf, sd |-> sd, df |-> df,
               dd |-> dd, src |-> NONE, dst |-> NONE, cut |-> FALSE,
               before |-> [handle |-> s.handle, disk |-> s.disk]]
    BY DEF CopyStart
<1>5. copy' \in CopyRecord
    BY <1>1, <1>4 DEF CopyRecord, State
<1>6. copy'.step = "validate" /\ copy'.before.handle = s.handle /\ copy'.before.disk = s.disk
    BY <1>4
<1>. QED
    BY <1>1, <1>3, <1>5, <1>6 DEF IInv, Progress, BeforeDest, SourceFound, DestOpen, BothOpen

LEMMA ValidateStep ==
    ASSUME IInv, CopyValidate
    PROVE  IInv' /\ (copy'.step = "idle" => CleanEnd)
<1>. DEFINE r == fileOpen(s, copy.sf, copy.sd, FALSE, FALSE)
            c == fileClose(r.state, r.handle)
<1>1. /\ copy \in CopyRecord /\ Sound(s) /\ present' \subseteq Devices
      /\ copy.step = "validate"
    BY Busy DEF CopyValidate, Resting, IInv
<1>2. /\ copy.sf \in Files /\ copy.sd \in Devices
      /\ s.handle = copy.before.handle /\ s.disk = copy.before.disk
    BY <1>1 DEF IInv, Progress, BeforeDest, CopyRecord
<1>3. /\ Opens(s, r, copy.sf, copy.sd, FALSE)
      /\ r.handle # NONE => copy.sf \in s.disk[copy.sd]
    BY <1>1, <1>2, FileOpensToRead
<1>4. \/ r.handle = NONE /\ s' = r.state /\ Failed
      \/ r.handle # NONE /\ s' = ahReleaseL15(c) /\ Goto("dest")
    BY DEF CopyValidate
<1>. HIDE DEF r, c
<1>5. CASE r.handle = NONE
    <2>1. /\ copy' = Idle /\ copy'.step = "idle" /\ Sound(s')
          /\ s'.handle = s.handle /\ s'.disk = s.disk
        BY <1>3, <1>4, <1>5 DEF Opens, Failed, Idle
    <2>. QED
        BY <1>1, <1>2, <2>1, BackAtRest DEF CleanEnd
<1>6. CASE r.handle # NONE
    <2>1. /\ Sound(r.state) /\ r.handle \in Handle /\ ~s.handle[r.handle]
          /\ r.state.handle = [s.handle EXCEPT ![r.handle] = TRUE]
          /\ r.state.disk = s.disk /\ copy.sf \in s.disk[copy.sd]
        BY <1>3, <1>6 DEF Opens, FreeHandles
    <2>2. Closed(r.state, c, r.handle)
        BY <2>1, Closing DEF c
    <2>3. Released(c, s')
        BY <1>4, <1>6, <2>2, Release DEF Closed
    <2>4. Sound(s') /\ s'.disk = s.disk /\ s'.handle = [r.state.handle EXCEPT ![r.handle] = FALSE]
        BY <2>1, <2>2, <2>3 DEF Closed, Released
    <2>5. s'.handle = s.handle
        BY <1>1, <2>1, <2>4 DEF Sound, State
    <2>6. /\ copy' \in CopyRecord /\ copy'.step = "dest" /\ copy'.before = copy.before
          /\ copy'.sf = copy.sf /\ copy'.sd = copy.sd
        BY <1>1, <1>4, <1>6, Going
    <2>. QED
        BY <1>1, <1>2, <2>1, <2>4, <2>5, <2>6
           DEF IInv, Progress, BeforeDest, SourceFound, DestOpen, BothOpen
<1>. QED
    BY <1>5, <1>6

LEMMA OpenDestStep ==
    ASSUME IInv, CopyOpenDest
    PROVE  IInv' /\ (copy'.step = "idle" => CleanEnd)
<1>. DEFINE c == checkDeviceReady(s, copy.dd)
            l == ahReleaseL15(c)
            r == fileOpen(l, copy.df, copy.dd, TRUE, TRUE)
<1>1. /\ copy \in CopyRecord /\ Sound(s) /\ present' \subseteq Devices
      /\ copy.step = "dest"
    BY Busy DEF CopyOpenDest, Resting, IInv
<1>2. /\ copy.df \in Files /\ copy.dd \in Devices /\ copy.sf \in Files /\ copy.sd \in Devices
      /\ s.handle = copy.before.handle /\ s.disk = copy.before.disk
      /\ copy.sf \in s.disk[copy.sd]
    BY <1>1 DEF IInv, Progress, BeforeDest, SourceFound, CopyRecord
<1>3. Checked(s, c, copy.dd)
    BY <1>1, <1>2, CheckReady
<1>4. Released(c, l)
    BY <1>3, Release DEF Checked
<1>5. r = OpenAfterChecks(l, copy.df, copy.dd, TRUE, TRUE)
    BY DEF fileOpen
<1>6. OpensQuietly(l, r, copy.df, copy.dd, TRUE)
    BY <1>2, <1>4, <1>5, OpensUnchecked DEF Released
<1>7. \/ s' = c /\ Failed
      \/ r.handle = NONE /\ s' = r.state /\ Failed
      \/ /\ r.handle # NONE /\ s' = r.state
         /\ copy' = [copy EXCEPT !.step = "source", !.dst = r.handle]
    BY DEF CopyOpenDest
<1>8. l.handle = s.handle /\ l.disk = s.disk /\ Sound(l)
    BY <1>3, <1>4 DEF Checked, Released
<1>. HIDE DEF c, l, r
<1>9. CASE Failed
    <2>1. copy' = Idle /\ copy'.step = "idle"
        BY <1>9 DEF Failed, Idle
    <2>2. Sound(s') /\ s'.handle = s.handle /\ s'.disk = s.disk
        BY <1>1, <1>3, <1>6, <1>7, <1>8, <2>1 DEF Checked, Opens, OpensQuietly, CopyRecord
    <2>. QED
        BY <1>1, <1>2, <2>1, <2>2, BackAtRest DEF CleanEnd
<1>10. CASE /\ r.handle # NONE /\ s' = r.state
            /\ copy' = [copy EXCEPT !.step = "source", !.dst = r.handle]
    <2>1. /\ Sound(s') /\ r.handle \in Handle /\ ~s.handle[r.handle]
          /\ s'.handle = [s.handle EXCEPT ![r.handle] = TRUE]
          /\ s'.disk = [s.disk EXCEPT ![copy.dd] = @ \cup {copy.df}]
        BY <1>6, <1>8, <1>10 DEF Opens, OpensQuietly, FreeHandles
    <2>2. copy.df \notin s.disk[copy.dd] => s'.chan[r.handle] = copy.dd
        BY <1>6, <1>8, <1>10, <2>1 DEF CanOpen, OpensQuietly, Sound, State
    <2>3. copy.dd # 0
        BY <1>2, Handles
    <2>4. /\ copy' \in CopyRecord /\ copy'.step = "source" /\ copy'.before = copy.before
          /\ copy'.cut = copy.cut /\ copy'.sf = copy.sf /\ copy'.sd = copy.sd
          /\ copy'.df = copy.df /\ copy'.dd = copy.dd /\ copy'.dst = r.handle
        BY <1>1, <1>10, <2>1 DEF CopyRecord
    <2>5. copy.sf \in s'.disk[copy.sd]
        BY <1>1, <1>2, <2>1 DEF Sound, State
    <2>. QED
        BY <1>1, <1>2, <2>1, <2>2, <2>3, <2>4, <2>5
           DEF IInv, Progress, BeforeDest, SourceFound, DestOpen, BothOpen, Written, Alive
<1>. QED
    BY <1>7, <1>9, <1>10

\* The error exits close what is open and scratch the destination.
LEMMA Scratch ==
    ASSUME copy \in CopyRecord, NEW t, Sound(t), t.handle = copy.before.handle,
           t.disk = Written, s' = fileDelete(t, copy.df, copy.dd)
    PROVE  Sound(s') /\ CleanEnd
<1>1. copy.dd \in Devices /\ copy.df \in Files
    BY DEF CopyRecord
<1>2. Commanded(t, s', copy.dd) /\ s'.disk[copy.dd] \in {t.disk[copy.dd], t.disk[copy.dd] \ {copy.df}}
    BY <1>1, Deletes
<1>3. /\ \A d \in Devices \ {copy.dd} : t.disk[d] = copy.before.disk[d]
      /\ t.disk[copy.dd] = copy.before.disk[copy.dd] \cup {copy.df}
    BY <1>1 DEF Written, CopyRecord
<1>4. \A d \in Devices \ {copy.dd} : s'.disk[d] = copy.before.disk[d]
    BY <1>2, <1>3 DEF Commanded
<1>5. \A d \in Devices : \A f \in Files \ {copy.df} :
          f \in s'.disk[d] <=> f \in copy.before.disk[d]
    BY <1>2, <1>3, <1>4
<1>. QED
    BY <1>2, <1>4, <1>5 DEF CleanEnd, Commanded

LEMMA OpenSourceStep ==
    ASSUME IInv, CopyOpenSource
    PROVE  IInv' /\ (copy'.step = "idle" => CleanEnd)
<1>. DEFINE r == fileOpen(s, copy.sf, copy.sd, FALSE, TRUE)
            c == fileClose(r.state, copy.dst)
<1>1. /\ copy \in CopyRecord /\ Sound(s) /\ present' \subseteq Devices
      /\ copy.step = "source"
    BY Busy DEF CopyOpenSource, Resting, IInv
<1>2. /\ copy.df \in Files /\ copy.dd \in Devices /\ copy.sf \in Files /\ copy.sd \in Devices
      /\ copy.before.handle \in [Handle -> BOOLEAN]
    BY <1>1 DEF CopyRecord
<1>3. /\ copy.dst \in Handle /\ ~copy.before.handle[copy.dst]
      /\ s.handle = [copy.before.handle EXCEPT ![copy.dst] = TRUE]
      /\ s.disk = Written /\ copy.sf \in s.disk[copy.sd]
      /\ ~copy.cut /\ copy.df \notin copy.before.disk[copy.dd] => Alive(copy.dst)
    BY <1>1 DEF IInv, Progress, SourceFound, DestOpen
<1>4. r = OpenAfterChecks(s, copy.sf, copy.sd, FALSE, TRUE)
    BY DEF fileOpen
<1>5. OpensQuietly(s, r, copy.sf, copy.sd, FALSE)
    BY <1>1, <1>2, <1>4, OpensUnchecked
<1>6. \/ r.handle = NONE /\ s' = fileDelete(c, copy.df, copy.dd) /\ Failed
      \/ /\ r.handle # NONE /\ s' = r.state
         /\ copy' = [copy EXCEPT !.step = "transfer", !.src = r.handle]
    BY DEF CopyOpenSource
<1>. HIDE DEF r, c
<1>7. CASE r.handle = NONE
    <2>1. Sound(r.state) /\ r.state.handle = s.handle /\ r.state.disk = Written
        BY <1>3, <1>5, <1>7 DEF OpensQuietly, Opens
    <2>2. Closed(r.state, c, copy.dst)
        BY <1>3, <2>1, Closing DEF c
    <2>3. Sound(c) /\ c.disk = Written /\ c.handle = [s.handle EXCEPT ![copy.dst] = FALSE]
        BY <2>1, <2>2 DEF Closed
    <2>4. c.handle = copy.before.handle
        BY <1>2, <1>3, <2>3
    <2>5. Sound(s') /\ CleanEnd
        BY <1>1, <1>6, <1>7, <2>3, <2>4, Scratch
    <2>. QED
        BY <1>1, <1>6, <1>7, <2>5, BackAtRest DEF Failed
<1>8. CASE r.handle # NONE
    <2>1. /\ Sound(s') /\ r.handle \in Handle /\ ~s.handle[r.handle]
          /\ s'.handle = [s.handle EXCEPT ![r.handle] = TRUE]
          /\ s'.disk = s.disk
          /\ s'.chan = [s.chan EXCEPT ![r.handle] =
                           IF CanOpen(s, copy.sf, copy.sd, FALSE) THEN copy.sd ELSE 0]
        BY <1>5, <1>6, <1>8 DEF OpensQuietly, Opens, FreeHandles
    <2>2. r.handle # copy.dst /\ ~copy.before.handle[r.handle]
        BY <1>2, <1>3, <2>1
    <2>3. s'.chan[r.handle] = copy.sd /\ s'.chan[copy.dst] = s.chan[copy.dst]
        BY <1>1, <1>3, <2>1, <2>2 DEF CanOpen, Sound, State
    <2>4. copy.sd # 0
        BY <1>2, Handles
    <2>. DEFINE h == r.handle
    <2>a. copy' = [copy EXCEPT !.step = "transfer", !.src = h] /\ h \in Handle
        BY <1>6, <1>8, <2>1
    <2>. HIDE DEF h
    <2>5. /\ copy'.step = "transfer" /\ copy'.before = copy.before
          /\ copy'.cut = copy.cut /\ copy'.sf = copy.sf /\ copy'.sd = copy.sd
          /\ copy'.df = copy.df /\ copy'.dd = copy.dd
          /\ copy'.dst = copy.dst /\ copy'.src = h
        BY <1>1, <2>a DEF CopyRecord
    <2>6. copy' \in CopyRecord
        BY <1>1, <2>a DEF CopyRecord
    <2>. USE DEF h
    <2>7. s'.handle = [copy.before.handle EXCEPT ![copy.dst] = TRUE, ![r.handle] = TRUE]
        BY <1>3, <2>1
    <2>8. Written' = Written
        BY <2>5 DEF Written
    <2>9. /\ s'.disk = Written' /\ copy'.sf \in s'.disk[copy'.sd]
          /\ ~copy'.cut /\ copy'.df \notin copy'.before.disk[copy'.dd]
                => s'.chan[copy.dst] # 0 /\ s'.chan[r.handle] # 0
        BY <1>3, <2>1, <2>3, <2>4, <2>5, <2>8 DEF Alive
    <2>10. Progress'
        BY <1>3, <2>1, <2>2, <2>5, <2>7, <2>9
           DEF Progress, BeforeDest, SourceFound, DestOpen, BothOpen, Alive
    <2>. QED
        BY <1>1, <2>1, <2>5, <2>6, <2>10 DEF IInv
<1>. QED
    BY <1>7, <1>8

\* While COPY transfers, what its end closes and scratches.
LEMMA Transferring ==
    ASSUME IInv, copy.step = "transfer"
    PROVE  /\ copy \in CopyRecord /\ Sound(s)
           /\ copy.df \in Files /\ copy.dd \in Devices /\ copy.sd \in Devices
           /\ copy.before.handle \in [Handle -> BOOLEAN]
           /\ copy.dst \in Handle /\ ~copy.before.handle[copy.dst]
           /\ copy.src \in Handle /\ ~copy.before.handle[copy.src]
           /\ copy.src # copy.dst
           /\ s.handle = [copy.before.handle EXCEPT ![copy.dst] = TRUE, ![copy.src] = TRUE]
           /\ s.disk = Written /\ copy.sf \in s.disk[copy.sd]
<1>1. copy \in CopyRecord /\ Sound(s)
    BY Busy DEF Resting
<1>. QED
    BY <1>1 DEF IInv, Progress, SourceFound, BothOpen, CopyRecord

\* Handles that were free and are freed again are as they were.
LEMMA FreedAgain ==
    ASSUME NEW b \in [Handle -> BOOLEAN], NEW g \in Handle, NEW h \in Handle,
           ~b[g], ~b[h], NEW m, m = [b EXCEPT ![g] = TRUE, ![h] = TRUE]
    PROVE  /\ [[m EXCEPT ![g] = FALSE] EXCEPT ![h] = FALSE] = b
           /\ [[m EXCEPT ![h] = FALSE] EXCEPT ![g] = FALSE] = b
<1>. DEFINE u == [[m EXCEPT ![g] = FALSE] EXCEPT ![h] = FALSE]
            v == [[m EXCEPT ![h] = FALSE] EXCEPT ![g] = FALSE]
<1>1. u = [i \in Handle |-> u[i]] /\ v = [i \in Handle |-> v[i]] /\ b = [i \in Handle |-> b[i]]
    OBVIOUS
<1>2. \A i \in Handle : u[i] = b[i]
    OBVIOUS
<1>3. \A i \in Handle : v[i] = b[i]
    OBVIOUS
<1>. HIDE DEF u, v
<1>4. u = b
    BY <1>1, <1>2, Zenon
<1>5. v = b
    BY <1>1, <1>3, Zenon
<1>. QED
    BY <1>4, <1>5 DEF u, v

\* Both handles closed, in either order.
LEMMA BothClosed ==
    ASSUME NEW t, Sound(t), NEW g \in Handle, NEW h \in Handle
    PROVE  LET u == fileClose(fileClose(t, g), h)
           IN  /\ Sound(u) /\ u.disk = t.disk
               /\ u.handle = [[t.handle EXCEPT ![g] = FALSE] EXCEPT ![h] = FALSE]
<1>. DEFINE c == fileClose(t, g)
            u == fileClose(c, h)
<1>1. Closed(t, c, g)
    BY Closing
<1>2. Closed(c, u, h)
    BY <1>1, Closing DEF Closed
<1>. HIDE DEF c, u
<1>3. /\ Sound(u) /\ u.disk = t.disk
      /\ u.handle = [[t.handle EXCEPT ![g] = FALSE] EXCEPT ![h] = FALSE]
    BY <1>1, <1>2 DEF Closed
<1>. QED
    BY <1>3 DEF u, c

LEMMA TransferErrorStep ==
    ASSUME IInv, CopyTransferError
    PROVE  IInv' /\ CleanEnd
<1>1. copy.step = "transfer" /\ present' \subseteq Devices /\ copy' = Idle
    BY DEF CopyTransferError, IInv
<1>2. PICK t \in AfterFault :
          s' = fileDelete(fileClose(fileClose(t, copy.src), copy.dst), copy.df, copy.dd)
    BY DEF CopyTransferError
<1>3. Sound(t) /\ t.handle = s.handle /\ t.disk = s.disk
    <2>1. CASE t = s
        BY <1>1, <2>1, Transferring
    <2>2. CASE t # s
        <3>1. PICK d \in {copy.sd, copy.dd} : t = [s EXCEPT !.latch[d] = "error"]
            BY <2>2 DEF AfterFault
        <3>2. d \in Devices /\ Sound(s)
            BY <1>1, Transferring
        <3>. QED
            BY <3>1, <3>2, LatchChanges
    <2>. QED
        BY <2>1, <2>2
<1>. DEFINE c == fileClose(fileClose(t, copy.src), copy.dst)
<1>4. /\ Sound(c) /\ c.disk = t.disk
      /\ c.handle = [[t.handle EXCEPT ![copy.src] = FALSE] EXCEPT ![copy.dst] = FALSE]
    BY <1>1, <1>3, BothClosed, Transferring
<1>. HIDE DEF c
<1>5. c.disk = Written
    BY <1>1, <1>3, <1>4, Transferring
<1>6. c.handle = copy.before.handle
    <2>1. /\ copy.before.handle \in [Handle -> BOOLEAN]
          /\ copy.dst \in Handle /\ ~copy.before.handle[copy.dst]
          /\ copy.src \in Handle /\ ~copy.before.handle[copy.src]
          /\ s.handle = [copy.before.handle EXCEPT ![copy.dst] = TRUE, ![copy.src] = TRUE]
        BY <1>1, Transferring
    <2>. QED
        BY <1>3, <1>4, <2>1, FreedAgain
<1>7. s' = fileDelete(c, copy.df, copy.dd)
    BY <1>2 DEF c
<1>8. Sound(s') /\ CleanEnd
    BY <1>1, <1>4, <1>5, <1>6, <1>7, Scratch, Transferring
<1>. QED
    BY <1>1, <1>8, BackAtRest

LEMMA DoneStep ==
    ASSUME IInv, CopyDone
    PROVE  /\ IInv' /\ CleanEnd
           /\ copy.df \in s'.disk[copy.dd] /\ copy.sf \in s'.disk[copy.sd]
<1>. DEFINE c == fileClose(fileClose(s, copy.dst), copy.src)
<1>1. copy.step = "transfer" /\ present' \subseteq Devices /\ copy' = Idle
    BY DEF CopyDone, IInv
<1>2. s' = readErrorChannel(c, copy.dd)
    BY DEF CopyDone
<1>3. /\ Sound(c) /\ c.disk = s.disk
      /\ c.handle = [[s.handle EXCEPT ![copy.dst] = FALSE] EXCEPT ![copy.src] = FALSE]
    BY <1>1, BothClosed, Transferring
<1>. HIDE DEF c
<1>4. Drained(c, s', copy.dd)
    BY <1>1, <1>2, <1>3, ReadErrorSound, Transferring
<1>5. Sound(s') /\ s'.handle = c.handle /\ s'.disk = Written
    BY <1>1, <1>3, <1>4, Transferring DEF Drained
<1>6. s'.handle = copy.before.handle
    <2>1. /\ copy.before.handle \in [Handle -> BOOLEAN]
          /\ copy.dst \in Handle /\ ~copy.before.handle[copy.dst]
          /\ copy.src \in Handle /\ ~copy.before.handle[copy.src]
          /\ s.handle = [copy.before.handle EXCEPT ![copy.dst] = TRUE, ![copy.src] = TRUE]
        BY <1>1, Transferring
    <2>. QED
        BY <1>3, <1>5, <2>1, FreedAgain
<1>7. copy.df \in s'.disk[copy.dd] /\ copy.sf \in s'.disk[copy.sd]
    BY <1>1, <1>5, Transferring DEF Written, CopyRecord
<1>8. CleanEnd
    BY <1>1, <1>5, <1>6, Transferring DEF CleanEnd, Written, CopyRecord
<1>. QED
    BY <1>1, <1>5, <1>7, <1>8, BackAtRest

-----------------------------------------------------------------------------
(* The theorems *)

LEMMA Initially == Init => IInv
<1>. SUFFICES ASSUME Init PROVE IInv
    OBVIOUS
<1>1. PICK disk \in [Devices -> SUBSET Files] :
          s = [handle |-> [h \in Handle |-> FALSE], L15Device |-> 0,
               lfn |-> [n \in LFN |-> 0], chan |-> [h \in Handle |-> 0],
               latch |-> [d \in Devices |-> "ok"], disk |-> disk]
    BY DEF Init
<1>2. s \in State
    BY <1>1 DEF State
<1>3. Sound(s)
    BY <1>1, <1>2, Handles DEF Sound, Agree
<1>4. present \subseteq Devices /\ copy = Idle /\ copy.step = "idle"
    BY DEF Init, Idle
<1>. QED
    BY <1>3, <1>4 DEF IInv, Progress, BeforeDest, SourceFound, DestOpen, BothOpen

\* Every step keeps the invariant, and ends COPY cleanly if it ends it.
LEMMA EveryStep == IInv /\ [Next]_vars => IInv' /\ (EndsCopy => CleanEnd)
<1>. SUFFICES ASSUME IInv, [Next]_vars PROVE IInv' /\ (EndsCopy => CleanEnd)
    OBVIOUS
<1>1. ASSUME NEW f \in Files, NEW d \in Devices, NEW write \in BOOLEAN, Open(f, d, write)
      PROVE  IInv' /\ ~EndsCopy
    BY <1>1, OpenStep DEF Open, EndsCopy
<1>2. ASSUME NEW h \in Handle, Close(h)
      PROVE  IInv' /\ ~EndsCopy
    BY <1>2, CloseStep DEF Close, EndsCopy
<1>3. ASSUME NEW f \in Files, NEW d \in Devices, Delete(f, d)
      PROVE  IInv' /\ ~EndsCopy
    BY <1>3, DeleteStep DEF Delete, EndsCopy
<1>4. ASSUME NEW old \in Files, NEW new \in Files, NEW d \in Devices, Rename(old, new, d)
      PROVE  IInv' /\ ~EndsCopy
    BY <1>4, RenameStep DEF Rename, EndsCopy
<1>5. CASE ReleaseL15
    BY <1>5, ReleaseStep DEF ReleaseL15, EndsCopy
<1>6. ASSUME NEW f \in Files, NEW d \in Devices, RunByName(f, d)
      PROVE  IInv' /\ ~EndsCopy
    BY <1>6, RunByNameStep DEF RunByName, EndsCopy
<1>7. ASSUME NEW d \in Devices, SwitchOff(d)
      PROVE  IInv' /\ ~EndsCopy
    <2>1. ~Resting => copy'.step = copy.step
        BY <1>7, Busy DEF SwitchOff, CopyRecord
    <2>. QED
        BY <1>7, <2>1, SwitchOffStep DEF EndsCopy, Resting
<1>8. ASSUME NEW d \in Devices, SwitchOn(d)
      PROVE  IInv' /\ ~EndsCopy
    BY <1>8, SwitchOnStep DEF SwitchOn, EndsCopy, Resting
<1>9. ASSUME NEW sf \in Files, NEW df \in Files, NEW sd \in Devices, NEW dd \in Devices,
             CopyStart(sf, sd, df, dd)
      PROVE  IInv' /\ ~EndsCopy
    BY <1>9, CopyStartStep DEF CopyStart, EndsCopy
<1>10. CASE Copying
    BY <1>10, ValidateStep, OpenDestStep, OpenSourceStep, TransferErrorStep, DoneStep
       DEF Copying, EndsCopy
<1>11. CASE UNCHANGED vars
    BY <1>11, Stutter DEF EndsCopy, Resting, vars
<1>. QED
    BY <1>1, <1>2, <1>3, <1>4, <1>5, <1>6, <1>7, <1>8, <1>9, <1>10, <1>11 DEF Next

THEOREM Invariance == Spec => []IInv
<1>1. IInv /\ [Next]_vars => IInv'
    BY EveryStep
<1>. QED
    BY <1>1, Initially, PTL DEF Spec

\* The tables keep their types, and L15Device never holds anything but a
\* device or 0 (TypeOK).
THEOREM TypeCorrect == Spec => []TypeOK
<1>1. IInv => TypeOK
    BY DEF IInv, TypeOK, Sound, State, CopyRecord, Idle
<1>. QED
    BY <1>1, Invariance, PTL

\* HandleTable and the KERNAL's table of logical files agree after every call,
\* on its error paths too, and no channel outlives its logical file.
THEOREM TablesAlwaysAgree == Spec => []TablesAgree
<1>1. IInv => TablesAgree
    BY DEF IInv, TablesAgree, Sound, Agree
<1>. QED
    BY <1>1, Invariance, PTL

\* The cached device is the one LFN 15 is open on.
THEOREM CacheAlwaysCoherent == Spec => []CacheCoherent
<1>1. IInv => CacheCoherent
    BY DEF IInv, CacheCoherent, Sound
<1>. QED
    BY <1>1, Invariance, PTL

\* COPY never cuts its own streams: with no drive switched off and a
\* destination the drive accepted, both are live while it transfers.
THEOREM CopyStreamsStayLive == Spec => []CopyStreamsLive
<1>1. IInv => CopyStreamsLive
    BY DEF IInv, CopyStreamsLive, Progress, BothOpen
<1>. QED
    BY <1>1, Invariance, PTL

\* Whichever way COPY ends, the handles are those of its start.
THEOREM CopyNeverLeaks == Spec => CopyLeaksNoHandle
<1>1. IInv /\ [Next]_vars => [EndsCopy => s'.handle = copy.before.handle]_vars
    BY EveryStep DEF CleanEnd
<1>. QED
    BY <1>1, Invariance, PTL DEF Spec, CopyLeaksNoHandle

\* Whichever way COPY ends, no file but the destination differs from its
\* start, and source and destination are there when it ends without complaint.
THEOREM CopySparesTheRest == Spec => CopyTouchesOnlyDestination
<1>. DEFINE Touches ==
        EndsCopy =>
            /\ \A d \in Devices : \A f \in Files \ {copy.df} :
                  f \in s'.disk[d] <=> f \in copy.before.disk[d]
            /\ \A d \in Devices \ {copy.dd} : s'.disk[d] = copy.before.disk[d]
            /\ CopyDone => /\ copy.df \in s'.disk[copy.dd]
                           /\ copy.sf \in s'.disk[copy.sd]
<1>1. IInv /\ [Next]_vars => [Touches]_vars
    BY EveryStep, DoneStep DEF CleanEnd
<1>. QED
    BY <1>1, Invariance, PTL DEF Spec, CopyTouchesOnlyDestination

\* A drive's result is always read before a call to open to read, to delete or
\* to rename ends.
THEOREM CallsAlwaysDrain == Spec => CallsDrain
<1>. DEFINE Drains ==
        \A d \in present :
            \/ \E f \in Files : Open(f, d, FALSE) \/ Delete(f, d)
            \/ \E old, new \in Files : Rename(old, new, d)
            => s'.latch[d] = "ok"
<1>1. ASSUME IInv, NEW d \in present PROVE d \in Devices /\ Sound(s)
    BY <1>1 DEF IInv
<1>2. ASSUME IInv, NEW d \in present, NEW f \in Files, Open(f, d, FALSE)
      PROVE  s'.latch[d] = "ok"
    BY <1>1, <1>2, FileOpensToRead DEF Open
<1>3. ASSUME IInv, NEW d \in present, NEW f \in Files, Delete(f, d)
      PROVE  s'.latch[d] = "ok"
    BY <1>1, <1>3, DeleteStep DEF Commanded
<1>4. ASSUME IInv, NEW d \in present, NEW old \in Files, NEW new \in Files, Rename(old, new, d)
      PROVE  s'.latch[d] = "ok"
    BY <1>1, <1>4, RenameStep DEF Commanded
<1>5. IInv => Drains
    BY <1>2, <1>3, <1>4
<1>6. IInv /\ [Next]_vars => [Drains]_vars
    BY <1>5
<1>. QED
    BY <1>6, Invariance, PTL DEF Spec, CallsDrain

\* A call about a drive spares the streams on that drive; what is cut is on
\* the drive LFN 15 was taken from.
THEOREM SameDriveAlwaysSpares == Spec => SameDriveSpares
<1>. DEFINE Excused(h) == \/ ReleaseL15
                         \/ Close(h)
                         \/ s.chan[h] \notin present'
                         \/ s'.L15Device \notin {0, s.chan[h]}
            Cuts(h) == Resting /\ s.chan[h] # 0 /\ s'.chan[h] = 0
            Spares == \A h \in Handle : Cuts(h) => Excused(h)
<1>1. ASSUME IInv, NEW d \in Devices, Kept(s, s', d) PROVE Spares
    BY <1>1, Handles DEF Kept
<1>2. ASSUME IInv, NEW f \in Files, NEW d \in Devices, NEW write \in BOOLEAN, Open(f, d, write)
      PROVE  Spares
    <2>1. Kept(s, s', d)
        BY <1>2, OpenStep
    <2>. QED
        BY <1>1, <1>2, <2>1
<1>3. ASSUME IInv, NEW g \in Handle, Close(g)
      PROVE  Spares
    <2>1. s'.chan = [s.chan EXCEPT ![g] = 0] /\ Sound(s)
        BY <1>3, CloseStep DEF Closed, IInv
    <2>2. \A h \in Handle : Cuts(h) => h = g
        BY <2>1 DEF Sound, State
    <2>. QED
        BY <1>3, <2>2
<1>4. ASSUME IInv, NEW f \in Files, NEW d \in Devices, Delete(f, d)
      PROVE  Spares
    BY <1>1, <1>4, DeleteStep DEF Commanded
<1>5. ASSUME IInv, NEW old \in Files, NEW new \in Files, NEW d \in Devices, Rename(old, new, d)
      PROVE  Spares
    BY <1>1, <1>5, RenameStep DEF Commanded
<1>6. ASSUME IInv, NEW f \in Files, NEW d \in Devices, RunByName(f, d)
      PROVE  Spares
    BY <1>1, <1>6, RunByNameStep
<1>7. ASSUME IInv, NEW d \in Devices, SwitchOff(d)
      PROVE  Spares
    BY <1>7, SwitchOffStep DEF Cut
<1>8. ASSUME IInv, NEW d \in Devices, SwitchOn(d)
      PROVE  Spares
    BY <1>8 DEF SwitchOn
<1>9. ASSUME IInv, NEW sf \in Files, NEW df \in Files, NEW sd \in Devices, NEW dd \in Devices,
             CopyStart(sf, sd, df, dd)
      PROVE  Spares
    BY <1>9, CopyStartStep
<1>10. ASSUME Copying PROVE Spares
    BY <1>10 DEF Copying, CopyValidate, CopyOpenDest, CopyOpenSource, CopyTransferError,
                 CopyDone, Resting
<1>11. ASSUME ReleaseL15 PROVE Spares
    BY <1>11
<1>. HIDE DEF Spares
<1>12. IInv /\ [Next]_vars => [Spares]_vars
    BY <1>2, <1>3, <1>4, <1>5, <1>6, <1>7, <1>8, <1>9, <1>10, <1>11 DEF Next
<1>13. IInv /\ [Next]_vars =>
          [\A h \in Handle : Resting /\ s.chan[h] # 0 /\ s'.chan[h] = 0 =>
              \/ ReleaseL15
              \/ Close(h)
              \/ s.chan[h] \notin present'
              \/ s'.L15Device \notin {0, s.chan[h]}]_vars
    BY <1>12 DEF Spares
<1>. QED
    BY <1>13, Invariance, PTL DEF Spec, SameDriveSpares
=============================================================================
