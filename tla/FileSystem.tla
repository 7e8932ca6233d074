----------------------------- MODULE FileSystem -----------------------------
(***************************************************************************)
(* File handles and the command channel (command64/file.asm), and the shell *)
(* commands that hold several of them at once: COPY, and commands run by    *)
(* name (shell.asm).  The KERNAL's table of logical files and the disk      *)
(* drives are outside the code: they are modelled as file.asm relies on     *)
(* them.  A drive remembers the result of its last operation until it is    *)
(* read (readErrorChannel); closing the command channel, LFN 15, closes     *)
(* every data channel of that drive (cmdCopy); OPEN reports a missing       *)
(* device but not a missing file (fileOpen).                                *)
(***************************************************************************)
EXTENDS Integers, FiniteSets, FiniteSetsExt

CONSTANTS MaxHandles,  \* entries of HandleTable: 8
          Devices,     \* device numbers; 0 is none of them
          Files,       \* file names
          MediaErrors  \* TRUE when a transfer on a live channel may fail

ASSUME FileSystemAssumption ==
    /\ MaxHandles \in Nat \ {0}
    /\ 0 \notin Devices
    /\ MediaErrors \in BOOLEAN

Handle == 0 .. MaxHandles - 1
CMD    == MaxHandles          \* stands for LFN 15; handle h has an LFN of its own
LFN    == Handle \cup {CMD}
NONE   == -1

VARIABLES
    s,       \* the state of files: fields handle (HandleTable), L15Device,
             \* lfn (KERNAL: device of each logical file, 0 if closed), chan
             \* (drives: device where a handle's data channel lives, or 0),
             \* latch (drives: last result not yet read), disk (drives: the
             \* files on each)
    present, \* devices that answer on the bus
    copy     \* COPY in progress: its step and variables, and for the
             \* properties the handles and disks at its start (before), and
             \* whether a drive was switched off since (cut)

vars == <<s, present, copy>>

-----------------------------------------------------------------------------
(* The KERNAL and the drives *)

\* CLOSE of a logical file.
KernalCLOSE(t, n) ==
    [t EXCEPT !.lfn[n] = 0,
              !.chan = [h \in Handle |->
                           IF h = n \/ (n = CMD /\ t.chan[h] = t.lfn[CMD])
                           THEN 0 ELSE t.chan[h]]]

\* OPEN of handle h's logical file on a present device: the drive opens the
\* data channel, or records why not.  A write creates the file.
DriveOPEN(t, h, f, d, write) ==
    LET ok == IF write THEN f \notin t.disk[d] ELSE f \in t.disk[d]
    IN  [t EXCEPT !.lfn[h] = d,
                  !.chan[h] = IF ok THEN d ELSE 0,
                  !.latch[d] = IF ok THEN "ok" ELSE "error",
                  !.disk[d] = IF ok THEN @ \cup {f} ELSE @]

-----------------------------------------------------------------------------
(* file.asm *)

\* LFN 15 closed after every use, as before it was kept open.
MutantAlwaysReopens(t, d) ==
    [KernalCLOSE(t, CMD) EXCEPT !.lfn[CMD] = d, !.L15Device = d]

ensureL15Open(t, d) ==
    IF t.L15Device = d THEN t
    ELSE LET closed == IF t.L15Device = 0 THEN t ELSE KernalCLOSE(t, CMD)
         IN  [closed EXCEPT !.lfn[CMD] = d, !.L15Device = d]

\* Reading the status line clears it; a device that is away has none.
readErrorChannel(t, d) ==
    [ensureL15Open(t, d) EXCEPT !.latch[d] = "ok"]

\* The cache not reset; the cache set to $FF.
MutantKeepsCache(t) == KernalCLOSE(t, CMD)
MutantReleaseFF(t) == [KernalCLOSE(t, CMD) EXCEPT !.L15Device = NONE]

ahReleaseL15(t) == [KernalCLOSE(t, CMD) EXCEPT !.L15Device = 0]

\* checkDeviceReady: its verdict, and what it leaves behind.
IsReady(t, d) == d \in present /\ t.latch[d] = "ok"
checkDeviceReady(t, d) == IF d \in present THEN readErrorChannel(t, d) ELSE t

FreeHandles(t) == {h \in Handle : ~t.handle[h]}

\* What fileOpen returns: the state, and a handle or NONE.
Result(t, h) == [state |-> t, handle |-> h]

\* A file not found: its logical file not closed; its error not read.
MutantLeavesLfn(t, f, d, write, skip) ==
    IF FreeHandles(t) = {} \/ d \notin present THEN Result(t, NONE)
    ELSE
    LET h == Min(FreeHandles(t))
        opened == DriveOPEN(t, h, f, d, write)
    IN  IF write \/ skip \/ opened.latch[d] = "ok"
        THEN Result([opened EXCEPT !.handle[h] = TRUE], h)
        ELSE Result(readErrorChannel(opened, d), NONE)
MutantLeavesLatch(t, f, d, write, skip) ==
    IF FreeHandles(t) = {} \/ d \notin present THEN Result(t, NONE)
    ELSE
    LET h == Min(FreeHandles(t))
        opened == DriveOPEN(t, h, f, d, write)
    IN  IF write \/ skip \/ opened.latch[d] = "ok"
        THEN Result([opened EXCEPT !.handle[h] = TRUE], h)
        ELSE Result(KernalCLOSE(opened, h), NONE)

\* foFindLoop to the end: the open proper, after the preflight.
OpenAfterChecks(t, f, d, write, skip) ==
    IF FreeHandles(t) = {} THEN Result(t, NONE)
    ELSE
    LET h      == Min(FreeHandles(t))
        opened == DriveOPEN(t, h, f, d, write)
        marked == [opened EXCEPT !.handle[h] = TRUE]
    IN  IF d \notin present                       \* foError
        THEN Result(readErrorChannel(t, d), NONE)
        ELSE IF write \/ skip THEN Result(marked, h)
        ELSE IF opened.latch[d] = "ok"
        THEN Result(readErrorChannel(marked, d), h)
        ELSE Result(KernalCLOSE(readErrorChannel(opened, d), h), NONE)

\* The one-shot option FileOpenSkipChecks forgotten.
MutantNeverSkips(t, f, d, write, skip) ==
    IF IsReady(t, d)
    THEN OpenAfterChecks(checkDeviceReady(t, d), f, d, write, FALSE)
    ELSE Result(checkDeviceReady(t, d), NONE)

fileOpen(t, f, d, write, skip) ==
    IF skip THEN OpenAfterChecks(t, f, d, write, TRUE)
    ELSE IF IsReady(t, d)
    THEN OpenAfterChecks(checkDeviceReady(t, d), f, d, write, FALSE)
    ELSE Result(checkDeviceReady(t, d), NONE)

fileClose(t, h) ==
    IF t.handle[h] THEN [KernalCLOSE(t, h) EXCEPT !.handle[h] = FALSE] ELSE t

\* The preflight, then the Scratch command and the reading of its result.
fileDelete(t, f, d) ==
    [checkDeviceReady(t, d) EXCEPT
        !.disk[d] = IF IsReady(t, d) THEN @ \ {f} ELSE @]

\* Rename likewise; the drive refuses a name that is taken or missing.
fileRename(t, old, new, d) ==
    [checkDeviceReady(t, d) EXCEPT
        !.disk[d] = IF IsReady(t, d) /\ old \in @ /\ new \notin @
                    THEN (@ \ {old}) \cup {new} ELSE @]

-----------------------------------------------------------------------------
Idle == [step |-> "idle"]

Init ==
    /\ \E disk \in [Devices -> SUBSET Files] :
          s = [handle |-> [h \in Handle |-> FALSE], L15Device |-> 0,
               lfn |-> [n \in LFN |-> 0], chan |-> [h \in Handle |-> 0],
               latch |-> [d \in Devices |-> "ok"], disk |-> disk]
    /\ present = Devices
    /\ copy = Idle

Resting == copy.step = "idle"

(* Calls of the programs the shell runs: any number of handles, in any order *)

Open(f, d, write) ==
    /\ Resting
    /\ s' = fileOpen(s, f, d, write, FALSE).state
    /\ UNCHANGED <<present, copy>>

Close(h) ==
    /\ Resting
    /\ s' = fileClose(s, h)
    /\ UNCHANGED <<present, copy>>

Delete(f, d) ==
    /\ Resting
    /\ s' = fileDelete(s, f, d)
    /\ UNCHANGED <<present, copy>>

Rename(old, new, d) ==
    /\ Resting
    /\ s' = fileRename(s, old, new, d)
    /\ UNCHANGED <<present, copy>>

ReleaseL15 ==
    /\ Resting
    /\ s' = ahReleaseL15(s)
    /\ UNCHANGED <<present, copy>>

\* A command by name (sdBadCmd): findFile probes with LFN 14 and takes the
\* file for found, LOAD then fails if it is not there, and nothing reads the
\* drive's complaint.
RunByName(f, d) ==
    /\ Resting
    /\ s' = LET t == checkDeviceReady(s, d)
            IN  IF ~IsReady(s, d) THEN t
                ELSE [t EXCEPT !.latch[d] =
                                  IF f \in s.disk[d] THEN "ok" ELSE "error"]
    /\ UNCHANGED <<present, copy>>

(* Drives are switched off and on *)

SwitchOff(d) ==
    /\ d \in present
    /\ present' = present \ {d}
    /\ s' = [s EXCEPT !.chan = [h \in Handle |->
                                   IF s.chan[h] = d THEN 0 ELSE s.chan[h]],
                      !.latch[d] = "ok"]
    /\ copy' = IF Resting THEN Idle ELSE [copy EXCEPT !.cut = TRUE]

SwitchOn(d) ==
    /\ d \notin present
    /\ present' = present \cup {d}
    /\ UNCHANGED <<s, copy>>

-----------------------------------------------------------------------------
(* COPY (cmdCopy) *)

\* getSourceFileType reads the directory, which leaves the drive content.
CopyStart(sf, sd, df, dd) ==
    /\ Resting
    /\ s' = IF sd \in present THEN [s EXCEPT !.latch[sd] = "ok"] ELSE s
    /\ copy' = [step |-> "validate", sf |-> sf, sd |-> sd, df |-> df,
                dd |-> dd, src |-> NONE, dst |-> NONE, cut |-> FALSE,
                before |-> [handle |-> s.handle, disk |-> s.disk]]
    /\ UNCHANGED present

Goto(st) == copy' = [copy EXCEPT !.step = st]
Failed   == copy' = Idle

\* Open the source with every check, close it, release the command channel.
CopyValidate ==
    /\ copy.step = "validate"
    /\ LET r == fileOpen(s, copy.sf, copy.sd, FALSE, FALSE)
       IN  \/ r.handle = NONE /\ s' = r.state /\ Failed
           \/ /\ r.handle # NONE
              /\ s' = ahReleaseL15(fileClose(r.state, r.handle))
              /\ Goto("dest")
    /\ UNCHANGED present

\* Check the destination drive and release its command channel, then open
\* the destination without the checks.
CopyOpenDest ==
    /\ copy.step = "dest"
    /\ LET released == ahReleaseL15(checkDeviceReady(s, copy.dd))
           r == fileOpen(released, copy.df, copy.dd, TRUE, TRUE)
       IN  \/ /\ ~IsReady(s, copy.dd)
              /\ s' = checkDeviceReady(s, copy.dd) /\ Failed
           \/ /\ IsReady(s, copy.dd) /\ r.handle = NONE
              /\ s' = r.state /\ Failed
           \/ /\ IsReady(s, copy.dd) /\ r.handle # NONE
              /\ s' = r.state
              /\ copy' = [copy EXCEPT !.step = "source", !.dst = r.handle]
    /\ UNCHANGED present

\* Open the source again, without the checks; when that fails the
\* destination is closed and scratched (ccCloseDestOpenErr).
CopyOpenSource ==
    /\ copy.step = "source"
    /\ LET r == fileOpen(s, copy.sf, copy.sd, FALSE, TRUE)
       IN  \/ /\ r.handle = NONE
              /\ s' = fileDelete(fileClose(r.state, copy.dst), copy.df, copy.dd)
              /\ Failed
           \/ /\ r.handle # NONE
              /\ s' = r.state
              /\ copy' = [copy EXCEPT !.step = "transfer", !.src = r.handle]
    /\ UNCHANGED present

Alive(h) == s.chan[h] # 0

\* The faults a chunk can meet, as the states they leave.
AfterFault ==
    (IF Alive(copy.src) /\ Alive(copy.dst) THEN {} ELSE {s})
    \cup {[s EXCEPT !.latch[d] = "error"] :
             d \in IF MediaErrors THEN {copy.sd, copy.dd} \cap present ELSE {}}

\* The source handle not closed; the scratch sent to the source drive.
MutantLeaksSource ==
    /\ copy.step = "transfer"
    /\ \E t \in AfterFault :
          s' = fileDelete(fileClose(t, copy.dst), copy.df, copy.dd)
    /\ copy' = Idle
    /\ UNCHANGED present
MutantScratchesSource ==
    /\ copy.step = "transfer"
    /\ \E t \in AfterFault :
          s' = fileDelete(fileClose(fileClose(t, copy.src), copy.dst),
                          copy.df, copy.sd)
    /\ copy' = Idle
    /\ UNCHANGED present

\* A read or write fails: the channel is gone, or the medium is at fault and
\* the drive records it (ccTransferErr).
CopyTransferError ==
    /\ copy.step = "transfer"
    /\ \E t \in AfterFault :
          s' = fileDelete(fileClose(fileClose(t, copy.src), copy.dst),
                          copy.df, copy.dd)
    /\ copy' = Idle
    /\ UNCHANGED present

\* Every chunk is read and written (ccReadChunk, ccWriteChunk): close both, destination first, and read
\* the drive's verdict (ccDone, ccSyncDestination).
CopyDone ==
    /\ copy.step = "transfer"
    /\ Alive(copy.src) /\ Alive(copy.dst)
    /\ s' = readErrorChannel(fileClose(fileClose(s, copy.dst), copy.src),
                             copy.dd)
    /\ copy' = Idle
    /\ UNCHANGED present

Copying ==
    \/ CopyValidate
    \/ CopyOpenDest
    \/ CopyOpenSource
    \/ CopyTransferError
    \/ CopyDone

Next ==
    \/ \E f \in Files, d \in Devices, write \in BOOLEAN : Open(f, d, write)
    \/ \E h \in Handle : Close(h)
    \/ \E f \in Files, d \in Devices : Delete(f, d)
    \/ \E old, new \in Files, d \in Devices : Rename(old, new, d)
    \/ ReleaseL15
    \/ \E f \in Files, d \in Devices : RunByName(f, d)
    \/ \E d \in Devices : SwitchOff(d)
    \/ \E d \in Devices : SwitchOn(d)
    \/ \E sf, df \in Files, sd, dd \in Devices : CopyStart(sf, sd, df, dd)
    \/ Copying

Spec == Init /\ [][Next]_vars

-----------------------------------------------------------------------------
(* Properties *)

\* Handles, cached and open devices, and COPY's steps keep their ranges;
\* L15Device is a device or 0, never an error code (HandleTable, L15Device).
TypeOK ==
    /\ s \in [handle : [Handle -> BOOLEAN], L15Device : Devices \cup {0},
              lfn : [LFN -> Devices \cup {0}],
              chan : [Handle -> Devices \cup {0}],
              latch : [Devices -> {"ok", "error"}],
              disk : [Devices -> SUBSET Files]]
    /\ present \subseteq Devices
    /\ copy.step \in {"idle", "validate", "dest", "source", "transfer"}

\* HandleTable and the KERNAL's table agree after every call, error paths
\* included (fileOpen, fileClose): no logical file stays open behind a free
\* handle, where the next OPEN of that handle would fail, and no channel is
\* live without its logical file.
TablesAgree ==
    \A h \in Handle :
        /\ s.handle[h] <=> s.lfn[h] # 0
        /\ s.chan[h] # 0 => s.chan[h] = s.lfn[h]

\* L15Device names the device LFN 15 is really open on (ensureL15Open,
\* ahReleaseL15).  A stale cache would send a command to the wrong drive.
CacheCoherent == s.L15Device = s.lfn[CMD]

\* While COPY transfers, both of its streams are live, unless a drive was
\* switched off or refused to create the destination: the order of COPY's
\* opens and releases never cuts its own streams, even between two drives
\* that share the one LFN 15 (cmdCopy, ensureL15Open).
CopyStreamsLive ==
    copy.step = "transfer" /\ ~copy.cut
                           /\ copy.df \notin copy.before.disk[copy.dd] =>
        Alive(copy.src) /\ Alive(copy.dst)

EndsCopy == ~Resting /\ copy'.step = "idle"

\* However COPY ends, on any of its error exits, it has closed every handle it
\* opened and no other.
CopyLeaksNoHandle == [][EndsCopy => s'.handle = copy.before.handle]_vars

\* COPY changes no file but its destination, and when it ends without a
\* complaint the destination and the source are both there.
CopyTouchesOnlyDestination ==
    [][EndsCopy =>
        /\ \A d \in Devices : \A f \in Files \ {copy.df} :
               f \in s'.disk[d] <=> f \in copy.before.disk[d]
        /\ \A d \in Devices \ {copy.dd} : s'.disk[d] = copy.before.disk[d]
        /\ CopyDone => /\ copy.df \in s'.disk[copy.dd]
                       /\ copy.sf \in s'.disk[copy.sd]]_vars

\* A drive's error is not left for a later, unrelated call to trip over: when
\* a call to open a file to read, to delete or to rename one ends, the drive
\* it addressed has nothing latched (readErrorChannel and its callers).
CallsDrain ==
    [][\A d \in present :
          \/ \E f \in Files : Open(f, d, FALSE) \/ Delete(f, d)
          \/ \E old, new \in Files : Rename(old, new, d)
          => s'.latch[d] = "ok"]_vars

\* A call about a drive leaves the streams open on that drive alive, except
\* the one it closes: LFN 15 is kept open so that using it does not close
\* them (ensureL15Open).  Streams on another drive are not so lucky.
SameDriveSpares ==
    [][\A h \in Handle : Resting /\ s.chan[h] # 0 /\ s'.chan[h] = 0 =>
          \/ ReleaseL15
          \/ Close(h)
          \/ s.chan[h] \notin present'
          \/ s'.L15Device \notin {0, s.chan[h]}]_vars

\* When a transfer fails, COPY scratches the partial destination it made and
\* nothing else: unless a drive was switched off, the disk is afterwards what
\* it was before COPY (ccTransferErr).
CopyScratchesPartialOnly ==
    [][CopyTransferError /\ ~copy.cut =>
        s'.disk[copy.dd] = copy.before.disk[copy.dd]]_vars
=============================================================================
