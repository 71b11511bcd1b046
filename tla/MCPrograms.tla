----------------------------- MODULE MCPrograms -----------------------------
(***************************************************************************)
(* The smaller programs and the steps that all programs share, for TLC:    *)
(* every behaviour is one of a recorder, a rename, the command line client *)
(* with two signals, the graphical client, a device discovery, the life of *)
(* what a program owns, or a resampler's queue.  The other components rest *)
(* in a state in which they stay.                                          *)
(***************************************************************************)
EXTENDS Recorder, Rename, Lifecycle, Cli, Gui, Discovery,
        H2OQueue

CONSTANTS SIGINT, SIGTERM, Heat, Takt, Default, Custom

MCSignals     == {SIGINT, SIGTERM}
MCPids        == {Heat, Takt}
MCShipped     == << [pid |-> Heat, kind |-> "good"] >>
MCPreferences == {Default, Custom}
MCRatios      == {1, 3, 4}
MCBufSizes    == {7, 11}

VARIABLE prog  \* the component that runs

renamevars == <<rnpc, ctl>>
progvars   == <<prog, allvars, renamevars, lvars, clivars, gvars, dvars,
                qvars>>

Programs ==
  {"record", "rename", "cli", "gui", "discovery", "lifecycle", "queue"}

At(p, begin, end) == IF prog = p THEN begin ELSE end

ProgramsInit ==
  /\ prog \in Programs
  /\ RecorderInit
  /\ RenameAt(At("rename", "start", "off"))
  /\ prog \notin {"record", "rename"} => ~reading_at_h2o_end
  /\ LifecycleAt(At("lifecycle", "engine", "end"))
  /\ prog # "lifecycle" => who = "play"
  /\ CliAt(At("cli", "find", "exited"))
  /\ GuiAt(At("gui", "startup", "exited"))
  /\ prog # "gui" =>
       /\ {connection, cols_file, service} = {FALSE}
       /\ {prefs_file, loaded} = {Default}
       /\ plugged = 0
  /\ DiscoveryInit
  /\ prog # "discovery" =>
       bus = <<>> /\ places["dir"] = <<>> /\ places["user"] = <<>>
  /\ QueueInit
  /\ prog # "queue" =>
       /\ \A b \in BufSizes : bufsize <= b
       /\ \A r \in Ratios : ratio <= r

ProgramsNext ==
  \/ /\ prog = "record"
     /\ RecorderNext
     /\ UNCHANGED <<prog, renamevars, lvars, clivars, gvars, dvars, qvars>>
  \/ /\ prog = "rename"
     /\ RenameNext
     /\ UNCHANGED <<prog, rvars, lvars, clivars, gvars, dvars, qvars>>
  \/ /\ prog = "lifecycle"
     /\ LifecycleNext
     /\ UNCHANGED <<prog, allvars, renamevars, clivars, gvars, dvars, qvars>>
  \/ /\ prog = "cli"
     /\ CliNext
     /\ UNCHANGED <<prog, allvars, renamevars, lvars, gvars, dvars, qvars>>
  \/ /\ prog = "gui"
     /\ GuiNext
     /\ UNCHANGED <<prog, allvars, renamevars, lvars, clivars, dvars, qvars>>
  \/ /\ prog = "discovery"
     /\ DiscoveryNext
     /\ UNCHANGED <<prog, allvars, renamevars, lvars, clivars, gvars, qvars>>
  \/ /\ prog = "queue"
     /\ QueueNext
     /\ UNCHANGED <<prog, allvars, renamevars, lvars, clivars, gvars, dvars>>

ProgramsSpec ==
  /\ ProgramsInit
  /\ [][ProgramsNext]_progvars
  /\ RenameFairness
  /\ CliFairness
  /\ GuiFairness

(* Every variable of every component has its type. *)
ProgramsTypeOK ==
  /\ prog \in Programs
  /\ RecorderTypeOK
  /\ RenameTypeOK
  /\ LifecycleTypeOK
  /\ CliTypeOK
  /\ GuiTypeOK
  /\ DiscoveryTypeOK
  /\ QueueTypeOK

=============================================================================
