------------------------------ MODULE MCArchive ------------------------------
(***************************************************************************)
(* The two archived engines, side by side: blast_controller.c with its     *)
(* firer and its listener (BlastController), and epoll_burst.c             *)
(* (EpollBurst).  They are separate programs with a socket each and share  *)
(* nothing: in a behaviour one of them runs and the other is not started.  *)
(***************************************************************************)
EXTENDS BlastController, EpollBurst

ArchiveInit == Init /\ EngineInit

BlastRuns  == mpc = "load" /\ Next /\ UNCHANGED engineVars
EngineRuns == pc = "fire" /\ owner = "none" /\ clock = 1 /\ heard = <<>> /\ EngineNext /\ UNCHANGED vars

ArchiveNext == BlastRuns \/ EngineRuns

ArchiveSpec == ArchiveInit /\ [][ArchiveNext]_<<vars, engineVars>>
=============================================================================
