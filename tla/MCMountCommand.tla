---------------------------- MODULE MCMountCommand ----------------------------
(***************************************************************************)
(* An instance of MountCommand for TLC.                                    *)
(***************************************************************************)
EXTENDS MountCommand

\* The default mount options with an event log, and others without one.
MCConfigs ==
  {[DefaultConfig EXCEPT !.jsonl_path = {"events.jsonl"}],
   [DefaultConfig EXCEPT !.mount = [auto_unmount |-> FALSE, default_permissions |-> FALSE,
                                    read_only |-> TRUE, direct_io |-> TRUE]]}
=============================================================================
