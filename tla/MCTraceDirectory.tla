-------------------------- MODULE MCTraceDirectory --------------------------
(* TraceDirectory for TLC. *)
EXTENDS TraceDirectory, TLC

\* A device and a file opened twice; a directory.
Lists == {<<"/dev/dri", "lib", "lib">>, <<"dir">>}

\* The configuration before and after what it promises.
Orders == {<<"replay_config.json", "env", "pack", "copy", "buffers",
             "files_config.json", "replay_file_map.json">>,
           <<"replay_file_map.json", "pack", "copy", "files_config.json",
             "buffers", "env", "replay_config.json">>}

ProcSymmetry == Permutations(Procs)
=============================================================================
