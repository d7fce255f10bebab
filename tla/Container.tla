------------------------------ MODULE Container ------------------------------
(***************************************************************************)
(* The container of docker-compose.yml: docker/init_models.py prepares the *)
(* models (ModelInit), drops a flag it cannot honour and execs the         *)
(* pipeline (StreamRun) with what is left of the command line.             *)
(***************************************************************************)
EXTENDS ModelInit, StreamRunProps

containerVars == <<initVars, runVars>>

\* parse_args of multi_stream.py, or of rtsp.py, which knows no fusion flag.
Parsed == {o \in Configs : o.mtmc = argv.mtmc /\ o.appearance = (argv.mtmc /\ keeps)}

\* os.execvp of the command line prepare_launch_args returned
Launch ==
  /\ step = "launch"
  /\ step' = "launched"
  /\ \E config \in Parsed : Prepare(config)
  /\ UNCHANGED <<disk, plugin, argv, keeps, starts>>

ContainerInit == ModelInitInit /\ RunInit /\ options = (CHOOSE o \in Configs : TRUE)

ContainerNext ==
  \/ (ModelInitNext \/ Restart) /\ UNCHANGED runVars
  \/ Launch
  \/ RunNext /\ UNCHANGED initVars

ContainerSpec == ContainerInit /\ [][ContainerNext]_containerVars /\ RunFairness

=============================================================================
