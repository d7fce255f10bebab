------------------------------ MODULE MtmcSetup ------------------------------
(***************************************************************************)
(* What pipelines/multi_stream.py checks before it builds an MTMC          *)
(* pipeline: prepare_mtmc and load_homography_bindings, on the options     *)
(* that decide its shape.                                                  *)
(***************************************************************************)
EXTENDS Naturals, FiniteSets

CONSTANT Source   \* range(len(config.uris))

\* --mtmc requires at least two sources.
ASSUME SourceAssumption == IsFiniteSet(Source) /\ Cardinality(Source) >= 2

\* _is_file_uri of each --uri: --mtmc cannot mix file and RTSP clocks, so one
\* word describes an accepted command line.
Clock == {"file", "rtsp"}
ClockOf(uris) == CHOOSE c \in Clock : \A s \in Source : uris[s] = c
Prepared(uris) == \E c \in Clock : \A s \in Source : uris[s] = c

\* load_homography_bindings returns; otherwise it raises ValueError.  A binding
\* is what the checks of it look at: the source it is bound to, the source its
\* file declares, its image size against the mux, and whether its matrix is
\* finite and of rank 3.
Bound(bindings) ==
  /\ \A i \in DOMAIN bindings :
       /\ bindings[i].bound \in Source
       /\ bindings[i].declared = bindings[i].bound
       /\ bindings[i].sized /\ bindings[i].sound
  /\ \A i, j \in DOMAIN bindings : bindings[i].bound = bindings[j].bound => i = j
  /\ Source \subseteq {bindings[i].bound : i \in DOMAIN bindings}

=============================================================================
