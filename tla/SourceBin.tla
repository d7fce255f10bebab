------------------------------ MODULE SourceBin ------------------------------
(***************************************************************************)
(* pipelines/multi_stream.py: the source bins and their pad callbacks.  A  *)
(* file bin links its demuxer once; an RTSP bin follows rtspsrc through    *)
(* disconnects, and StreamReconnectDetector decides which link is a        *)
(* reconnect.  GStreamer unlinks a pad before it signals its removal.      *)
(***************************************************************************)
EXTENDS MtmcSetup

CONSTANTS
  PadName,   \* names of the pads an rtspsrc or qtdemux may add
  NoPad      \* no pad: nothing linked, active_pad_name is None

ASSUME PadAssumption == NoPad \notin PadName

VARIABLES
  pads,          \* the pads each source has at the moment
  linked,        \* the pad linked to the depayloader (or parser)
  activePad,     \* active_pad_name
  hasConnected,  \* StreamReconnectDetector._has_connected, as a set
  disconnected   \* StreamReconnectDetector._disconnected, as a set

binVars == <<pads, linked, activePad, hasConnected, disconnected>>

BinInit ==
  /\ pads = [s \in Source |-> {}]
  /\ linked = [s \in Source |-> NoPad]
  /\ activePad = [s \in Source |-> NoPad]
  /\ hasConnected = {}
  /\ disconnected = {}

PadAppears(s, p) ==
  /\ p \notin pads[s]
  /\ pads' = [pads EXCEPT ![s] = @ \cup {p}]

\* _on_pad_added returns early or the link fails: the sink pad is linked
\* already, the pad carries no video, or link() does not return OK.
PadIgnored(s, p) ==
  /\ PadAppears(s, p)
  /\ UNCHANGED <<linked, activePad, hasConnected, disconnected>>

\* The file bin's _on_pad_added links the pad and keeps no record of it.
FilePadLinked(s, p) ==
  /\ linked[s] = NoPad
  /\ PadAppears(s, p)
  /\ linked' = [linked EXCEPT ![s] = p]
  /\ UNCHANGED <<activePad, hasConnected, disconnected>>

\* What StreamReconnectDetector.connected() is about to return.
IsReconnect(s) == s \in hasConnected /\ s \in disconnected

\* The RTSP bin's _on_pad_added, after link() returned OK.
PadLinked(s, p) ==
  /\ linked[s] = NoPad
  /\ PadAppears(s, p)
  /\ linked' = [linked EXCEPT ![s] = p]
  /\ activePad' = [activePad EXCEPT ![s] = p]
  /\ hasConnected' = hasConnected \cup {s}
  /\ disconnected' = disconnected \ {s}

\* Mutant: asks whether the pad is still linked, which it no longer is.
PadRemovedByLink(s, p) ==
  /\ p \in pads[s]
  /\ pads' = [pads EXCEPT ![s] = @ \ {p}]
  /\ linked' = [linked EXCEPT ![s] = IF @ = p THEN NoPad ELSE @]
  /\ UNCHANGED <<activePad, hasConnected, disconnected>>

\* _on_pad_removed.
PadRemoved(s, p) ==
  /\ p \in pads[s]
  /\ pads' = [pads EXCEPT ![s] = @ \ {p}]
  /\ linked' = [linked EXCEPT ![s] = IF @ = p THEN NoPad ELSE @]
  /\ IF activePad[s] = p
       THEN /\ activePad' = [activePad EXCEPT ![s] = NoPad]
            /\ disconnected' = disconnected \cup ({s} \cap hasConnected)
       ELSE UNCHANGED <<activePad, disconnected>>
  /\ UNCHANGED hasConnected

=============================================================================
