------------------------------ MODULE Capture ------------------------------
(***************************************************************************)
(* The sidecar (capture_once of src/passive_capture.rs): its windows and   *)
(* reports, whose exchanges are messages found in packets (analyze_pcap).  *)
(***************************************************************************)
EXTENDS PassiveCapture, Reassembly

\* The messages that a report is made of are those that were sent, whatever the packets.
\* This depends on no state but the constants, and is stated of the initial one
\* (reassemble, parse_http_messages).
MessagesFound == Init => WholeMessages
=============================================================================
