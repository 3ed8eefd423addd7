------------------------------- MODULE Filter -------------------------------
(***************************************************************************)
(* Which destinations connect_pre_handle leaves alone (main.c), as sets:   *)
(* what the tracer's model uses.  IpFilter shows that this is what the     *)
(* option loop, the address files and the hash sets come to.               *)
(***************************************************************************)

CONSTANTS
  LOCAL_ADDR,     \* -a, as written on the command line
  BlackFile,      \* the IPs of the -b files, or NULL
  WhiteFile,      \* the IPs of the -w files, or NULL
  IgnoreLocal,    \* FALSE with -n
  NULL

LOCAL_DEFAULT_ADDR == "0.0.0.0"

\* main() adds LOCAL_ADDR as it was written, not as it was resolved
BLACKLIST_IP ==
  IF IgnoreLocal
  THEN (IF BlackFile = NULL THEN {} ELSE BlackFile)
         \cup {LOCAL_ADDR, LOCAL_DEFAULT_ADDR}
  ELSE BlackFile
WHITELACKLIST_IP == WhiteFile

is_ignore(ip) ==
  \/ BLACKLIST_IP # NULL /\ ip \in BLACKLIST_IP
  \/ WHITELACKLIST_IP # NULL /\ ip \notin WHITELACKLIST_IP

=============================================================================
