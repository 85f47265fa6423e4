--------------------------- MODULE MCHostLifetime ---------------------------
(* HostLifetime with two calls that may each ask for anything: an import, a  *)
(* wait, an export, a method the host does not know, a message of another    *)
(* protocol and one whose payload does not parse.                            *)
EXTENDS HostLifetime

CONSTANTS c1, c2

MCRequests ==
    {[method |-> m, shape |-> "valid"] : m \in {"StartImport", "ExportBook", "Newer"}}
    \union {[method |-> "WaitImportJob", shape |-> s] : s \in {"foreign", "truncatedPayload"}}

=============================================================================
