-------------------------- MODULE MCSecurityUpdate --------------------------
(* Two releases for the same update, the assets of the second do not verify. *)
EXTENDS SecurityUpdate

CONSTANTS e1, e2, v1, v2

MCNames == Assets \cup {"requirements", "receipt", "base", "evidence",
                        "checksums", "bundle", "installed"}
MCAffected == [e \in {e1, e2} |-> v1]
MCFixed == [e \in {e1, e2} |-> v2]
=============================================================================
