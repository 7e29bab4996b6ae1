------------------------ MODULE MCContentHandshake ------------------------
(* Instances of ContentHandshake for TLC. *)
EXTENDS ContentHandshake, TLC

MCBlobs     == [key : Keys, version : 1 .. MaxUploads]
MCPubs      == [client : Clients, run : 1 .. MaxRuns]
MCResponses == [to : MCPubs, k : MCBlobs]

Symmetry == Permutations(Keys)

CONSTANT ENTRY_BYTES    \* all wire keys equally long
MCEntrySize(w) == ENTRY_BYTES
=============================================================================
