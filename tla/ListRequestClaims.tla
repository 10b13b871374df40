-------------------------- MODULE ListRequestClaims --------------------------
(***************************************************************************)
(* What a comment of broker/request.go says and its code does not do.      *)
(***************************************************************************)
EXTENDS MCListRequest

\* request.go:58-60: "the function intentionally blocks in a loop until success
\* [...] infinite retry is preferable to returning an error at startup".
RetriesUntilSuccess == \A c \in Caller : pc[c] # "failed"
==============================================================================
