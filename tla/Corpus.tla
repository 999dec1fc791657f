------------------------------- MODULE Corpus -------------------------------
(***************************************************************************)
(* Loading a request corpus (internal/corpus): which requests a requests   *)
(* file, a HAR export or an OpenAPI document stands for, in which order,   *)
(* and when loading fails as a whole.                                      *)
(*                                                                         *)
(* A file is [ext, mentions, kind, items]: its extension, whether its text *)
(* names "openapi" or "swagger", what it really is, and its parsed items.  *)
(* Paths are numbers in alphabetical order; bodies go with the path.       *)
(***************************************************************************)
EXTENDS Integers, SequencesExt

CONSTANT BadMethod   \* a method net/http refuses to build a request with

\* The methods in alphabetical order, as the OpenAPI loader sorts them.
Alphabetical == <<"DELETE", "GET", "HEAD", "OPTIONS", "PATCH", "POST", "PUT">>

SafeMethods   == {"GET", "HEAD", "OPTIONS"}
UnsafeMethods == {"POST", "PUT", "PATCH", "DELETE"}

Failed       == [ok |-> FALSE, reqs |-> <<>>]
Loaded(reqs) == [ok |-> TRUE, reqs |-> reqs]

Request(m, p, headers) == [method |-> m, path |-> p, headers |-> headers]

Shape(m, p) == Request(m, p, {})

-----------------------------------------------------------------------------
(* A requests file: lines [kind, req].                                     *)

\* Blank lines and comments are skipped; one malformed line, or a path without
\* its slash, fails the file.
LoadRequests(lines) ==
  LET asked == SelectSeq(lines, LAMBDA l : l.kind = "request")
  IN  IF \E k \in DOMAIN lines : lines[k].kind \in {"malformed", "relative"}
        THEN Failed
        ELSE Loaded([k \in DOMAIN asked |-> Shape(asked[k].req.method, asked[k].req.path)])

-----------------------------------------------------------------------------
(* A HAR export: entries [kind, req], with the captured headers.           *)

PseudoHeaders   == {":authority", ":path"}
IdentityHeaders == {"Cookie", "Authorization", "Proxy-Authorization", "X-CSRF-Token"}

KeepCaptured(headers) == headers \ PseudoHeaders

KeepHeaders(headers) == headers \ (PseudoHeaders \cup IdentityHeaders)

\* An entry without a method or a URL is skipped, an unparsable URL fails the file.
LoadHAR(entries) ==
  LET captured == SelectSeq(entries, LAMBDA e : e.kind # "blank")
  IN  IF \E k \in DOMAIN captured : captured[k].kind = "badURL"
        THEN Failed
        ELSE Loaded([k \in DOMAIN captured |->
                       LET req == captured[k].req
                       IN  Request(req.method, req.path, KeepHeaders(req.headers))])

-----------------------------------------------------------------------------
(* An OpenAPI document: a set of operations <<path, method>>.              *)

Rank(m) == CHOOSE k \in DOMAIN Alphabetical : Alphabetical[k] = m

Earlier(a, b) == a[1] < b[1] \/ (a[1] = b[1] /\ Rank(a[2]) < Rank(b[2]))

Replayed(unsafe) == SafeMethods \cup (IF unsafe THEN UnsafeMethods ELSE {})

\* Map iteration is random, the sorted result is not.  Keys that are no method
\* ("parameters", "summary") are left out.
LoadOpenAPI(ops, unsafe) ==
  LET sorted == SetToSortSeq({o \in ops : o[2] \in Replayed(unsafe)}, Earlier)
  IN  Loaded([k \in DOMAIN sorted |-> Shape(sorted[k][2], sorted[k][1])])

-----------------------------------------------------------------------------
Formats == {"requests", "har", "openapi"}

DetectFormat(f) ==
  CASE f.ext = "har"                                    -> "har"
    [] f.ext \in {"yaml", "yml", "json"} /\ f.mentions  -> "openapi"
    [] OTHER                                            -> "requests"

\* A file that is not what its format says does not parse, or yields no request;
\* replay refuses both, so they are not told apart.
LoadOptions(f, format, unsafe) ==
  LET as == IF format = "" THEN DetectFormat(f) ELSE format
  IN  IF f.kind # as
        THEN Failed
        ELSE CASE as = "requests" -> LoadRequests(f.items)
               [] as = "har"      -> LoadHAR(f.items)
               [] as = "openapi"  -> LoadOpenAPI(f.items, unsafe)
               [] OTHER           -> Failed
=============================================================================
