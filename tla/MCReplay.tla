--------------------------- MODULE MCReplay ---------------------------
(* Instances of Replay for TLC.                                            *)
EXTENDS Replay

CONSTANTS i1, i2, anon, u, c1, c2

MCLifetimes == {0, 1}

\* A lone unknown identity, and an identity next to "anon".
MCAsLists == {<<>>, <<u>>, <<anon, i1>>}

Line(kind, m, p)  == [kind |-> kind, req |-> Shape(m, p)]
Entry(kind, p, h) == [kind |-> kind, req |-> [method |-> "GET", path |-> p, headers |-> h]]

File(ext, mentions, kind, items) ==
  [ext |-> ext, mentions |-> mentions, kind |-> kind, items |-> items]

MCFiles ==
  {File("txt", FALSE, "requests", <<Line("blank", "", 0), Line("request", "GET", 1),
                                    Line("request", BadMethod, 2)>>),
   File("txt", FALSE, "requests", <<Line("request", "GET", 1), Line("relative", "GET", 2)>>),
   File("txt", FALSE, "requests", <<Line("blank", "", 0)>>),
   File("har", FALSE, "har", <<Entry("blank", 0, {}),
                               Entry("request", 1, {":path", "Cookie", "X-Test"})>>),
   File("har", FALSE, "har", <<Entry("badURL", 1, {})>>),
   File("yaml", TRUE, "openapi", {<<1, "POST">>, <<1, "GET">>, <<1, "parameters">>}),
   File("txt", FALSE, "unreadable", <<>>)}

\* Every file of the instance has each request once.
ASSUME MCReplayAssumption == LoadsOnce

\* What nothing in the run reads again is not told apart.
ReplayView == <<now, session, stamps, flight, logins, call, control, run>>
=======================================================================
