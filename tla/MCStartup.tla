----------------------------- MODULE MCStartup -----------------------------
(* Instances of Startup for TLC.                                           *)
EXTENDS Startup

NoTLS == [insecure |-> FALSE, ca |-> "", cert |-> "", key |-> ""]
Skip == [NoTLS EXCEPT !.insecure = TRUE]
BadCA == [NoTLS EXCEPT !.ca = "bad"]
CertOnly == [NoTLS EXCEPT !.cert = "good"]
Pair == [NoTLS EXCEPT !.cert = "good", !.key = "good"]

NoSecret == [inline |-> "", file |-> "", command |-> ""]

Form(n) == [name |-> n, type |-> "form", login |-> "https", token |-> "", steps |-> <<>>,
            tls |-> {}, secret |-> [NoSecret EXCEPT !.inline = "pw"], csrf |-> "none"]

OAuth == [Form("b") EXCEPT !.type = "oauth", !.login = "", !.token = "https"]
Multi == [Form("b") EXCEPT !.type = "multistep", !.login = "", !.steps = <<"https", "tmpl">>]

\* Each identity that differs from a plain one in one respect.
Varied ==
  {[Form("b") EXCEPT !.name = n] : n \in {"", "anon", "a"}}
    \cup {[Form("b") EXCEPT !.login = u] : u \in {"http", "bad", ""}}
    \cup {[Form("b") EXCEPT !.type = y] : y \in {"browser", "ntlm"}}
    \cup {[OAuth EXCEPT !.token = u] : u \in {"https", "http", "bad", ""}}
    \cup {[Multi EXCEPT !.steps = q] :
            q \in {<<>>, <<"https", "tmpl">>, <<"https", "http-tmpl">>, <<"https", "bad">>,
                   <<"https", "http">>}}
    \cup {[Form("b") EXCEPT !.tls = {p}] : p \in {NoTLS, Skip, BadCA, CertOnly, Pair}}
    \cup {[Form("b") EXCEPT !.csrf = x] : x \in {"good", "incomplete", "pattern"}}
    \cup {[Form("b") EXCEPT !.secret = s] :
            s \in {NoSecret, [NoSecret EXCEPT !.inline = "error"],
                   [NoSecret EXCEPT !.file = "error"], [NoSecret EXCEPT !.command = "error"],
                   [NoSecret EXCEPT !.inline = "pw", !.command = "error"]}}

File(tls, ids) == [target |-> "good", tls |-> tls, ids |-> ids]

\* Alone and behind a plain identity, under a secure and an insecure policy.
MCFiles ==
  {File(p, <<id>>) : p \in {NoTLS, Skip}, id \in Varied}
    \cup {File(NoTLS, <<Form("a"), id>>) : id \in Varied}
    \cup {File(p, <<Form("a")>>) : p \in {BadCA, CertOnly}}
    \cup {File(BadCA, <<[Form("a") EXCEPT !.tls = {Pair}]>>), File(NoTLS, <<>>),
          [File(NoTLS, <<Form("a")>>) EXCEPT !.target = "bad"]}

MCFlagSets ==
  {<<>>, [insecure |-> TRUE], [insecure |-> FALSE], [ca |-> "good"], [cert |-> "good"],
   [cert |-> "good", key |-> "good"]}
===========================================================================
