----------------------------- MODULE MCStackOps -----------------------------
(* One deploy of every kind of request against two calls and a crash.      *)
EXTENDS StackOps

CONSTANTS d1, d2, c1, c2

Request(s, b) == [source |-> s, build |-> b, rendered |-> TRUE,
                  buildOnly |-> FALSE, creds |-> FALSE, reuse |-> FALSE]
WithCreds(r) == [r EXCEPT !.creds = TRUE]

OfStack == {Request("compose", "none"), WithCreds(Request("git", "compose")),
            [Request("upload", "compose") EXCEPT !.rendered = FALSE]}
OfContainer == {Request("image", "none"), Request("image", "compose"),
                WithCreds([Request("git", "auto") EXCEPT !.reuse = TRUE]),
                [Request("upload", "railpack") EXCEPT !.buildOnly = TRUE]}

OneDeploy == {d1}
TwoCalls == {c1, c2}
AllKinds == [o \in {d1, c1, c2} |->
    CASE o = d1 -> OfStack \cup OfContainer
      [] o = c1 -> {"stop", "destroyVolumes", "reroute", "rerouteEnv"}
      [] o = c2 -> {"destroy"}]
=============================================================================
