---------------------------- MODULE MCDeployment ----------------------------
(* A small instance of the two deployment pipelines: an edge of the current *)
(* version, and a vertex, an edge and a document of an older one.          *)
EXTENDS Deployment
CONSTANTS v1, v2, gone
MCVertices == {v1, v2, gone}
MCEdges == {<<v1, v2>>, <<v1, gone>>}
MCCurrent == {v1, v2}

\* Types that share a property's name, two edges of one relationship, one label between
\* several pairs of types.
Node(label, props) == [label |-> label, key |-> "Id", props |-> props]
Link(label, a, b) ==
  [label |-> label, source |-> a, from |-> "Id", target |-> b, to |-> "Id"]
MCSchemas ==
  {[vertices |-> <<Node("Router", <<"Id", "Name">>), Node("Site", <<"Name", "Id">>)>>,
    edges |-> <<Link("at", "Router", "Site"), Link("joins", "Router", "Router"),
                Link("at", "Router", "Site")>>],
   [vertices |-> <<Node("Site", <<"Id">>), Node("Router", <<"Name", "Id">>)>>,
    edges |-> <<Link("at", "Router", "Site"), Link("at", "Site", "Site")>>]}
=============================================================================
