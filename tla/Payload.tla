------------------------------ MODULE Payload ------------------------------
(***************************************************************************)
(* The link-state packet in the shapes other implementations may give it,  *)
(* and as DecodeLSPFlexible (internal/protocol/payload.go) reads it.  A    *)
(* JSON value is a record with one field that says of what kind it is      *)
(* ("object", "list", "text"), and a JSON object with known keys a record. *)
(***************************************************************************)
EXTENDS Integers

CONSTANT NoId  \* the empty string, left by a field that is missing

Get(object, field, default) ==
  IF field \in DOMAIN object THEN object[field] ELSE default

Unwrap(payload) == Get(payload, "text", payload)

AllHaveId(list) == \A e \in list : Get(e, "id", NoId) # NoId

\* The entries of a list, whose two fields have the given names.
ReadList(list, id, cost) ==
  [a \in {Get(e, id, NoId) : e \in list} |->
     Get(CHOOSE e \in list : Get(e, id, NoId) = a, cost, 0)]

DecodeNeighbors(raw) ==
  IF "object" \in DOMAIN raw THEN raw.object
  ELSE IF AllHaveId(raw.list) THEN ReadList(raw.list, "id", "weight")
  ELSE ReadList(raw.list, "node", "cost")

\* The addresses of the origin and of its neighbours, these with their costs.
DecodeLSPFlexible(payload) ==
  LET lsp == Unwrap(payload)
      raw == Get(lsp, "neighbors", Get(lsp, "links", [object |-> <<>>]))
  IN  [origin |-> Get(lsp, "origin", NoId), neighbors |-> DecodeNeighbors(raw)]

-----------------------------------------------------------------------------
(* What a receiver is asked to accept: the origin and its neighbours'      *)
(* costs, written in any of these ways.                                    *)

Shape == [list : {"dict", "id", "node"}, key : {"neighbors", "links"}, quoted : BOOLEAN]

EncodeLSP(shape, origin, costs) ==
  LET raw == CASE shape.list = "dict" -> [object |-> costs]
               [] shape.list = "id"   ->
                    [list |-> {[id |-> a, weight |-> costs[a]] : a \in DOMAIN costs}]
               [] shape.list = "node" ->
                    [list |-> {[node |-> a, cost |-> costs[a]] : a \in DOMAIN costs}]
      lsp == IF shape.key = "links" THEN [origin |-> origin, links |-> raw]
                                    ELSE [origin |-> origin, neighbors |-> raw]
  IN  IF shape.quoted THEN [text |-> lsp] ELSE lsp
=============================================================================
