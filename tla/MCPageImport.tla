---------------------------- MODULE MCPageImport ----------------------------
(***************************************************************************)
(* Source graphs of six objects: the root and a node between it and the    *)
(* two pages (which may be its own parent), and two objects the pages      *)
(* share, one of which may be a mere reference. Number 9 is missing, so an  *)
(* attribute may lead nowhere, or to a page tree.                          *)
(***************************************************************************)
EXTENDS PageImport, TLC

MCDegrees == "-90" :> -90 @@ "450" :> 450 @@ "45" :> 45

MCNodes ==
  {[p \in {1, 2} |-> IF p = 1 THEN Dict("Pages", above[1]) ELSE Dict("Pages", above[2])] :
     above \in {<< <<>>, [Parent |-> Ref(2), Resources |-> Ref(5)] >>,
               << [Rotate |-> Atom("-90")], [Parent |-> Ref(1)] >>,
               << [MediaBox |-> Ref(6), Rotate |-> Atom("45")], [Parent |-> Ref(1), Resources |-> Ref(6)] >>,
               << [Rotate |-> Atom("-90")], [Parent |-> Ref(1), Rotate |-> Atom("450")] >>}}

MCPage(own) == Dict("Page", [k \in {"Parent"} \cup DOMAIN own |-> IF k = "Parent" THEN Ref(2) ELSE own[k]])

MCFirst ==
  {MCPage(own) : own \in {<<>>, [Link |-> Ref(4), Contents |-> Ref(9)],
                          [Resources |-> Ref(5), MediaBox |-> Atom("A4")],
                          [MediaBox |-> Ref(6), Annot |-> Ref(5)],
                          [MediaBox |-> Ref(9), Rotate |-> Atom("450")],
                          [MediaBox |-> Ref(4), Resources |-> Ref(2)]}}
MCSecond == {MCPage([Contents |-> Ref(6), Link |-> Ref(3)])}

MCFifth ==
  {Dict("", [Page |-> Ref(e[1]), Next |-> Ref(e[2]), Parent |-> Ref(e[3])]) :
     e \in {<<3, 6, 1>>, <<4, 5, 6>>, <<9, 6, 6>>}}
MCSixth == {Ref(5), Ref(6), Ref(9), Atom("A4"), Dict("", [Next |-> Ref(5)])}

MCSources ==
  {[o \in 1..6 |-> CASE o \in {1, 2} -> nodes[o] [] o = 3 -> first [] o = 4 -> second
                     [] o = 5 -> fifth [] o = 6 -> sixth] :
     nodes \in MCNodes, first \in MCFirst, second \in MCSecond, fifth \in MCFifth, sixth \in MCSixth}

MCTarget ==
  1 :> Dict("Pages", [Rotate |-> Atom("-90"), MediaBox |-> Atom("A5")])
  @@ 4 :> Dict("Page", [Parent |-> Ref(1), Contents |-> Ref(5)]) @@ 5 :> Atom("drawing")
=============================================================================
