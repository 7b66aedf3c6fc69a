------------------------------ MODULE MCPdfSave ------------------------------
EXTENDS PdfSave

\* What names the pages of an opened file beside its page tree: objects named by
\* the catalog, by each page's links, and the pages that share a /Pages node.
Linked(named, links, kin) ==
  [named |-> named,
   links |-> [o \in FileObjects |-> {e[2] : e \in {e \in links : e[1] = o}}],
   kin |-> [o \in FileObjects |-> IF o \in kin THEN kin \ {o} ELSE {}]]

\* These links in a file with these keys.
Shaped(keys, root, linked) ==
  [own |-> [o \in FileObjects |-> keys[o][1]], node |-> [o \in FileObjects |-> keys[o][2]],
   root |-> root, named |-> linked.named, links |-> linked.links, kin |-> linked.kin]

\* Every way to state or inherit a rotation, where only the page tree names pages.
MCKeyed ==
  {Shaped(keys, root, Linked({}, {}, {})) : keys \in [FileObjects -> Key \X Key], root \in Key}

\* Pages that name each other, or one the other; a page that the catalog names; and
\* pages below one node, through which the one that is named leads to the other.
\* They inherit a rotation from their nodes.
MCLinked ==
  {Shaped([o \in FileObjects |-> <<Absent, 1>>], Absent, linked) :
     linked \in {Linked({}, {<<1, 2>>, <<2, 1>>}, {}),
                 Linked({}, {<<1, 2>>}, {}),
                 Linked({2}, {<<2, 1>>}, {}),
                 Linked({2}, {}, {1, 2})}}

MCShapes == MCKeyed \cup MCLinked

\* Imported pages with any key; one has kept a link to a page numbered 2 in its own
\* file.
MCImports ==
  {[own |-> key, links |-> {}] : key \in Key} \cup {[own |-> Absent, links |-> {2}]}
=============================================================================
