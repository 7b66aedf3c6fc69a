---------------------------- MODULE MCRenderTwins ----------------------------
EXTENDS RenderTwins

\* A page whose edge grows past its limit while it still has few pixels, a
\* sliver that is turned, one of many pixels, and one that is damaged.
MCPages == << [id |-> 1, size |-> [width |-> 10, height |-> 3000], rotation |-> 2],
              [id |-> 2, size |-> [width |-> 1, height |-> 842], rotation |-> 1],
              [id |-> 3, size |-> [width |-> 595, height |-> 842], rotation |-> 0],
              [id |-> 4, size |-> [width |-> 1, height |-> 1], rotation |-> 0] >>

MCAsk(document, page, revision, scale, rotation) ==
  [document |-> document, page |-> page, revision |-> revision,
   scale |-> scale, rotation |-> rotation]

\* For a document and a revision that are not the service's, less than a pixel
\* wide; an edge too long; too many pixels; a damaged page; a page nobody has.
MCRequest ==
  { MCAsk("foreign", 2, 1, 4100, 1), MCAsk("own", 1, 0, 14000, 0),
    MCAsk("own", 3, 0, 5100, 1), MCAsk("own", 4, 0, 5100, 0),
    MCAsk("own", 5, 0, 5100, 0) }
=============================================================================
