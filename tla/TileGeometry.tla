---------------------------- MODULE TileGeometry ----------------------------
(***************************************************************************)
(* How a request becomes a tile, in the two renderers: the fake one the    *)
(* interface is developed against (opdf-core/src/fakes/                    *)
(* fake_render_service.rs) and the one that drives Pdfium                  *)
(* (opdf-render/src/geometry.rs and raster.rs).                            *)
(*                                                                         *)
(* Sizes are in points; a scale is a fixed-point number, Unit standing for *)
(* 1.0. The products are exact: the fake multiplies in single precision    *)
(* and the real renderer in double, which this module does not tell apart. *)
(***************************************************************************)
EXTENDS Integers, Sequences

CONSTANTS
  Unit,           \* the scale 1.0, 72 dpi
  MaxTileEdge,    \* MAX_TILE_EDGE, 32768 in the code
  MaxTilePixels   \* MAX_TILE_PIXELS, 64 * 2^20 in both renderers

ASSUME TileGeometryAssumption ==
  Unit \in Nat \ {0} /\ MaxTileEdge \in Nat \ {0} /\ MaxTilePixels \in Nat \ {0}

\* Rotations are quarter turns clockwise.
RotatedBy(rotation, other) == (rotation + other) % 4
SwapsAxes(rotation) == rotation \in {1, 3}

DisplaySize(size, rotation) ==
  IF SwapsAxes(rotation) THEN [width |-> size.height, height |-> size.width] ELSE size

Ready(width, height, turned) ==
  [kind |-> "ready", width |-> width, height |-> height, turned |-> turned]
Failed(reason) == [kind |-> "failed", reason |-> reason]

\* Rounded to nearest, and never zero.
Pixels(points, scale) ==
  LET nearest == (2 * points * scale + Unit) \div (2 * Unit)
  IN  IF nearest < 1 THEN 1 ELSE nearest

\* render_flat_tile, for a page of this size and rotation.
RenderFlatTile(page, request) ==
  LET turned == RotatedBy(page.rotation, request.rotation)
      display == DisplaySize(page.size, turned)
      width == Pixels(display.width, request.scale)
      height == Pixels(display.height, request.scale)
  IN  IF width * height > MaxTilePixels
      THEN Failed("too many pixels")
      ELSE Ready(width, height, turned)

\* compute_tile_geometry: each edge is bounded as well.
ComputeTileGeometry(page, request) ==
  LET turned == RotatedBy(page.rotation, request.rotation)
      display == DisplaySize(page.size, turned)
      width == Pixels(display.width, request.scale)
      height == Pixels(display.height, request.scale)
  IN  IF width > MaxTileEdge \/ height > MaxTileEdge THEN Failed("edge too long")
      ELSE IF width * height > MaxTilePixels THEN Failed("too many pixels")
      ELSE Ready(width, height, turned)

\* Faulty variant: the whole rotation is applied to a page Pdfium already turns.
ResidualRotationWhole(total, fileRotation) == total

\* What is left to turn once Pdfium has applied the file's own rotation.
ResidualRotation(total, fileRotation) == (total - fileRotation) % 4

\* rasterize_page: Pdfium turns the page as the file says, and then by the rest.
RasterizePage(geometry, fileRotation) ==
  IF geometry.kind = "failed"
  THEN geometry
  ELSE Ready(geometry.width, geometry.height,
             RotatedBy(fileRotation, ResidualRotation(geometry.turned, fileRotation)))
=============================================================================
