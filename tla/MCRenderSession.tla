-------------------------- MODULE MCRenderSession --------------------------
EXTENDS RenderSession
=============================================================================
