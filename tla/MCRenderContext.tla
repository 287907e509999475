--------------------------- MODULE MCRenderContext ---------------------------
(***************************************************************************)
(* Instance for TLC: a page that holds the mutex, a page that is streamed, *)
(* and a server action or an API route; or two that are streamed.          *)
(***************************************************************************)
EXTENDS RenderContext

CONSTANTS page, stream, otherStream, action, route
=============================================================================
