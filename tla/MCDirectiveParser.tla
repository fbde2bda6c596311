------------------------- MODULE MCDirectiveParser --------------------------
(* A small instance of the directive parser.                               *)
EXTENDS DirectiveParser

MCUserMacros == {"A"}
MCReservedNames == {"GL_x"}
MCExtensionMacros == {"GL_EXT_e"}
MCValues == {7, 8}
MCShaderSpecs == {"ESSL", "WEBGL", "GL"}
MCVersions == {100, 200, 300}

\* Nested blocks are explored for one specification and version: which group of
\* a block is compiled does not depend on either.
NestedOnce ==
  Len(mConditionalStack) <= 1 \/ (shaderSpec = "WEBGL" /\ mShaderVersion = 100)
=============================================================================
