---------------------------- MODULE WireFormats ----------------------------
(***************************************************************************)
(* What the closed objects of the wire look like.  crates/protocol derives *)
(* the encoder of each type from its declaration but writes its decoder by *)
(* hand, so that the fields may come in any order: every type is described *)
(* twice, by what an encoder writes (`sends') and by what the decoder's    *)
(* visitor knows, needs, keeps and bars (`arms').  WireDecoder plays one   *)
(* against the other.                                                      *)
(*                                                                         *)
(* A field's value is its kind: "good" for a value of the field's type, or *)
(* a name where the decoder tells values of that type apart.               *)
(***************************************************************************)
EXTENDS Naturals, FiniteSets

NoTag == ""

\* What f says, and what g says where f says nothing.
Merge(f, g) == [x \in DOMAIN f \union DOMAIN g |-> IF x \in DOMAIN f THEN f[x] ELSE g[x]]

\* One variant as its encoder writes it: always, and only when present.
Sends(must, may) == [must |-> must, may |-> may, kinds |-> <<>>]

\* A variant some of whose fields have kinds of their own.
SendsKinds(must, may, kinds) == [must |-> must, may |-> may, kinds |-> kinds]

\* One arm of a visitor: fields that must have been read, fields that may, and
\* fields whose presence is an error.
Arm(needs, keeps, bars) == [needs |-> needs, keeps |-> keeps, bars |-> bars]

\* An object with a tag whose fields are decoded as they are read, or `late',
\* when the tag is known.  `nullable' fields may be null, `defaults' may be left
\* out by others although the encoder writes them.
Object(tag, sends, arms, nullable, late, defaults) ==
    [tag |-> tag, single |-> FALSE, sends |-> sends, arms |-> arms,
     nullable |-> nullable, late |-> late, defaults |-> defaults]

Tagged(tag, sends, arms) == Object(tag, sends, arms, {}, {}, {})

\* A tag and one payload whose type the tag decides.
Adjacent(tag, content, payloads) ==
    Object(tag,
           [t \in DOMAIN payloads |-> SendsKinds({content}, {}, [f \in {content} |-> payloads[t]])],
           [t \in DOMAIN payloads |-> Arm({content}, {}, {})],
           {}, {content}, {})

\* Exactly one of several fields, which is the variant.
ExactlyOne(names) ==
    [Tagged(NoTag, [f \in names |-> Sends({f}, {})], <<>>) EXCEPT !.single = TRUE]

-----------------------------------------------------------------------------
(* Messages between a plugin and the broker.  Their fields are kept raw until *)
(* the tag is known and then decoded by the derived decoder of a closed        *)
(* struct, which bars every field it does not have.                            *)

MessageFields ==
    {"protocolVersion", "connectionId", "displayName", "fileKey", "fileName", "currentPage",
     "editorType", "pluginVersion", "capabilities", "requestId", "completed", "total",
     "message", "result", "error", "nonce", "deadlineMs", "target", "operation"}

ClosedStruct(s) == Arm(s.must, s.may, MessageFields \ (s.must \union s.may))

DeferredMessage(structs) ==
    Object("type", structs, [t \in DOMAIN structs |-> ClosedStruct(structs[t])],
           {"fileKey", "total", "message"}, MessageFields, {})

PluginStructs ==
    [hello    |-> Sends({"protocolVersion", "connectionId", "displayName", "fileName",
                         "currentPage", "editorType", "pluginVersion", "capabilities"},
                        {"fileKey"}),
     progress |-> Sends({"requestId", "completed"}, {"total", "message"}),
     response |-> Sends({"requestId", "result"}, {}),
     error    |-> Sends({"requestId", "error"}, {}),
     pong     |-> Sends({"nonce"}, {})]

PluginToBroker == DeferredMessage(PluginStructs)

BrokerStructs ==
    [request |-> Sends({"requestId", "deadlineMs", "target", "operation"}, {}),
     cancel  |-> Sends({"requestId"}, {}),
     ping    |-> Sends({"nonce"}, {})]

BrokerToPlugin == DeferredMessage(BrokerStructs)

ReadTags ==
    {"get_metadata", "get_selection", "get_nodes", "search_nodes", "get_design_context",
     "get_styles", "get_variables", "get_components", "get_fonts", "get_dev_mode_data",
     "get_reactions", "get_motion", "get_screenshot"}

ReadOperation == Adjacent("operation", "input", [t \in ReadTags |-> t])

ReadResult == Adjacent("operation", "result", [t \in ReadTags |-> t])

-----------------------------------------------------------------------------
(* Messages between a follower and its leader. *)

FrontendToLeaderLenient ==   \* mutant: a cancel may carry a call
    Tagged("type",
           [request |-> Sends({"rpcRequestId", "call"}, {}),
            cancel  |-> Sends({"rpcRequestId"}, {})],
           [request |-> Arm({"rpcRequestId", "call"}, {}, {}),
            cancel  |-> Arm({"rpcRequestId"}, {}, {})])

FrontendToLeader ==
    Tagged("type",
           [request |-> Sends({"rpcRequestId", "call"}, {}),
            cancel  |-> Sends({"rpcRequestId"}, {})],
           [request |-> Arm({"rpcRequestId", "call"}, {}, {}),
            cancel  |-> Arm({"rpcRequestId"}, {}, {"call"})])

LeaderToFrontend ==
    LET payload == [progress |-> "progress", response |-> "result", error |-> "error"]
        payloads == {"progress", "result", "error"}
    IN Tagged("type",
              [t \in DOMAIN payload |-> Sends({"rpcRequestId", payload[t]}, {})],
              [t \in DOMAIN payload |->
                  Arm({"rpcRequestId", payload[t]}, {}, payloads \ {payload[t]})])

BrokerCallStrict ==   \* mutant: the connection is required
    Tagged("call",
           [listFiles |-> Sends({}, {}),
            invoke    |-> Sends({"invocation"}, {"connectionId"})],
           [listFiles |-> Arm({}, {}, {"connectionId", "invocation"}),
            invoke    |-> Arm({"invocation", "connectionId"}, {}, {})])

BrokerCall ==
    Tagged("call",
           [listFiles |-> Sends({}, {}),
            invoke    |-> Sends({"invocation"}, {"connectionId"})],
           [listFiles |-> Arm({}, {}, {"connectionId", "invocation"}),
            invoke    |-> Arm({"invocation"}, {"connectionId"}, {})])

BrokerResult == Adjacent("kind", "result", [files |-> "files", invocation |-> "invocation"])

-----------------------------------------------------------------------------
(* Errors.  Two codes stand for all: a message is legal with its own code only. *)

Codes == {"INTERNAL_ERROR", "TIMEOUT"}

canonical_message(code) ==
    CASE code = "INTERNAL_ERROR" -> "The operation failed."
      [] code = "TIMEOUT" -> "The operation timed out."

CodeKinds == [c \in Codes |-> [code |-> c, message |-> canonical_message(c)]]

ErrorObject(must, may) ==
    LET all == must \union may IN
    Object(NoTag, [c \in Codes |-> SendsKinds(must, may, [f \in all \intersect {"code", "message"}
                                                             |-> CodeKinds[c][f]])],
           [t \in {NoTag} |-> Arm(must, may, {})], may, {}, {})

ItemError == ErrorObject({"index", "code", "message", "retryable"}, {"id"})

ToolError == ErrorObject({"code", "message", "retryable"}, {"items"})

PluginFailure == ErrorObject({"code", "retryable"}, {"items"})

PluginItemFailure == ErrorObject({"index", "code", "retryable"}, {"id"})

-----------------------------------------------------------------------------
(* Selectors. *)

Selector == ExactlyOne({"selection", "pageId", "pageIds", "nodeId", "nodeIds"})

ScreenshotSelector == ExactlyOne({"selection", "nodeId", "nodeIds"})

SearchScope == ExactlyOne({"pageId", "nodeId"})

-----------------------------------------------------------------------------
(* Design values. *)

Gradients == {"linearGradient", "radialGradient", "angularGradient", "diamondGradient"}

PaintSends == Merge(
    [solid       |-> Sends({"color", "opacity"}, {}),
     image       |-> Sends({"imageRef", "scaleMode", "opacity"}, {}),
     mixed       |-> Sends({}, {}),
     unsupported |-> Sends({"figmaType"}, {})],
    [g \in Gradients |-> Sends({"stops", "gradientTransform", "opacity"}, {})])

PaintArms == Merge(
    [solid       |-> Arm({"color", "opacity"}, {},
                         {"stops", "gradientTransform", "imageRef", "scaleMode", "figmaType"}),
     image       |-> Arm({"imageRef", "scaleMode", "opacity"}, {},
                         {"color", "stops", "gradientTransform", "figmaType"}),
     mixed       |-> Arm({}, {}, {"color", "opacity", "stops", "gradientTransform",
                                  "imageRef", "scaleMode", "figmaType"}),
     unsupported |-> Arm({"figmaType"}, {},
                         {"color", "opacity", "stops", "gradientTransform", "imageRef",
                          "scaleMode"})],
    [g \in Gradients |-> Arm({"stops", "gradientTransform", "opacity"}, {},
                             {"color", "imageRef", "scaleMode", "figmaType"})])

PaintValue == Tagged("type", PaintSends, PaintArms)

Shadows == {"dropShadow", "innerShadow"}
Blurs == {"layerBlur", "backgroundBlur"}

EffectSends == Merge(
    [unsupported |-> Sends({"figmaType"}, {})],
    Merge([e \in Shadows |-> Sends({"color", "offsetX", "offsetY", "radius", "spread"}, {})],
          [e \in Blurs |-> Sends({"radius"}, {})]))

EffectArms == Merge(
    [unsupported |-> Arm({"figmaType"}, {}, {"color", "offsetX", "offsetY", "radius", "spread"})],
    Merge([e \in Shadows |-> Arm({"color", "offsetX", "offsetY", "radius", "spread"}, {},
                                 {"figmaType"})],
          [e \in Blurs |-> Arm({"radius"}, {}, {"color", "offsetX", "offsetY", "spread",
                                                "figmaType"})]))

EffectValue == Tagged("type", EffectSends, EffectArms)

Corners == {"topLeft", "topRight", "bottomRight", "bottomLeft"}

CornerRadiusValue ==
    Tagged("kind",
           [uniform |-> Sends({"radius"}, {}), perCorner |-> Sends(Corners, {})],
           [uniform   |-> Arm({"radius"}, {}, Corners),
            perCorner |-> Arm(Corners, {}, {"radius"})])

ComponentPropertyValue ==
    Adjacent("kind", "value", [text |-> "string", boolean |-> "bool",
                               instanceSwap |-> "string", variant |-> "string"])

VariableValue ==
    Adjacent("kind", "value", [boolean |-> "bool", float |-> "number", string |-> "string",
                               color |-> "color", alias |-> "string"])

StyleCommon == {"description", "remote", "key"}

StyleSends ==
    [paint  |-> Sends({"id", "name", "paints"}, StyleCommon),
     text   |-> Sends({"id", "name", "text"}, StyleCommon),
     effect |-> Sends({"id", "name", "effects"}, StyleCommon),
     grid   |-> Sends({"id", "name", "pattern", "size"}, StyleCommon)]

StyleArms ==
    [paint  |-> Arm({"id", "name", "paints"}, StyleCommon, {"text", "effects", "pattern", "size"}),
     text   |-> Arm({"id", "name", "text"}, StyleCommon, {"paints", "effects", "pattern", "size"}),
     effect |-> Arm({"id", "name", "effects"}, StyleCommon, {"paints", "text", "pattern", "size"}),
     grid   |-> Arm({"id", "name", "pattern", "size"}, StyleCommon, {"paints", "text", "effects"})]

StyleValue == Tagged("styleType", StyleSends, StyleArms)

DesignNode ==
    LET must == {"summary", "data", "children", "childrenTruncated"}
        may  == {"childrenTruncation"}
    IN Object(NoTag, [node |-> Sends(must, may)], [t \in {NoTag} |-> Arm(must, may, {})],
              may, {}, {})

ItemResult ==
    Tagged("status",
           [success |-> Sends({"value"}, {}), error |-> Sends({"error"}, {})],
           [success |-> Arm({"value"}, {}, {"error"}), error |-> Arm({"error"}, {}, {"value"})])

Details == {"minimal", "compact", "full"}

DetailResult(payload, may) ==
    LET must == {payload, "truncated", "observation"} IN
    Object("detail",
           [d \in Details |-> SendsKinds(must, {"truncation"} \union may, [f \in {payload} |-> d])],
           [d \in Details |-> Arm(must, {"truncation"} \union may, {})],
           {"truncation"}, {payload}, {})

GetNodesResult == DetailResult("items", {})

GetDesignContextResult == DetailResult("roots", {"unresolved"})

-----------------------------------------------------------------------------
(* Screenshots.  The side of a raster is short or long; two long sides exceed *)
(* the pixel limit although each is within its own.                           *)

Rasters == {"png", "jpeg"}
SvgOptions == {"svgOutlineText", "svgIdAttribute", "svgSimplifyStroke"}

GetScreenshotInput ==
    Object("format",
           Merge([svg |-> Sends({"selector"} \union SvgOptions, {"connectionId"})],
                 [r \in Rasters |-> Sends({"selector"}, {"connectionId", "scale"})]),
           Merge([svg |-> Arm({"selector"}, {"connectionId"} \union SvgOptions, {"scale"})],
                 [r \in Rasters |-> Arm({"selector"}, {"connectionId", "scale"}, SvgOptions)]),
           {"connectionId", "scale"}, {}, SvgOptions)

RasterFields == {"nodeId", "dataBase64", "width", "height"}

RasterAsset(format, width, height) ==
    SendsKinds(RasterFields, {}, [format |-> format, width |-> width, height |-> height])

SvgAsset(safe, must) == SendsKinds({"nodeId", "source", "safe"} \union must, {},
                                   [format |-> "svg", safe |-> safe])

ScreenshotAsset ==
    Tagged("format",
           [smallPng  |-> RasterAsset("png", "short", "short"),
            widePng   |-> RasterAsset("png", "long", "short"),
            tallPng   |-> RasterAsset("png", "short", "long"),
            smallJpeg |-> RasterAsset("jpeg", "short", "short"),
            wideJpeg  |-> RasterAsset("jpeg", "long", "short"),
            tallJpeg  |-> RasterAsset("jpeg", "short", "long"),
            safeSvg   |-> SvgAsset("true", {}),
            unsafeSvg |-> SvgAsset("false", {"rejection"})],
           Merge([svg |-> Arm({"nodeId", "source", "safe"}, {"rejection"},
                              {"dataBase64", "width", "height"})],
                 [r \in Rasters |-> Arm(RasterFields, {}, {"source", "safe", "rejection"})]))

-----------------------------------------------------------------------------
(* Reactions. *)

ToDestination == {"navigate", "openOverlay", "swapOverlay", "changeTo", "scrollTo"}

NoFields == {"closeOverlay", "back", "conditional"}

ReactionSends == Merge(
    [openLink |-> Sends({"uri"}, {}),
     setVariable |-> Sends({}, {"variableId"}),
     setVariableMode |-> Sends({}, {"variableCollectionId", "variableModeId"}),
     updateMediaRuntime |-> Sends({"mediaAction"},
                                  {"destinationId", "amountToSkip", "newTimestamp"})],
    Merge([a \in ToDestination |-> Sends({}, {"destinationId"})],
          [a \in NoFields |-> Sends({}, {})]))

ReactionArms == Merge(
    [openLink |-> Arm({"uri"}, {}, {"destinationId"}),
     setVariable |-> Arm({}, {"variableId"}, {}),
     setVariableMode |-> Arm({}, {"variableCollectionId", "variableModeId"}, {}),
     updateMediaRuntime |-> Arm({"mediaAction"},
                                {"destinationId", "amountToSkip", "newTimestamp"}, {})],
    Merge([a \in ToDestination |-> Arm({}, {"destinationId"}, {"uri"})],
          [a \in NoFields |->
              Arm({}, {}, IF a = "conditional" THEN {} ELSE {"destinationId", "uri"})]))

ReactionAction == Tagged("type", ReactionSends, ReactionArms)

-----------------------------------------------------------------------------

\* Every type with a decoder of its own.  GetSelectionResult is made as
\* GetDesignContextResult is, by the same macro, with `nodes' for `roots'.
Formats ==
    [PluginToBroker |-> PluginToBroker, BrokerToPlugin |-> BrokerToPlugin,
     ReadOperation |-> ReadOperation, ReadResult |-> ReadResult,
     FrontendToLeader |-> FrontendToLeader, LeaderToFrontend |-> LeaderToFrontend,
     BrokerCall |-> BrokerCall, BrokerResult |-> BrokerResult,
     ItemError |-> ItemError, ToolError |-> ToolError,
     PluginFailure |-> PluginFailure, PluginItemFailure |-> PluginItemFailure,
     Selector |-> Selector, ScreenshotSelector |-> ScreenshotSelector,
     SearchScope |-> SearchScope, PaintValue |-> PaintValue, EffectValue |-> EffectValue,
     CornerRadiusValue |-> CornerRadiusValue,
     ComponentPropertyValue |-> ComponentPropertyValue, VariableValue |-> VariableValue,
     StyleValue |-> StyleValue, DesignNode |-> DesignNode, ItemResult |-> ItemResult,
     GetNodesResult |-> GetNodesResult, GetDesignContextResult |-> GetDesignContextResult,
     GetScreenshotInput |-> GetScreenshotInput, ScreenshotAsset |-> ScreenshotAsset,
     ReactionAction |-> ReactionAction]
=============================================================================
