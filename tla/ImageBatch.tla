----------------------------- MODULE ImageBatch -----------------------------
(***************************************************************************)
(* How the images of a screenshot call are packed into one MCP result      *)
(* (crates/tools content.rs).  Assets are taken in order while the result  *)
(* they would make stays within its limits; from the first that does not,  *)
(* every further image is replaced by an error.  Only sizes matter: of the *)
(* structured item, of an SVG's source within it, and of the image block.  *)
(* Structured content is sent twice, as such and as text.                  *)
(***************************************************************************)
EXTENDS Limits, Sequences, SequencesExt

CONSTANTS
    Assets,         \* what an asset may be: [failed, svg, plain, source, image]
    MaxAssets,      \* bound: assets of a call
    WrapBytes,      \* of the result around its items
    ErrorBytes      \* of an item that is an error

VARIABLES
    screenshot,   \* whether the SVG sources are charged once (account_mixed_images)
    assets,       \* the assets so far, in order
    kept,         \* the items of the result: assets, or Refused
    images,       \* the images of the result: positions in assets
    overflow,     \* an asset did not fit
    packed        \* "packing", "sent" or "limit_exceeded"

batchVars == <<screenshot, assets, kept, images, overflow, packed>>

Refused == [failed |-> TRUE, svg |-> FALSE, plain |-> ErrorBytes, source |-> 0, image |-> 0]

Sum(seq, size(_)) == FoldLeft(LAMBDA a, b : a + b, 0, [i \in DOMAIN seq |-> size(seq[i])])

Structured(items) == WrapBytes + Sum(items, LAMBDA x : x.plain + x.source)

\* `non_image_text_bytes', of which a screenshot call does not count the sources
\* a second time.
text_bytes(forScreenshot, items) ==
    2 * Structured(items) - (IF forScreenshot THEN Sum(items, LAMBDA x : x.source) ELSE 0)

envelope_bytes(items) ==
    2 * Structured(items) + Sum(items, LAMBDA x : x.image)

\* `account_call_tool_result'
Accounts(forScreenshot, items) ==
    /\ text_bytes(forScreenshot, items) <= MAX_TEXT_BYTES
    /\ envelope_bytes(items) <= MAX_ENVELOPE_BYTES

\* `screenshot_item_allowed' measures an SVG by its source, `per_item_allowed' by
\* its image.
ItemAllowed(forScreenshot, asset) ==
    IF asset.svg
    THEN (IF forScreenshot THEN asset.source ELSE asset.image) <= MAX_SVG_BYTES
    ELSE asset.image <= MAX_RASTER_BASE64_BYTES

-----------------------------------------------------------------------------

BatchInit ==
    /\ screenshot = TRUE
    /\ assets = <<>> /\ kept = <<>> /\ images = <<>>
    /\ overflow = FALSE
    /\ packed = "none"

BeginBatch(s) ==
    /\ packed = "none"
    /\ screenshot' = s
    /\ packed' = "packing"
    /\ UNCHANGED <<assets, kept, images, overflow>>

Packing == packed = "packing" /\ Len(assets) < MaxAssets

\* An asset the plugin could not make is an error already.
TakeError(asset) ==
    /\ Packing /\ screenshot /\ asset.failed
    /\ assets' = Append(assets, asset)
    /\ kept' = Append(kept, asset)
    /\ UNCHANGED <<screenshot, images, overflow, packed>>

TakeImageAnyway(asset) ==   \* mutant: a later image that fits is taken
    LET tentative == Append(kept, asset)
        fits == ItemAllowed(screenshot, asset) /\ Accounts(screenshot, tentative)
    IN /\ Packing /\ ~asset.failed
       /\ assets' = Append(assets, asset)
       /\ kept' = IF fits THEN tentative ELSE Append(kept, Refused)
       /\ images' = IF fits THEN Append(images, Len(assets')) ELSE images
       /\ UNCHANGED <<screenshot, overflow, packed>>

TakeImage(asset) ==
    LET tentative == Append(kept, asset)
        mayTry == ~overflow /\ ItemAllowed(screenshot, asset)
        fits == mayTry /\ Accounts(screenshot, tentative)
    IN /\ Packing /\ ~asset.failed
       /\ assets' = Append(assets, asset)
       /\ kept' = IF fits THEN tentative ELSE Append(kept, Refused)
       /\ images' = IF fits THEN Append(images, Len(assets')) ELSE images
       /\ overflow' = (overflow \/ (mayTry /\ ~fits))
       /\ UNCHANGED <<screenshot, packed>>

\* The whole result is accounted once more.
SendBatch ==
    /\ packed = "packing"
    /\ packed' = IF Accounts(screenshot, kept) THEN "sent" ELSE "limit_exceeded"
    /\ UNCHANGED <<screenshot, assets, kept, images, overflow>>

BatchNext ==
    \/ \E s \in BOOLEAN : BeginBatch(s)
    \/ \E asset \in Assets : TakeError(asset) \/ TakeImage(asset)
    \/ SendBatch

BatchSpec == BatchInit /\ [][BatchNext]_batchVars

-----------------------------------------------------------------------------

\* An asset that is allowed but does not fit after those before it.
Overflows(i) ==
    /\ ~assets[i].failed /\ ItemAllowed(screenshot, assets[i])
    /\ ~Accounts(screenshot, Append(SubSeq(kept, 1, i - 1), assets[i]))

BeforeCut(i) == \A j \in 1 .. i : ~Overflows(j)

\* Every asset has its item, in its place.
EveryItem ==
    /\ Len(kept) = Len(assets)
    /\ \A i \in DOMAIN assets :
          kept[i] = IF assets[i].failed \/ (BeforeCut(i) /\ ItemAllowed(screenshot, assets[i]))
                    THEN assets[i] ELSE Refused

\* The images are those of the items that are there, in their order.
ImagesOfItems ==
    /\ Range(images) = {i \in DOMAIN kept : ~kept[i].failed}
    /\ \A i, j \in DOMAIN images : i < j => images[i] < images[j]

\* What is sent is within the limits and tells of every asset, in its place: those
\* up to the first that does not fit are there as they are but for the ones too
\* large by themselves, which cost nobody else; each image there belongs to an
\* item there, in the same order.
BatchIsFaithful ==
    packed = "sent" =>
        /\ Accounts(screenshot, kept)
        /\ EveryItem /\ ImagesOfItems

\* A call that has an image that fits does not fail as a whole for the others: the
\* tests say "partial batch must still return a result".
PartialBatchReturns ==
    packed = "limit_exceeded" => images = <<>>
=============================================================================
