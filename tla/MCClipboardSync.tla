-------------------------- MODULE MCClipboardSync --------------------------
\* ClipboardSync checked by TLC: one item of each size class on its limit.
EXTENDS ClipboardSync

CONSTANTS small, middle, large, image, blob, broken

\* Just below and at the inline threshold, above the wire's limit.
MCSize == [x \in Items |->
              CASE x = small  -> INLINE_THRESHOLD - 1
                [] x = middle -> INLINE_THRESHOLD
                [] x = large  -> MAX_PAYLOAD + 1
                [] x = blob   -> INLINE_THRESHOLD
                [] OTHER      -> 100]
=============================================================================
