----------------------------- MODULE MCOutputs -----------------------------
EXTENDS Outputs

\* With MyColor = "Blue": an enemy's drone and an enemy seen a moment ago, of
\* whom the sentry gets no target; an enemy on the ground and the own sentry.
MCMessages == {<<6, -1>>, <<3, 107>>}
=============================================================================
