-------------------------- MODULE MCFunctionCache --------------------------
\* Two Cartesian definitions, a parametric one and a vertical line.
EXTENDS FunctionCache

MCContents == {[name |-> "sin", kind |-> "cartesian"],
               [name |-> "cos", kind |-> "cartesian"],
               [name |-> "rose", kind |-> "parametric"],
               [name |-> "line", kind |-> "vertical"]}

ASSUME TheoremsApply == StepsAreApart

\* Nothing is claimed of a spoiled cache until it is cleared for its function.  Whether
\* that happens depends on its step; on its window, only in a pan, which a drawing with
\* the other step can replace.  States that differ by the rest of it go on alike.
MCView == <<functionVars, cacheOf, drawVars, spoiled,
            [k \in Cache |-> IF k \in spoiled
                             THEN [Clear(caches[k]) EXCEPT !.tMin = 0, !.tStep = caches[k].tStep]
                             ELSE caches[k]]>>
=============================================================================
